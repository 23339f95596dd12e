----------------------------- MODULE Supervisor -----------------------------
(***************************************************************************)
(* The life of the process: run makes the parts, starts the components one *)
(* by one in an error group, each under supervise, waits for all, and      *)
(* closes the store.  A component is no more than what makes it return and *)
(* with what; the poller, the dispatcher and the scheduler have modules of *)
(* their own.  The http server lets requests of the webhook finish.        *)
(***************************************************************************)
EXTENDS Integers, FiniteSets, Sequences, SequencesExt

CONSTANT MaxRequests   \* bound: requests in the life of the process

ASSUME SupervisorAssumption == MaxRequests \in Nat

VARIABLES
  stage,       \* how far run has come
  source,      \* of updates: "webhook" or "polling"
  reports,     \* ReportsToOps
  component,   \* "off", "running", or what it returned: "nil" or "error"
  draining,    \* the http server is in Shutdown
  graceOver,   \* whose ShutdownGrace has passed
  signalled,   \* SIGINT or SIGTERM has cancelled ctx
  failed,      \* a component has returned an error to the group
  busOpen,
  storeOpen,
  requests,    \* webhook requests: taken, and answered in time
  exit         \* the code of the process, -1 before it

configuration  == <<source, reports>>
group          == <<component, draining, graceOver, signalled, failed, busOpen>>
supervisorVars == <<stage, configuration, group, storeOpen, requests, exit>>

Components == {"http", "telegram", "scheduler", "dispatcher", "reporter", "poller"}
Order      == <<"http", "telegram", "scheduler", "dispatcher", "reporter", "poller">>

\* How run prepares: each step fails or leads to the next.
Setup == <<"store", "migrate", "provider", "teams">>

SupervisorInit ==
  /\ stage = "store" /\ source \in {"webhook", "polling"} /\ reports \in BOOLEAN
  /\ component = [c \in Components |-> "off"]
  /\ draining = FALSE /\ graceOver = FALSE /\ signalled = FALSE /\ failed = FALSE
  /\ busOpen = TRUE /\ storeOpen = FALSE
  /\ requests = [taken |-> 0, answered |-> 0] /\ exit = -1

Running(c)  == component[c] = "running"
Returned(c) == component[c] \in {"nil", "error"}
Out         == stage = "over"

Signal ==
  /\ ~Out /\ ~signalled /\ signalled' = TRUE
  /\ UNCHANGED <<stage, configuration, component, draining, graceOver, failed, busOpen,
                 storeOpen, requests, exit>>

Exit(code) == stage' = "over" /\ exit' = code /\ storeOpen' = FALSE

(***************************** The beginning *****************************)

StepSucceeds ==
  /\ stage \in ToSet(Setup)
  /\ stage' = IF stage = "teams" THEN Order[1]
              ELSE Setup[1 + CHOOSE i \in DOMAIN Setup : Setup[i] = stage]
  /\ storeOpen' = TRUE
  /\ UNCHANGED <<configuration, group, requests, exit>>

\* When the teams cannot be synced the roster of the store will do.
StepFails ==
  /\ \/ stage \in {"store", "migrate", "provider", "roster"} /\ Exit(1)
     \/ stage = "teams" /\ stage' = "roster" /\ UNCHANGED <<storeOpen, exit>>
  /\ UNCHANGED <<configuration, group, requests>>

RosterIsThere ==
  /\ stage = "roster" /\ stage' = Order[1]
  /\ UNCHANGED <<configuration, group, storeOpen, requests, exit>>

\* The reporter only if there is a chat to report to.  The webhook begins by
\* registering itself.
Go ==
  /\ stage \in Components
  /\ component' = [component EXCEPT ![stage] =
       IF stage = "reporter" /\ ~reports THEN "off"
       ELSE IF stage = "telegram" /\ source = "webhook" THEN "registering" ELSE "running"]
  /\ stage' = IF stage = "poller" THEN "waiting"
              ELSE Order[1 + CHOOSE i \in DOMAIN Order : Order[i] = stage]
  /\ UNCHANGED <<configuration, draining, graceOver, signalled, failed, busOpen, storeOpen,
                 requests, exit>>

(**************************** The components *****************************)

\* A bug: components are given the context of the process, not that of the group.
SignalOnly == signalled

\* The context of the group is done.
Cancelled == signalled \/ failed

\* supervise takes a component that stops on its own for one that failed.
Returns(c, result) ==
  LET what == IF result = "nil" /\ ~Cancelled THEN "error" ELSE result
  IN  /\ component' = [component EXCEPT ![c] = what]
      /\ failed' = (failed \/ what = "error")

Unmoved == UNCHANGED <<stage, configuration, signalled, storeOpen, requests, exit>>

\* The address is taken, or the listener breaks.
ListenFails ==
  /\ Running("http") /\ ~draining /\ Returns("http", "error")
  /\ Unmoved /\ UNCHANGED <<draining, graceOver, busOpen>>

Shutdown ==
  /\ Running("http") /\ ~draining /\ Cancelled /\ draining' = TRUE
  /\ Unmoved /\ UNCHANGED <<component, graceOver, failed, busOpen>>

GraceEnds ==
  /\ Running("http") /\ draining /\ ~graceOver /\ graceOver' = TRUE
  /\ Unmoved /\ UNCHANGED <<component, draining, failed, busOpen>>

ServerReturns ==
  /\ Running("http") /\ draining
  /\ \/ requests.taken = requests.answered /\ Returns("http", "nil")
     \/ graceOver /\ Returns("http", "error")
  /\ Unmoved /\ UNCHANGED <<draining, graceOver, busOpen>>

\* Cancelled or not, setWebhook may fail, and its error is that of the component.
SetWebhook ==
  /\ component["telegram"] = "registering"
  /\ \/ /\ component' = [component EXCEPT !["telegram"] = "running"] /\ UNCHANGED failed
     \/ Returns("telegram", "error")
  /\ Unmoved /\ UNCHANGED <<draining, graceOver, busOpen>>

\* The sources of updates, the scheduler and the reporter wait for nothing else.
LoopReturns(c) ==
  /\ c \in {"telegram", "scheduler", "reporter"} /\ Running(c) /\ Cancelled
  /\ Returns(c, "nil")
  /\ Unmoved /\ UNCHANGED <<draining, graceOver, busOpen>>

\* The poller closes the bus behind it.
PollerReturns ==
  /\ Running("poller") /\ Cancelled /\ Returns("poller", "nil") /\ busOpen' = FALSE
  /\ Unmoved /\ UNCHANGED <<draining, graceOver>>

\* The dispatcher goes on until the bus is closed and empty; what is left on it does
\* not keep it longer than its grace.
DispatcherReturns ==
  /\ Running("dispatcher") /\ ~busOpen /\ Returns("dispatcher", "nil")
  /\ Unmoved /\ UNCHANGED <<draining, graceOver, busOpen>>

TakeRequest ==
  /\ Running("http") /\ ~draining /\ source = "webhook" /\ requests.taken < MaxRequests
  /\ requests' = [requests EXCEPT !.taken = @ + 1]
  /\ UNCHANGED <<stage, configuration, group, storeOpen, exit>>

\* The context of a request is not that of the process: it has the store as long as
\* that is open.
AnswerRequest ==
  /\ ~Out /\ requests.answered < requests.taken
  /\ requests' = [requests EXCEPT !.answered = @ + 1]
  /\ UNCHANGED <<stage, configuration, group, storeOpen, exit>>

(******************************** The end ********************************)

\* g.Wait returns the first error, and the store is closed on the way out; requests
\* that are still in hand end with the process.
Wait ==
  /\ stage = "waiting"
  /\ \A c \in Components : Returned(c) \/ (c = "reporter" /\ ~reports)
  /\ Exit(IF failed THEN 1 ELSE 0)
  /\ UNCHANGED <<configuration, group, requests>>

Startup == StepSucceeds \/ StepFails \/ RosterIsThere \/ Go
Server  == Shutdown \/ ServerReturns

SupervisorNext ==
  \/ Signal \/ Startup \/ ListenFails \/ Server \/ GraceEnds \/ SetWebhook
  \/ \E c \in Components : LoopReturns(c)
  \/ PollerReturns \/ DispatcherReturns \/ TakeRequest \/ AnswerRequest \/ Wait

\* Every call of run ends, and components notice their context; requests may hang.
\* That the poller returns is ShutdownCompletes of LivePoller, that the dispatcher
\* does the one of Alerts.
SupervisorFairness ==
  /\ WF_supervisorVars(Startup) /\ WF_supervisorVars(Server)
  /\ WF_supervisorVars(GraceEnds) /\ WF_supervisorVars(SetWebhook)
  /\ \A c \in Components : WF_supervisorVars(LoopReturns(c))
  /\ WF_supervisorVars(PollerReturns) /\ WF_supervisorVars(DispatcherReturns)
  /\ WF_supervisorVars(Wait)

(****************************** Properties *******************************)

\* The process that ends without an error was told to, and has done all it had in
\* hand; and no component is left without the store.
CleanStop ==
  /\ exit = 0 => /\ signalled /\ ~busOpen /\ requests.taken = requests.answered
                 /\ \A c \in Components : component[c] \in {"nil", "off"}
  /\ ~storeOpen => \A c \in Components : component[c] \in {"off", "nil", "error"}

\* When one component has returned, for whatever reason, or a signal has come, at
\* whatever moment of the start, all return, in an order that leaves none waiting
\* for another, and the process ends, clean only if nothing went wrong.
OneOutAllOut ==
  []CleanStop /\ ((signalled \/ \E c \in Components : Returned(c)) ~> Out)
=============================================================================
