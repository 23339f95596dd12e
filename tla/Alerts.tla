------------------------------- MODULE Alerts -------------------------------
(***************************************************************************)
(* The alert pipeline: watchers save events in PostgreSQL and put them on  *)
(* the in-memory bus; the dispatcher consumes the bus in one goroutine     *)
(* ("main") and sweeps the table of undelivered events in another          *)
(* ("retry"); both run the same Dispatch, with the database between them.  *)
(*                                                                         *)
(* A store call, a Telegram call and a channel operation are one step      *)
(* each.  Time is the age of an event in ticks.  A subscriber is a row of  *)
(* the table: a chat that leaves and comes back is another subscriber,     *)
(* because its row gets a new id.                                          *)
(***************************************************************************)
EXTENDS Integers, Sequences, FiniteSets, SequencesExt

CONSTANTS
  Subs,             \* row ids of subscribers, in the order the store returns
  Fickle,           \* the subscribers whose user acts during the run
  Events,           \* ids of events
  Window,           \* CatchUpWindow, in ticks
  Lags,             \* ticks between the play and the insertion of its event
  MaxAttempts,      \* MaxDeliveryAttempts
  Buffer,           \* capacity of the bus
  SendOutcomes,     \* what a Telegram call may answer
  MaxStoreErrors,   \* bound: how many live store calls fail
  MaxRestarts       \* bound: how many times the process stops or crashes

Outcomes == {"ok", "unreachable", "error", "cut"}
Workers  == {"main", "retry"}

ASSUME AlertsAssumption ==
  /\ Subs \subseteq Nat /\ IsFiniteSet(Events) /\ Fickle \subseteq Subs
  /\ Window \in Nat /\ Lags \subseteq Nat
  /\ MaxAttempts \in Nat \ {0} /\ Buffer \in Nat \ {0}
  /\ SendOutcomes \subseteq Outcomes
  /\ MaxStoreErrors \in Nat /\ MaxRestarts \in Nat

VARIABLES
  members,      \* rows of subscribers
  former,       \* ids of deleted rows
  follows,      \* members with a subscription to a team of the games
  alertsOn,     \* members whose alerts_on is true
  saved,        \* rows of game_events
  silent,       \* those whose kind alerts nobody
  age,          \* now - created_at, up to Window + 1
  lag,          \* created_at - occurred_at
  delivery,     \* alert_deliveries
  unpublished,  \* events a watcher has saved and not yet put on the bus
  queue,        \* the bus
  closed,       \* the bus is closed
  mode,         \* of the process
  expired,      \* the drain context is cancelled
  worker,       \* the dispatcher's goroutines
  storeErrors, restarts,   \* bounded by MaxStoreErrors and MaxRestarts
  received,     \* history: copies of the alert a chat has got
  lateCopies,   \* history: those it got since alerts were turned off
  eligible      \* history: rows whose chat asked for alerts after the event

people  == <<members, former, follows, alertsOn>>
events  == <<saved, silent, age, lag>>
bus     == <<unpublished, queue, closed>>
process == <<mode, expired>>
bounds  == <<storeErrors, restarts>>
history == <<received, lateCopies, eligible>>
vars    == <<people, events, delivery, bus, process, worker, bounds, history>>

Rows     == Subs \X Events
Statuses == {"none", "pending", "sent", "skipped", "failed"}
Settled  == {"sent", "skipped", "failed"}
NoRow    == [status |-> "none", attempts |-> 0]
NewRow   == [status |-> "pending", attempts |-> 0]

(***************************************************************************)
(* A goroutine of the dispatcher.  "ctx" is the context it works under:    *)
(* the service's, or the drain context of the consumer.  "todo" holds the  *)
(* event in hand and, in a sweep, those after it.                          *)
(***************************************************************************)
Idle(ctx) ==
  [pc |-> "idle", ctx |-> ctx, todo |-> <<>>, ids |-> {}, rcpts |-> {},
   muted |-> {}, stale |-> FALSE, verdict |-> "pending"]

Goroutines ==
  [pc: {"idle", "find", "create", "load", "send", "mark", "stopped"},
   ctx: {"run", "drain"}, todo: Seq(Events), ids: SUBSET Subs,
   rcpts: SUBSET Subs, muted: SUBSET Subs, stale: BOOLEAN,
   verdict: {"pending", "sent", "skipped"}]

TypeOK ==
  /\ members \subseteq Subs /\ former \subseteq Subs
  /\ follows \subseteq members /\ alertsOn \subseteq members
  /\ saved \subseteq Events /\ silent \subseteq saved
  /\ age \in [Events -> 0..Window + 1] /\ lag \in [Events -> Lags \cup {0}]
  /\ delivery \in [Rows -> [status: Statuses, attempts: Nat]]
  /\ unpublished \subseteq Events /\ queue \in Seq(Events)
  /\ closed \in BOOLEAN /\ expired \in BOOLEAN
  /\ mode \in {"up", "stopping", "down"}
  /\ worker \in [Workers -> Goroutines]
  /\ storeErrors \in 0..MaxStoreErrors /\ restarts \in 0..MaxRestarts
  /\ received \in [Rows -> Nat] /\ lateCopies \in [Rows -> Nat]
  /\ eligible \subseteq Rows

Init ==
  /\ members \in SUBSET Subs /\ former = {}
  /\ follows \in SUBSET members /\ alertsOn \in SUBSET members
  /\ saved = {} /\ silent = {} /\ age = [e \in Events |-> 0] /\ lag = [e \in Events |-> 0]
  /\ delivery = [r \in Rows |-> NoRow]
  /\ unpublished = {} /\ queue = <<>> /\ closed = FALSE
  /\ mode = "up" /\ expired = FALSE
  /\ worker = [w \in Workers |-> Idle("run")]
  /\ storeErrors = 0 /\ restarts = 0
  /\ received = [r \in Rows |-> 0] /\ lateCopies = [r \in Rows |-> 0]
  /\ eligible = {}

(***************************** The data *********************************)

Wants(s) == s \in follows /\ s \in alertsOn

Interested == {s \in members : Wants(s)}

\* A bug: the age is counted from the insertion and not from the play.
IsStaleByCreation(e) == age[e] > Window

IsStale(e) == age[e] + lag[e] > Window

\* A bug: an inner join, which loses the events that have no delivery row.
NeedsRetry(e) ==
  /\ e \in saved \ silent /\ age[e] <= Window
  /\ \E s \in Subs : delivery[s, e].status = "pending"

NeedsDelivery(e) ==
  /\ e \in saved \ silent /\ age[e] <= Window
  /\ \/ \A s \in Subs : delivery[s, e].status = "none"
     \/ \E s \in Subs : delivery[s, e].status = "pending"

\* The orders in which the store may return the events S: by occurred_at.
ByOccurrence(S) ==
  {q \in SetToSeqs(S) : \A i, j \in DOMAIN q :
      i < j => age[q[i]] + lag[q[i]] >= age[q[j]] + lag[q[j]]}

\* Two bugs: the limit of attempts is not applied to rows given up; or only it is.
UndeliveredRecipients(e) ==
  {s \in members : delivery[s, e].status \in {"pending", "failed"}}

UnexhaustedRecipients(e) ==
  {s \in members : /\ delivery[s, e].status # "none"
                   /\ delivery[s, e].attempts < MaxAttempts}

PendingRecipients(e) ==
  {s \in members : /\ delivery[s, e].status = "pending"
                   /\ delivery[s, e].attempts < MaxAttempts}

\* A bug: an attempt that failed is not counted.
MarkedRowForgetting(row, status) ==
  [status |-> status, attempts |-> IF status = "pending" THEN row.attempts
                                   ELSE row.attempts + 1]

MarkedRow(row, status) ==
  [status   |-> IF status = "pending" /\ row.attempts + 1 >= MaxAttempts
                THEN "failed" ELSE status,
   attempts |-> row.attempts + 1]

\* A bug: an upsert in place of the update.
UpsertDelivery(s, e, status) ==
  delivery' = [delivery EXCEPT ![<<s, e>>] = MarkedRow(@, status)]

\* MarkDelivery updates no row when the subscriber is gone.
MarkDelivery(s, e, status) ==
  delivery' = IF delivery[s, e].status = "none" THEN delivery
              ELSE [delivery EXCEPT ![<<s, e>>] = MarkedRow(@, status)]

(************************* A dispatcher goroutine ************************)

At(w, pc)  == mode # "down" /\ worker[w].pc = pc
Event(w)   == Head(worker[w].todo)
Live(w)    == IF worker[w].ctx = "run" THEN mode = "up" ELSE ~expired
Home(w)    == Idle(IF w = "main" THEN "drain" ELSE "run")
Become(w, record) == worker' = [worker EXCEPT ![w] = record]

\* A store call fails when its context is done, or when the database does.
CallFails(w) ==
  \/ ~Live(w) /\ UNCHANGED bounds
  \/ /\ Live(w) /\ storeErrors < MaxStoreErrors
     /\ storeErrors' = storeErrors + 1 /\ UNCHANGED restarts

\* The goroutine after an event: the next one of the sweep, or home.
NextEvent(w) ==
  IF Len(worker[w].todo) <= 1 THEN Home(w)
  ELSE [Idle(worker[w].ctx) EXCEPT !.pc = "find", !.todo = Tail(worker[w].todo)]

\* An error of Dispatch ends a sweep, and the consumer drops its event.
GiveUp(w) == Become(w, Home(w))

\* catchUp: main before it consumes, and then retry at every tick of its own.
Sweep(w) ==
  /\ At(w, "idle") /\ worker[w].ctx = "run"
  /\ w = "retry" => worker["main"].ctx = "drain"
  /\ \/ CallFails(w) /\ GiveUp(w)
     \/ /\ Live(w) /\ UNCHANGED bounds
        /\ \E q \in ByOccurrence({e \in Events : NeedsDelivery(e)}) :
             Become(w, IF q = <<>> THEN Home(w)
                       ELSE [Idle("run") EXCEPT !.pc = "find", !.todo = q])
  /\ UNCHANGED <<people, events, delivery, bus, process, history>>

\* The consumer takes an event; Dispatch returns at once for a silent kind.
Receive(w) ==
  /\ w = "main" /\ At(w, "idle") /\ worker[w].ctx = "drain" /\ queue # <<>>
  /\ queue' = Tail(queue)
  /\ IF Head(queue) \in silent
     THEN UNCHANGED worker
     ELSE Become(w, [Idle("drain") EXCEPT !.pc = "find", !.todo = <<Head(queue)>>])
  /\ UNCHANGED <<people, events, delivery, unpublished, closed, process, bounds,
                 history>>

FindSubscribers(w) ==
  /\ At(w, "find")
  /\ \/ CallFails(w) /\ GiveUp(w)
     \/ /\ Live(w) /\ UNCHANGED bounds
        /\ Become(w, [worker[w] EXCEPT
             !.pc = IF Interested = {} THEN "load" ELSE "create",
             !.ids = Interested])
  /\ UNCHANGED <<people, events, delivery, bus, process, history>>

InsertDeliveries(ids, e) ==
  delivery' = [r \in Rows |->
    IF r[2] = e /\ r[1] \in ids /\ delivery[r].status = "none"
    THEN NewRow ELSE delivery[r]]

\* One transaction.  A subscriber deleted meanwhile breaks the foreign key
\* and the whole insertion; a commit may take effect and still report an error.
CreateDeliveries(w) ==
  /\ At(w, "create")
  /\ \/ CallFails(w) /\ GiveUp(w) /\ UNCHANGED delivery
     \/ /\ CallFails(w) /\ GiveUp(w)
        /\ Live(w) /\ worker[w].ids \subseteq members
        /\ InsertDeliveries(worker[w].ids, Event(w))
     \/ /\ Live(w) /\ ~ worker[w].ids \subseteq members
        /\ GiveUp(w) /\ UNCHANGED <<delivery, bounds>>
     \/ /\ Live(w) /\ worker[w].ids \subseteq members
        /\ InsertDeliveries(worker[w].ids, Event(w))
        /\ Become(w, [worker[w] EXCEPT !.pc = "load", !.ids = {}])
        /\ UNCHANGED bounds
  /\ UNCHANGED <<people, events, bus, process, history>>

\* A bug: the alerts_on of the recipients is not looked at again.
LoadAllRecipients(w) ==
  /\ At(w, "load")
  /\ \/ CallFails(w) /\ GiveUp(w)
     \/ /\ Live(w) /\ UNCHANGED bounds
        /\ LET rcpts == PendingRecipients(Event(w))
           IN  Become(w, IF rcpts = {} THEN NextEvent(w)
                         ELSE [worker[w] EXCEPT !.pc = "send", !.rcpts = rcpts,
                                                !.stale = IsStale(Event(w))])
  /\ UNCHANGED <<people, events, delivery, bus, process, history>>

\* PendingRecipients, with the alerts_on of that moment; then the age check.
LoadRecipients(w) ==
  /\ At(w, "load")
  /\ \/ CallFails(w) /\ GiveUp(w)
     \/ /\ Live(w) /\ UNCHANGED bounds
        /\ LET rcpts == PendingRecipients(Event(w))
           IN  Become(w, IF rcpts = {} THEN NextEvent(w)
                         ELSE [worker[w] EXCEPT
                                 !.pc = "send", !.rcpts = rcpts,
                                 !.muted = rcpts \ alertsOn,
                                 !.stale = IsStale(Event(w))])
  /\ UNCHANGED <<people, events, delivery, bus, process, history>>

\* The recipient in hand: recipients are visited by id.
IsNext(w, s) == s \in worker[w].rcpts /\ \A t \in worker[w].rcpts : s <= t

Advance(w, s) ==
  Become(w, IF worker[w].rcpts = {s} THEN NextEvent(w)
            ELSE [worker[w] EXCEPT !.pc = "send", !.rcpts = @ \ {s},
                                   !.muted = @ \ {s}, !.verdict = "pending"])

\* The body of mark: an error of the store is logged and forgotten.
Mark(w, s, status) ==
  \/ CallFails(w) /\ UNCHANGED delivery
  \/ Live(w) /\ MarkDelivery(s, Event(w), status) /\ UNCHANGED bounds

\* No message for a chat with alerts off, and none for a stale event.
Skip(w) ==
  /\ At(w, "send")
  /\ \E s \in worker[w].rcpts :
       /\ IsNext(w, s) /\ (s \in worker[w].muted \/ worker[w].stale)
       /\ Mark(w, s, "skipped") /\ Advance(w, s)
  /\ UNCHANGED <<people, events, bus, process, history>>

\* A bug: only the unreachable chat is told apart from a delivery.
VerdictIgnoringErrors(outcome) ==
  IF outcome = "unreachable" THEN "skipped" ELSE "sent"

VerdictOf(outcome) ==
  CASE outcome = "ok" -> "sent" [] outcome = "unreachable" -> "skipped"
    [] OTHER -> "pending"

\* SendEvent.  "cut" is a message that Telegram accepted and whose answer
\* never came: the chat has it and the caller has an error.
Send(w) ==
  /\ At(w, "send") /\ Live(w)
  /\ \E s \in worker[w].rcpts, outcome \in SendOutcomes :
       /\ IsNext(w, s) /\ s \notin worker[w].muted /\ ~worker[w].stale
       /\ Become(w, [worker[w] EXCEPT !.pc = "mark",
                                      !.verdict = VerdictOf(outcome)])
       /\ LET got == outcome \in {"ok", "cut"}
              r   == <<s, Event(w)>>
          IN  /\ received' = IF got THEN [received EXCEPT ![r] = @ + 1] ELSE received
              /\ lateCopies' = IF got /\ s \notin alertsOn
                               THEN [lateCopies EXCEPT ![r] = @ + 1] ELSE lateCopies
  /\ UNCHANGED <<people, events, delivery, bus, process, bounds, eligible>>

Record(w) ==
  /\ At(w, "mark") /\ Live(w)
  /\ \E s \in worker[w].rcpts :
       IsNext(w, s) /\ Mark(w, s, worker[w].verdict) /\ Advance(w, s)
  /\ UNCHANGED <<people, events, bus, process, history>>

\* The context ended before or during the Telegram call: nothing is recorded.
Abandon(w) ==
  /\ ~Live(w)
  /\ \/ At(w, "mark")
     \/ /\ At(w, "send") /\ ~worker[w].stale
        /\ \E s \in worker[w].rcpts : IsNext(w, s) /\ s \notin worker[w].muted
  /\ GiveUp(w)
  /\ UNCHANGED <<people, events, delivery, bus, process, bounds, history>>

\* A bug: the loop waits for its ticker alone.
LoopForever(w) ==
  /\ w = "retry" /\ At(w, "idle") /\ mode = "stopping"
  /\ UNCHANGED vars

\* The retry loop leaves when its context ends.
LeaveLoop(w) ==
  /\ w = "retry" /\ At(w, "idle") /\ mode = "stopping"
  /\ worker["main"].ctx = "drain"
  /\ Become(w, [worker[w] EXCEPT !.pc = "stopped"])
  /\ UNCHANGED <<people, events, delivery, bus, process, bounds, history>>

WorkerStep(w) ==
  \/ Sweep(w) \/ Receive(w) \/ FindSubscribers(w) \/ CreateDeliveries(w)
  \/ LoadRecipients(w) \/ Skip(w) \/ Send(w) \/ Record(w) \/ Abandon(w)
  \/ LeaveLoop(w)

(************************ Watchers and the bus ***************************)

\* SaveEvents inserts the event, of a kind that alerts or a silent one; the
\* watcher is about to publish it, unless the call reported an error although
\* the insertion was committed.  A call that was out at the cancellation may
\* still end either way: watchers are gone only when the bus is closed.
SaveEvent(e) ==
  /\ mode # "down" /\ ~closed /\ e \notin saved
  /\ saved' = saved \cup {e}
  /\ silent' \in {silent, silent \cup {e}}
  /\ \E d \in Lags : lag' = [lag EXCEPT ![e] = d]
  /\ \/ unpublished' = unpublished \cup {e} /\ UNCHANGED bounds
     \/ mode = "stopping" /\ UNCHANGED <<unpublished, bounds>>
     \/ /\ mode = "up" /\ storeErrors < MaxStoreErrors
        /\ storeErrors' = storeErrors + 1 /\ UNCHANGED <<unpublished, restarts>>
  /\ eligible' = eligible \cup {<<s, e>> : s \in Interested}
  /\ UNCHANGED <<people, age, delivery, queue, closed, process, worker,
                 received, lateCopies>>

Publish(e) ==
  /\ mode # "down" /\ e \in unpublished /\ Len(queue) < Buffer
  /\ queue' = Append(queue, e) /\ unpublished' = unpublished \ {e}
  /\ UNCHANGED <<people, events, delivery, closed, process, worker, bounds, history>>

\* Publish returns the error of a cancelled context: the event stays off the bus.
PublishCancelled(e) ==
  /\ mode = "stopping" /\ e \in unpublished
  /\ unpublished' = unpublished \ {e}
  /\ UNCHANGED <<people, events, delivery, queue, closed, process, worker, bounds,
                 history>>

\* The live poller returns when its watchers have, and closes the bus.
CloseBus ==
  /\ mode = "stopping" /\ unpublished = {} /\ ~closed
  /\ closed' = TRUE
  /\ UNCHANGED <<people, events, delivery, unpublished, queue, process, worker,
                 bounds, history>>

(***************************** The process *******************************)

Shutdown ==
  /\ mode = "up" /\ restarts < MaxRestarts
  /\ mode' = "stopping" /\ restarts' = restarts + 1
  /\ UNCHANGED <<people, events, delivery, bus, expired, worker, storeErrors, history>>

DrainExpires ==
  /\ mode = "stopping" /\ ~expired
  /\ expired' = TRUE
  /\ UNCHANGED <<people, events, delivery, bus, mode, worker, bounds, history>>

\* What is in memory is gone.
Vanish ==
  /\ mode' = "down" /\ expired' = FALSE
  /\ worker' = [w \in Workers |-> Idle("run")]
  /\ unpublished' = {} /\ queue' = <<>> /\ closed' = FALSE

\* Consume has drained a closed bus, and Run waits for the retry loop.
Exit ==
  /\ mode = "stopping" /\ closed /\ queue = <<>>
  /\ worker["main"].pc = "idle" /\ worker["main"].ctx = "drain"
  /\ worker["retry"].pc = "stopped"
  /\ Vanish
  /\ UNCHANGED <<people, events, delivery, bounds, history>>

Crash ==
  /\ mode # "down" /\ restarts < MaxRestarts /\ restarts' = restarts + 1
  /\ Vanish
  /\ UNCHANGED <<people, events, delivery, storeErrors, history>>

Start ==
  /\ mode = "down" /\ mode' = "up"
  /\ UNCHANGED <<people, events, delivery, bus, expired, worker, bounds, history>>

Tick ==
  /\ \E e \in saved : age[e] <= Window
  /\ age' = [e \in Events |-> IF e \in saved /\ age[e] <= Window
                              THEN age[e] + 1 ELSE age[e]]
  /\ UNCHANGED <<people, saved, silent, lag, delivery, bus, process, worker, bounds, history>>

(**************************** The chat's user ****************************)

\* A new member follows nothing and has alerts off.
Join(s) ==
  /\ mode = "up" /\ s \notin members \cup former
  /\ members' = members \cup {s}
  /\ UNCHANGED <<former, follows, alertsOn, events, delivery, bus, process, worker,
                 bounds, history>>

\* The history of a change of settings that leaves s wanting alerts, or not.
NoteWish(s) ==
  eligible' = IF Wants(s)' THEN eligible \cup {<<s, e>> : e \in saved} ELSE eligible

Follow(s) ==
  /\ mode = "up" /\ s \in members
  /\ follows' = IF s \in follows THEN follows \ {s} ELSE follows \cup {s}
  /\ UNCHANGED <<members, former, alertsOn, events, delivery, bus, process, worker,
                 bounds, received, lateCopies>>
  /\ NoteWish(s)

SetAlerts(s) ==
  /\ mode = "up" /\ s \in members
  /\ alertsOn' = IF s \in alertsOn THEN alertsOn \ {s} ELSE alertsOn \cup {s}
  /\ lateCopies' = [r \in Rows |-> IF r[1] = s THEN 0 ELSE lateCopies[r]]
  /\ UNCHANGED <<members, former, follows, events, delivery, bus, process, worker,
                 bounds, received>>
  /\ NoteWish(s)

\* A bug: the subscriptions of a deleted subscriber stay.
StopKeepingSubscriptions(s) ==
  /\ mode = "up" /\ s \in members
  /\ members' = members \ {s} /\ former' = former \cup {s}
  /\ alertsOn' = alertsOn \ {s}
  /\ delivery' = [r \in Rows |-> IF r[1] = s THEN NoRow ELSE delivery[r]]
  /\ UNCHANGED <<follows, events, bus, process, worker, bounds, history>>

\* DeleteSubscriber cascades to subscriptions and deliveries.
Stop(s) ==
  /\ mode = "up" /\ s \in members
  /\ members' = members \ {s} /\ former' = former \cup {s}
  /\ follows' = follows \ {s} /\ alertsOn' = alertsOn \ {s}
  /\ delivery' = [r \in Rows |-> IF r[1] = s THEN NoRow ELSE delivery[r]]
  /\ UNCHANGED <<events, bus, process, worker, bounds, history>>

UserStep(s) == Join(s) \/ Follow(s) \/ SetAlerts(s) \/ Stop(s)

Next ==
  \/ \E w \in Workers : WorkerStep(w)
  \/ \E e \in Events : SaveEvent(e) \/ Publish(e) \/ PublishCancelled(e)
  \/ CloseBus \/ Shutdown \/ DrainExpires \/ Exit \/ Crash \/ Start \/ Tick
  \/ \E s \in Fickle : UserStep(s)

Spec == Init /\ [][Next]_vars

\* The scheduler runs every goroutine, a blocked Publish takes the room or the
\* cancellation it waits for, and the supervisor of the container restarts it.
Fairness ==
  /\ \A w \in Workers : WF_vars(WorkerStep(w))
  /\ \A e \in Events : WF_vars(Publish(e) \/ PublishCancelled(e))
  /\ WF_vars(CloseBus) /\ WF_vars(Exit) /\ WF_vars(Start)

FairSpec == Spec /\ Fairness

(***************************** Properties ********************************)

\* A goroutine holds a row from PendingRecipients to the mark that ends it.
Holds(w, r) ==
  worker[w].pc \in {"send", "mark"} /\ r[1] \in worker[w].rcpts /\ r[2] = Event(w)

Holders(r) == {w \in Workers : Holds(w, r)}

\* A row recorded as sent is an alert the chat has, whatever the order of the
\* marks of the two goroutines, lost marks and crashes.
SentWasReceived ==
  \A r \in Rows : delivery[r].status = "sent" => received[r] >= 1

\* Two goroutines that mark one row take it at most one attempt past the limit,
\* and a row is given up only after the limit.
AttemptsBounded ==
  \A r \in Rows :
    /\ delivery[r].attempts <= MaxAttempts + 1
    /\ delivery[r].status = "failed" => delivery[r].attempts >= MaxAttempts

\* The mark that settles a row leaves at most one goroutine that may still
\* overwrite it: MarkDelivery does not look at the status it replaces.
SettledRowHeldOnce ==
  \A r \in Rows : delivery[r].status \in Settled => Cardinality(Holders(r)) <= 1

\* No chat gets the alert of an event unless it followed a team with alerts on
\* at some moment since the event was saved, the kind of the event alerts, and
\* the event was not already too old when it was saved (a late poll, a missing
\* wall clock).
OnlyTheEligible ==
  \A r \in Rows : received[r] > 0 =>
    r \in eligible /\ r[2] \notin silent /\ lag[r[2]] <= Window

\* After a user turns alerts off, or leaves, each goroutine sends at most the
\* one copy it had already decided to send.
OptOutIsPrompt ==
  \A r \in Rows : lateCopies[r] <= Cardinality(Workers)

\* Every copy is a recorded attempt, or in flight, or one that a failing store or
\* the end of the process kept from being recorded: two at most for each end, those
\* of main and of retry, or those of main under the service's context and under
\* the drain's (retry starts when main has caught up).
CopiesAccounted ==
  \A r \in Rows : delivery[r].status # "none" =>
    received[r] <= delivery[r].attempts + storeErrors + 2 * restarts
                   + Cardinality({w \in Workers : worker[w].pc = "mark" /\ Holds(w, r)})

\* The event waits for s: its row is open, or the rows are still to be made of a
\* list of subscribers nobody has read yet.  (A chat that subscribes after the
\* rows were made gets none, and the sweep does not add it.)
Owed(s, e) ==
  \/ delivery[s, e].status = "pending"
  \/ /\ \A t \in Subs : delivery[t, e].status = "none"
     /\ \A w \in Workers : worker[w].pc = "create" => Event(w) # e

\* The alert of a saved event reaches every chat that wants it before its rows
\* are made and goes on wanting it, unless the event has become too old, every
\* attempt has failed, or an attempt found the chat muted or unreachable: whatever
\* is lost between the save and the mark, the sweep of the table finds it again.
AlertArrives ==
  \A s \in Subs, e \in Events :
    (e \in saved \ silent /\ Wants(s) /\ Owed(s, e)) ~>
      \/ received[s, e] >= 1 \/ delivery[s, e].status \in {"failed", "skipped"}
      \/ IsStale(e) \/ ~Wants(s)

\* A process told to stop stops: watchers leave a full bus, the bus is closed
\* and drained, the two goroutines return.
ShutdownCompletes == mode = "stopping" ~> mode = "down"

\* The rows and the copies behave as the ledger of alerts promises.
Ledger == INSTANCE AlertLedger WITH
  outcome <- [r \in Rows |-> delivery[r].status], copies <- received, gone <- former

ImplementsLedger == Ledger!LedgerSpec

\* What TestDispatchIsIdempotent expects: one event, one copy.
DeliveredOnce == \A r \in Rows : received[r] <= 1
=============================================================================
