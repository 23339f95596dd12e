------------------------------ MODULE Commands ------------------------------
(***************************************************************************)
(* One private chat and the bot: the updates Telegram holds for the bot,   *)
(* the source that takes them (long polling in one goroutine, or webhook   *)
(* requests in many), Service.Handle with the statements it sends to       *)
(* PostgreSQL, and the screen the user ends up with.                       *)
(*                                                                         *)
(* A store call and a Telegram call are one step each.  An update is known *)
(* by its number.  The roster of teams does not change after the start of  *)
(* the service, so the query for it is part of the step that follows it;   *)
(* so is the request for the standings, which changes nothing.             *)
(***************************************************************************)
EXTENDS Integers, Sequences, FiniteSets, SequencesExt

CONSTANTS
  Roster,        \* codes of the teams of the league
  Strangers,     \* codes that no team has
  NoTeam,        \* the team of a command that names none
  Sources,       \* how the service may be configured to get its updates
  Handlers,      \* goroutines that may run dispatch at the same time
  Poller,        \* the one of them that polls
  Uses,          \* what the user does, among Intents
  MaxUpdates,    \* how many updates there are
  MaxTroubles    \* bound: failing calls, lost answers and ends of the process

(***************************************************************************)
(* What parseUpdate makes of an update.  A press of a button edits the     *)
(* message of the button; a text gets a message in reply; an update of a   *)
(* group, of a channel or without text is ignored.                         *)
(***************************************************************************)
Intent(kind, team, enable, pressed) ==
  [kind |-> kind, team |-> team, enable |-> enable, edit |-> pressed]

Pressed ==
  {Intent("toggle_team", t, FALSE, TRUE) : t \in Roster} \cup
  {Intent(k, NoTeam, FALSE, TRUE) :
     k \in {"menu", "teams", "standings", "toggle_alerts", "unknown"}}

Typed ==
  {Intent("toggle_team", t, FALSE, FALSE) : t \in Roster \cup Strangers} \cup
  {Intent("alerts", NoTeam, b, FALSE) : b \in BOOLEAN} \cup
  {Intent(k, NoTeam, FALSE, FALSE) :
     k \in {"start", "menu", "teams", "standings", "stop", "help", "unknown"}}

Ignored == Intent("ignored", NoTeam, FALSE, FALSE)

Intents == Pressed \cup Typed \cup {Ignored}

ASSUME CommandsAssumption ==
  /\ NoTeam \notin Roster \cup Strangers /\ Roster \cap Strangers = {}
  /\ Sources \subseteq {"polling", "webhook"}
  /\ Handlers \subseteq Nat /\ Poller \in Handlers
  /\ Uses \subseteq Intents
  /\ MaxUpdates \in Nat /\ MaxTroubles \in Nat

VARIABLES
  source,       \* of this service
  sent,         \* what the user asks for, in order
  confirmed,    \* updates Telegram will not deliver again
  offset,       \* of the poller
  batch,        \* updates of the last getUpdates, not yet dispatched
  handler,      \* the goroutines in dispatch
  row,          \* the row of the chat in subscribers, with its subscriptions
  lastId,       \* of the sequence of ids
  screen,       \* the reply the user saw last
  faults, restarts,   \* their sum is bounded by MaxTroubles
  starts,       \* history: how often dispatch has begun with an update
  ended,        \* history: updates whose dispatch has come to its end
  under,        \* history: the ids the updates were handled under
  repeats,      \* history: webhook answers that Telegram did not get
  doubt         \* history: a later command has not shown its effect

telegram == <<sent, confirmed>>
polling  == <<offset, batch>>
store    == <<row, lastId>>
user     == <<screen, doubt>>
bounds   == <<faults, restarts>>
history  == <<starts, ended, under, repeats>>
vars     == <<source, telegram, polling, handler, store, user, bounds, history>>

Updates == 1..MaxUpdates
NoRow   == [id |-> 0, follows |-> {}, alerts |-> FALSE]

Reply(kind, teams, enabled) ==
  [kind |-> kind, teams |-> teams, enabled |-> enabled]

NoReply == Reply("none", {}, FALSE)

(***************************************************************************)
(* A goroutine in dispatch: "id" and "alerts" are the subscriber that      *)
(* EnsureSubscriber returned, "subscribed" what toggle has read, "reply"   *)
(* what Handle returns; "alone" says that no other one has run since it    *)
(* began.                                                                  *)
(***************************************************************************)
Idle ==
  [pc |-> "idle", update |-> 0, id |-> 0, alerts |-> FALSE,
   subscribed |-> FALSE, reply |-> NoReply, alone |-> TRUE]

Init ==
  /\ source \in Sources
  /\ sent \in [Updates -> Uses] /\ confirmed = {}
  /\ offset = 0 /\ batch = <<>>
  /\ handler = [h \in Handlers |-> Idle]
  /\ row = NoRow /\ lastId = 0
  /\ screen = NoReply /\ doubt = FALSE
  /\ faults = 0 /\ restarts = 0
  /\ starts = [u \in Updates |-> 0] /\ ended = {}
  /\ under = [u \in Updates |-> {}] /\ repeats = 0

InDispatch(h) == handler[h].pc \notin {"idle", "answer"}
At(h, pc)     == handler[h].pc = pc
Command(h)    == sent[handler[h].update]

Become(h, g) == handler' = [handler EXCEPT ![h] = g]
Go(h, pc)    == Become(h, [handler[h] EXCEPT !.pc = pc])

Fault == faults + restarts < MaxTroubles /\ faults' = faults + 1 /\ UNCHANGED restarts

\* dispatch has returned; a request has its 200 still to come, whatever happened.
Over(u) ==
  IF source = "webhook" THEN [Idle EXCEPT !.pc = "answer", !.update = u] ELSE Idle

Finish(h) ==
  /\ Become(h, Over(handler[h].update))
  /\ ended' = ended \cup {handler[h].update}

\* A bug: the error of a command is returned, and its goroutine is gone.
FailForGood(h) ==
  /\ Go(h, "gone")
  /\ doubt' = TRUE /\ UNCHANGED <<ended, screen>>

\* The error of a command is logged, and the user hears nothing.
Fail(h) == Finish(h) /\ doubt' = TRUE /\ UNCHANGED screen

\* Updates Telegram has for an offset, and those that the offset confirms.
Waiting(o)  == {u \in Updates \ confirmed : u >= o}
ReadUpTo(o) == {u \in Updates : u < o}

\* The answers to getUpdates: those that have arrived by then, in order, the first
\* ones first.
Batches(o) ==
  {b \in SeqOf(Waiting(o), MaxUpdates) :
     /\ \A i, j \in DOMAIN b : i < j => b[i] < b[j]
     /\ \A i \in DOMAIN b : \A u \in Waiting(o) :
          u < b[i] => \E j \in DOMAIN b : b[j] = u}

(***************************** The sources ********************************)

\* What parseUpdate and the first lines of Handle decide, with no call that
\* changes anything: AnswerCallback may fail and nobody minds.
Parsed(u) ==
  LET new == [Idle EXCEPT !.update = u]
  IN CASE sent[u].kind = "ignored" -> Over(u)
       [] sent[u].kind \in {"help", "unknown"} ->
            [new EXCEPT !.pc = IF sent[u].edit THEN "edit" ELSE "send",
                        !.reply = Reply("help", {}, FALSE)]
       [] OTHER -> [new EXCEPT !.pc = "ensure"]

\* dispatch begins with update u, and who else runs does not run alone.
Begin(h, u) ==
  LET others == {o \in Handlers \ {h} : InDispatch(o)}
  IN /\ At(h, "idle")
     /\ handler' = [o \in Handlers |->
          IF o = h THEN [Parsed(u) EXCEPT !.alone = others = {}]
          ELSE IF o \in others THEN [handler[o] EXCEPT !.alone = FALSE]
          ELSE handler[o]]
     /\ starts' = [starts EXCEPT ![u] = @ + 1]
     /\ ended' = IF sent[u].kind = "ignored" THEN ended \cup {u} ELSE ended
     /\ UNCHANGED <<under, repeats>>

\* The answer may hold no updates; one that is lost has confirmed what the request
\* confirms all the same.
GetUpdates ==
  /\ source = "polling" /\ At(Poller, "idle") /\ batch = <<>>
  /\ confirmed' = confirmed \cup ReadUpTo(offset)
  /\ \/ batch' \in Batches(offset) /\ UNCHANGED bounds
     \/ Fault /\ UNCHANGED batch
  /\ UNCHANGED <<source, sent, offset, handler, store, user, history>>

\* A bug: the offset is the last update and not the one after it.
PastItself(u) == u

Past(u) == u + 1

DispatchNext ==
  /\ batch # <<>>
  /\ Begin(Poller, Head(batch))
  /\ offset' = IF Head(batch) >= offset THEN Past(Head(batch)) ELSE offset
  /\ batch' = Tail(batch)
  /\ UNCHANGED <<source, telegram, store, user, bounds>>

\* Telegram posts the updates that have no 200, each over one connection at a
\* time.  The first posts come in order, as "sent" has every order; and of the
\* idle goroutines, which are all alike, the first takes the request.
ServeHTTP(h, u) ==
  /\ source = "webhook" /\ u \in Updates \ confirmed
  /\ \A v \in Updates : v < u => starts[v] > 0
  /\ \A o \in Handlers : handler[o].update # u /\ (o < h => ~At(o, "idle"))
  /\ Begin(h, u)
  /\ UNCHANGED <<source, telegram, polling, store, user, bounds>>

\* The 200 may come too late: server.go ends a response after fifteen seconds.
Answer(h) ==
  /\ At(h, "answer") /\ Become(h, Idle)
  /\ \/ confirmed' = confirmed \cup {handler[h].update} /\ UNCHANGED <<bounds, repeats>>
     \/ Fault /\ repeats' = repeats + 1 /\ UNCHANGED confirmed
  /\ UNCHANGED <<source, sent, polling, store, user, starts, ended, under>>

(***************************** The handler ********************************)

\* INSERT ... ON CONFLICT (chat_id): alerts_on is false by default.
Ensured == IF row.id = 0 THEN [NoRow EXCEPT !.id = lastId + 1] ELSE row

Route(kind) ==
  CASE kind \in {"start", "teams"}         -> "options"
    [] kind \in {"menu", "standings"}      -> "followed"
    [] kind \in {"alerts", "toggle_alerts"} -> "set"
    [] kind = "toggle_team"                -> "current"
    [] kind = "stop"                       -> "delete"

EnsureSubscriber(h) ==
  /\ At(h, "ensure")
  /\ \/ Fault /\ Fail(h) /\ UNCHANGED under
        /\ row' \in {row, Ensured} /\ lastId' = IF row'.id > lastId THEN row'.id ELSE lastId
     \/ /\ row' = Ensured /\ lastId' = IF row'.id > lastId THEN row'.id ELSE lastId
        /\ Become(h, [handler[h] EXCEPT !.pc = Route(Command(h).kind),
                                        !.id = row'.id, !.alerts = row'.alerts])
        /\ under' = [under EXCEPT ![handler[h].update] = @ \cup {row'.id}]
        /\ UNCHANGED <<ended, user, bounds>>
  /\ UNCHANGED <<source, telegram, polling, starts, repeats>>

Respond(h, reply) ==
  Become(h, [handler[h] EXCEPT !.pc = IF Command(h).edit THEN "edit" ELSE "send",
                               !.reply = reply])

\* A bug: the statements of a subscriber name the chat and not the id.
IsOfTheChat(id) == row.id # 0

\* WHERE subscriber_id = $1: a subscriber that is gone has no rows.
IsThere(id) == row.id = id

Following(h) == IF IsThere(handler[h].id) THEN row.follows ELSE {}

\* toggle reads the roster and the subscriptions.
ReadCurrent(h) ==
  /\ At(h, "current")
  /\ \/ Fault /\ Fail(h)
     \/ /\ IF Command(h).team \in Roster
           THEN Become(h, [handler[h] EXCEPT !.pc = "change",
                             !.subscribed = Command(h).team \in Following(h)])
           ELSE Respond(h, Reply("unknown_team", {}, FALSE))
        /\ UNCHANGED <<ended, user, bounds>>
  /\ UNCHANGED <<source, telegram, polling, store, starts, under, repeats>>

WithTeam(t)    == [row EXCEPT !.follows = @ \cup {t}]
WithoutTeam(t) == [row EXCEPT !.follows = @ \ {t}]

\* AddSubscription breaks the foreign key when the subscriber is gone;
\* RemoveSubscription has nothing to remove then.
ChangeSubscription(h) ==
  LET t   == Command(h).team
      id  == handler[h].id
      new == CASE ~IsThere(id)          -> row
               [] handler[h].subscribed -> WithoutTeam(t)
               [] OTHER                 -> WithTeam(t)
  IN /\ At(h, "change")
     /\ \/ Fault /\ Fail(h) /\ row' \in {row, new}
        \/ /\ ~IsThere(id) /\ ~handler[h].subscribed
           /\ Fail(h) /\ UNCHANGED <<row, bounds>>
        \/ /\ IsThere(id) \/ handler[h].subscribed
           /\ row' = new
           /\ Become(h, [handler[h] EXCEPT !.pc = "options",
                !.reply.kind = IF handler[h].subscribed THEN "team_removed" ELSE "team_added"])
           /\ UNCHANGED <<ended, user, bounds>>
     /\ UNCHANGED <<source, telegram, polling, lastId, starts, under, repeats>>

\* A bug: the switch is set to what the command says, although a press says nothing.
WantedAsTyped(h) == Command(h).enable

Wanted(h) == IF Command(h).kind = "toggle_alerts" THEN ~handler[h].alerts
                                                  ELSE Command(h).enable

\* A bug: the menu shows the alerts as EnsureSubscriber returned them.
ShownAsRead(h) == handler[h].alerts

ShownAlerts(h) == Wanted(h)

SetAlerts(h) ==
  LET new == IF IsThere(handler[h].id) THEN [row EXCEPT !.alerts = Wanted(h)] ELSE row
  IN /\ At(h, "set")
     /\ \/ Fault /\ Fail(h) /\ row' \in {row, new}
        \/ /\ row' = new
           /\ IF Command(h).kind = "toggle_alerts"
              THEN Become(h, [handler[h] EXCEPT !.pc = "followed", !.alerts = ShownAlerts(h)])
              ELSE Respond(h, Reply("alerts", {}, Wanted(h)))
           /\ UNCHANGED <<ended, user, bounds>>
     /\ UNCHANGED <<source, telegram, polling, lastId, starts, under, repeats>>

\* ON DELETE CASCADE takes the subscriptions away.
Deleted == NoRow

DeleteSubscriber(h) ==
  LET new == IF IsThere(handler[h].id) THEN Deleted ELSE row
  IN /\ At(h, "delete")
     /\ \/ Fault /\ Fail(h) /\ row' \in {row, new}
        \/ /\ row' = new
           /\ Respond(h, Reply("stopped", {}, FALSE))
           /\ UNCHANGED <<ended, user, bounds>>
     /\ UNCHANGED <<source, telegram, polling, lastId, starts, under, repeats>>

\* The last read of a menu, and of the standings, which say nothing of alerts.
ReadFollowed(h) ==
  /\ At(h, "followed")
  /\ \/ Fault /\ Fail(h)
     \/ /\ Respond(h, IF Command(h).kind = "standings"
                      THEN Reply("standings", Following(h), FALSE)
                      ELSE Reply("menu", Following(h), handler[h].alerts))
        /\ UNCHANGED <<ended, user, bounds>>
  /\ UNCHANGED <<source, telegram, polling, store, starts, under, repeats>>

\* The roster with the selected teams, after a toggle as they are then.
ReadOptions(h) ==
  /\ At(h, "options")
  /\ \/ Fault /\ Fail(h)
     \/ /\ Respond(h, Reply(CASE Command(h).kind = "start" -> "welcome"
                              [] Command(h).kind = "teams" -> "teams"
                              [] OTHER -> handler[h].reply.kind,
                            Following(h), FALSE))
        /\ UNCHANGED <<ended, user, bounds>>
  /\ UNCHANGED <<source, telegram, polling, store, starts, under, repeats>>

(************************** The reply goes out ****************************)

Show(h) == screen' = handler[h].reply

\* Telegram refuses an edit that changes nothing; an edit may also have been
\* made although the call failed.  Either way a new message follows.
EditMessage(h) ==
  /\ At(h, "edit")
  /\ \/ Show(h) /\ doubt' = ~handler[h].alone /\ Finish(h)
     \/ Go(h, "send") /\ (Show(h) \/ UNCHANGED screen) /\ UNCHANGED <<doubt, ended>>
  /\ UNCHANGED <<source, telegram, polling, store, bounds, starts, under, repeats>>

SendMessage(h) ==
  /\ At(h, "send") /\ Finish(h)
  /\ \/ Show(h) /\ doubt' = ~handler[h].alone /\ UNCHANGED bounds
     \/ Fault /\ doubt' = TRUE /\ (Show(h) \/ UNCHANGED screen)
  /\ UNCHANGED <<source, telegram, polling, store, starts, under, repeats>>

(***************************** The process ********************************)

NewOffset == 0

\* The process ends, by a crash or by a shutdown, whose context makes every
\* call fail, and starts again: the offset and the batch were in memory only.
Restart ==
  /\ faults + restarts < MaxTroubles /\ restarts' = restarts + 1
  /\ offset' = NewOffset /\ batch' = <<>>
  /\ handler' = [h \in Handlers |-> Idle]
  /\ doubt' = (doubt \/ \E h \in Handlers : InDispatch(h))
  /\ UNCHANGED <<source, telegram, store, screen, faults, history>>

Dispatch(h) ==
  \/ EnsureSubscriber(h) \/ ReadCurrent(h) \/ ChangeSubscription(h)
  \/ SetAlerts(h) \/ DeleteSubscriber(h) \/ ReadFollowed(h) \/ ReadOptions(h)
  \/ EditMessage(h) \/ SendMessage(h)

Next ==
  \/ GetUpdates \/ DispatchNext
  \/ \E h \in Handlers, u \in Updates : ServeHTTP(h, u)
  \/ \E h \in Handlers : Dispatch(h) \/ Answer(h)
  \/ Restart

Spec == Init /\ [][Next]_vars

(***************************************************************************)
(* Run asks for updates for ever and gets those that have arrived, a       *)
(* goroutine of the service goes on, and Telegram posts an update until it *)
(* gets its 200.                                                           *)
(***************************************************************************)
Fairness ==
  /\ WF_vars(GetUpdates) /\ WF_vars(GetUpdates /\ batch' # <<>>)
  /\ WF_vars(DispatchNext)
  /\ \A u \in Updates : WF_vars(\E h \in Handlers : ServeHTTP(h, u))
  /\ \A h \in Handlers : WF_vars(Dispatch(h)) /\ WF_vars(Answer(h))

FairSpec == Spec /\ Fairness

(***************************** Properties *********************************)

\* An update that Telegram will not deliver again has been dispatched to its end:
\* the poller confirms with its next call only, a request with its answer.  And
\* dispatch begins with an update once in the life of a process, and once more for
\* each 200 that came too late; the toggles are not idempotent.
HandledOncePerDelivery ==
  /\ confirmed \subseteq ended
  /\ \A u \in Updates : starts[u] <= 1 + restarts + repeats

\* What a command asks of the row it finds, in one step.
Asked(c, r) ==
  CASE c.kind = "toggle_team" /\ c.team \in r.follows -> [r EXCEPT !.follows = @ \ {c.team}]
    [] c.kind = "toggle_team" /\ c.team \notin r.follows -> [r EXCEPT !.follows = @ \cup {c.team}]
    [] c.kind = "toggle_alerts" -> [r EXCEPT !.alerts = ~@]
    [] c.kind = "alerts"        -> [r EXCEPT !.alerts = c.enable]
    [] c.kind = "stop"          -> NoRow

\* The read and the write of a command that runs alone are as good as one
\* step: its statement does to the row it meets what the user asked, and when
\* it fails it does that or nothing.
AppliesWhatWasAsked ==
  [][\A h \in Handlers :
       /\ handler[h].alone /\ handler[h].pc \in {"change", "set", "delete"}
       /\ handler'[h].pc # handler[h].pc /\ restarts' = restarts
       => \/ row' = Asked(Command(h), row)
          \/ faults' # faults /\ row' = row]_vars

\* What a subscriber follows and hears was asked for by an update that was
\* handled under its id: nothing comes back with a chat that left and returned,
\* whatever was under way when it left.
OnlyAskedSince ==
  /\ \A t \in row.follows : \E u \in Updates :
       sent[u].kind = "toggle_team" /\ sent[u].team = t /\ row.id \in under[u]
  /\ row.alerts => \E u \in Updates :
       sent[u].kind \in {"alerts", "toggle_alerts"} /\ row.id \in under[u]

\* When no command is under way, the reply that a command that ran alone has
\* put on the screen says what the rows say, also after faults and restarts.
\* (The keyboard under the help says nothing of the rows, whatever its label.)
ScreenAgrees ==
  (\A h \in Handlers : ~InDispatch(h)) /\ ~doubt =>
    /\ screen.kind \in {"welcome", "menu", "standings", "teams", "team_added",
                        "team_removed"} => screen.teams = row.follows
    /\ screen.kind \in {"menu", "alerts"} => screen.enabled = row.alerts
    /\ screen.kind = "stopped" => row.id = 0

\* Every update reaches its confirmation in the end, although calls fail and
\* the process ends.
UpdatesAreConfirmed == <>(confirmed = Updates)
=============================================================================
