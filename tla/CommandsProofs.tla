---------------------------- MODULE CommandsProofs ----------------------------
(***************************************************************************)
(* Proofs about Commands for any number of goroutines, of updates and of   *)
(* troubles, any roster and whatever the user asks.                        *)
(*                                                                         *)
(* Three invariants carry them, one for each thing that commands race for: *)
(* DeliveryInv for the updates, AskedInv for the rows, and AloneInv for    *)
(* what a command that runs alone still knows of the row it has read.      *)
(***************************************************************************)
EXTENDS Commands, SequenceTheorems, TLAPS

(************************ Types, and where a command is *******************)

Working == {"ensure", "options", "followed", "set", "current", "delete", "change",
            "edit", "send"}

\* Where the subscriber is known.
Known == {"options", "followed", "set", "current", "delete", "change"}

Lasting == {"none", "team_added", "team_removed"}

ReplyKinds ==
  Lasting \cup {"help", "unknown_team", "alerts", "stopped", "standings", "menu",
                "welcome", "teams"}

Replies == [kind: ReplyKinds, teams: SUBSET Roster, enabled: BOOLEAN]

Goroutines ==
  [pc: Working \cup {"idle", "answer"}, update: 0..MaxUpdates, id: Nat,
   alerts: BOOLEAN, subscribed: BOOLEAN, reply: Replies, alone: BOOLEAN]

RowType == [id: Nat, follows: SUBSET Roster, alerts: BOOLEAN]

Types ==
  /\ source \in {"polling", "webhook"} /\ sent \in [Updates -> Intents]
  /\ confirmed \subseteq Updates /\ offset \in Nat /\ batch \in Seq(Updates)
  /\ handler \in [Handlers -> Goroutines]
  /\ row \in RowType /\ lastId \in Nat
  /\ screen \in Replies /\ doubt \in BOOLEAN
  /\ faults \in Nat /\ restarts \in Nat
  /\ starts \in [Updates -> Nat] /\ ended \subseteq Updates
  /\ under \in [Updates -> SUBSET Nat] /\ repeats \in Nat

\* A goroutine is where its command takes it, and from the first statement on it
\* goes by an id its update has been handled under.
Routed(g, ids) ==
  /\ g.pc = "idle" <=> g.update = 0
  /\ g.pc = "answer" => source = "webhook"
  /\ g.pc = "ensure" => sent[g.update].kind \notin {"ignored", "help", "unknown"}
  /\ g.pc = "options" => sent[g.update].kind \in {"start", "teams", "toggle_team"}
  /\ g.pc \in {"ensure", "current", "change", "options"} => g.reply.kind \in Lasting
  /\ g.pc = "followed" => sent[g.update].kind \in {"menu", "standings", "toggle_alerts"}
  /\ g.pc = "set" => sent[g.update].kind \in {"alerts", "toggle_alerts"}
  /\ g.pc \in {"current", "change"} => sent[g.update].kind = "toggle_team"
  /\ g.pc = "change" => sent[g.update].team \in Roster
  /\ g.pc = "delete" => sent[g.update].kind = "stop"
  /\ g.pc \in Known => g.id # 0 /\ g.id \in ids[g.update]

RoutedInv == \A h \in Handlers : Routed(handler[h], under)

TypeInv == Types /\ RoutedInv

\* A step of one goroutine, under ids that only become more.
LEMMA RouteOne ==
  ASSUME TypeInv, NEW h \in Handlers, NEW g \in Goroutines, Become(h, g),
         Routed(g, under'), UNCHANGED <<sent, source>>,
         \A u \in Updates : under[u] \subseteq under'[u]
  PROVE  handler' \in [Handlers -> Goroutines] /\ RoutedInv'
<1>1. handler' \in [Handlers -> Goroutines]
  BY DEF TypeInv, Types, Become
<1>2. ASSUME NEW o \in Handlers
      PROVE  Routed(handler'[o], under')
  <2>1. CASE o = h
    BY <2>1 DEF TypeInv, Types, Become
  <2>2. CASE o # h
    <3>1. handler'[o] = handler[o] /\ handler[o] \in Goroutines /\ Routed(handler[o], under)
      BY <2>2 DEF TypeInv, Types, RoutedInv, Become
    <3>2. handler[o].pc \in Known => handler[o].update \in Updates
      <4>1. handler[o].pc \in Known => handler[o].update # 0
        BY <3>1 DEF Routed, Known
      <4> QED
        BY <3>1, <4>1, CommandsAssumption DEF Goroutines, Updates
    <3> QED
      BY <3>1, <3>2 DEF Routed
  <2> QED
    BY <2>1, <2>2
<1> QED
  BY <1>1, <1>2 DEF RoutedInv, Routed

LEMMA NoReplyType == NoReply \in Replies /\ NoReply.kind = "none" /\ NoRow \in RowType
BY DEF NoReply, Reply, Replies, ReplyKinds, Lasting, NoRow, RowType

LEMMA IdleType ==
  /\ Idle \in Goroutines /\ Idle.pc = "idle" /\ Idle.update = 0
  /\ Idle.id = 0 /\ Idle.reply = NoReply
BY NoReplyType, CommandsAssumption DEF Idle, Goroutines

\* What is left of a goroutine when dispatch returns.
LEMMA OverType ==
  ASSUME Types, NEW u \in Updates, NEW ids
  PROVE  /\ Over(u) \in Goroutines /\ Routed(Over(u), ids)
         /\ source = "webhook" => Over(u).pc = "answer" /\ Over(u).update = u
         /\ source = "polling" => Over(u).pc = "idle" /\ Over(u).update = 0
<1>1. u \in 0..MaxUpdates /\ u # 0
  BY CommandsAssumption DEF Updates
<1>2. CASE source = "webhook"
  <2>1. /\ Over(u) \in Goroutines /\ Over(u).pc = "answer" /\ Over(u).update = u
    BY <1>1, <1>2, IdleType DEF Over, Goroutines
  <2> QED
    BY <1>1, <1>2, <2>1 DEF Routed, Known
<1>3. CASE source = "polling"
  <2>1. Over(u) = Idle
    BY <1>3 DEF Over
  <2> QED
    BY <1>3, <2>1, IdleType DEF Routed, Known
<1> QED
  BY <1>2, <1>3 DEF Types

\* What the user may ask for.
IntentKinds == {"start", "menu", "teams", "standings", "stop", "help", "unknown",
                "toggle_team", "alerts", "toggle_alerts", "ignored"}

IntentSet == [kind: IntentKinds, team: Roster \cup Strangers \cup {NoTeam},
              enable: BOOLEAN, edit: BOOLEAN]

LEMMA AnIntent ==
  ASSUME NEW k \in IntentKinds, NEW t \in Roster \cup Strangers \cup {NoTeam},
         NEW e \in BOOLEAN, NEW p \in BOOLEAN
  PROVE  Intent(k, t, e, p) \in IntentSet
BY DEF Intent, IntentSet

LEMMA IntentType == Intents \subseteq IntentSet
<1>1. Pressed \subseteq IntentSet
  <2>1. \A t \in Roster : Intent("toggle_team", t, FALSE, TRUE) \in IntentSet
    BY AnIntent DEF IntentKinds
  <2>2. \A k \in {"menu", "teams", "standings", "toggle_alerts", "unknown"} :
          Intent(k, NoTeam, FALSE, TRUE) \in IntentSet
    BY AnIntent DEF IntentKinds
  <2> QED
    BY <2>1, <2>2 DEF Pressed
<1>2. Typed \subseteq IntentSet
  <2>1. \A t \in Roster \cup Strangers : Intent("toggle_team", t, FALSE, FALSE) \in IntentSet
    BY AnIntent DEF IntentKinds
  <2>2. \A b \in BOOLEAN : Intent("alerts", NoTeam, b, FALSE) \in IntentSet
    BY AnIntent DEF IntentKinds
  <2>3. \A k \in {"start", "menu", "teams", "standings", "stop", "help", "unknown"} :
          Intent(k, NoTeam, FALSE, FALSE) \in IntentSet
    BY AnIntent DEF IntentKinds
  <2> QED
    BY <2>1, <2>2, <2>3 DEF Typed
<1>3. Ignored \in IntentSet
  BY AnIntent DEF Ignored, IntentKinds
<1> QED
  BY <1>1, <1>2, <1>3 DEF Intents

\* Where dispatch begins.
LEMMA ParsedType ==
  ASSUME Types, NEW u \in Updates, NEW ids, NEW b \in BOOLEAN
  PROVE  LET g == [Parsed(u) EXCEPT !.alone = b]
         IN  /\ g \in Goroutines /\ Routed(g, ids) /\ g.alone = b
             /\ sent[u].kind = "ignored" => g.pc \in {"idle", "answer"}
             /\ sent[u].kind # "ignored" => g.pc \in {"ensure", "edit", "send"}
             /\ g.update = IF sent[u].kind = "ignored" /\ source = "polling" THEN 0 ELSE u
             /\ g.pc \in {"edit", "send"} => g.reply.kind = "help"
<1> DEFINE g   == [Parsed(u) EXCEPT !.alone = b]
           new == [Idle EXCEPT !.update = u]
<1>0. u \in 0..MaxUpdates /\ u # 0
  BY CommandsAssumption DEF Updates
<1>1. new \in Goroutines /\ new.update = u /\ new.reply.kind \in Lasting
  BY <1>0, IdleType, NoReplyType DEF Goroutines, Lasting
<1>2. CASE sent[u].kind = "ignored"
  <2>1. Parsed(u) = Over(u)
    BY <1>2 DEF Parsed
  <2>2. /\ Over(u) \in Goroutines /\ Routed(Over(u), ids)
        /\ source = "webhook" => Over(u).pc = "answer" /\ Over(u).update = u
        /\ source = "polling" => Over(u).pc = "idle" /\ Over(u).update = 0
    BY OverType
  <2>3. /\ g \in Goroutines /\ g.pc = Over(u).pc /\ g.update = Over(u).update /\ g.alone = b
    BY <2>1, <2>2 DEF Goroutines
  <2>4. Routed(g, ids)
    <3> HIDE DEF g
    <3>1. g.pc \in {"idle", "answer"}
      BY <2>2, <2>3 DEF Types
    <3> QED
      BY <2>2, <2>3, <3>1 DEF Routed, Known
  <2> QED
    BY <1>2, <2>2, <2>3, <2>4 DEF Types
<1>3. CASE sent[u].kind \in {"help", "unknown"}
  <2> DEFINE pc == IF sent[u].edit THEN "edit" ELSE "send"
             v  == [new EXCEPT !.pc = pc, !.reply = Reply("help", {}, FALSE)]
  <2>1. Parsed(u) = v
    BY <1>3 DEF Parsed
  <2>2. /\ v \in Goroutines /\ v.pc \in {"edit", "send"} /\ v.update = u
        /\ v.reply.kind = "help"
    <3>1. Reply("help", {}, FALSE) \in Replies /\ Reply("help", {}, FALSE).kind = "help"
      BY DEF Reply, Replies, ReplyKinds
    <3>2. pc \in {"edit", "send"}
      OBVIOUS
    <3> HIDE DEF new, pc
    <3> QED
      BY <1>1, <3>1, <3>2 DEF Goroutines, Working
  <2> HIDE DEF v
  <2>3. /\ g \in Goroutines /\ g.pc \in {"edit", "send"} /\ g.update = u /\ g.alone = b
        /\ g.reply.kind = "help"
    BY <2>1, <2>2 DEF Goroutines
  <2> HIDE DEF g
  <2>4. Routed(g, ids)
    BY <1>0, <2>3 DEF Routed, Known
  <2> QED
    BY <1>3, <2>3, <2>4 DEF g
<1>4. CASE sent[u].kind \notin {"ignored", "help", "unknown"}
  <2>1. Parsed(u) = [new EXCEPT !.pc = "ensure"]
    BY <1>4 DEF Parsed
  <2>2. /\ g \in Goroutines /\ g.pc = "ensure" /\ g.update = u /\ g.alone = b
        /\ g.reply.kind \in Lasting
    <3> HIDE DEF new
    <3> QED
      BY <1>1, <2>1 DEF Goroutines, Working
  <2> HIDE DEF g
  <2>3. Routed(g, ids)
    BY <1>0, <1>4, <2>2 DEF Routed, Known
  <2> QED
    BY <1>4, <2>2, <2>3 DEF g
<1> QED
  BY <1>2, <1>3, <1>4

\* A goroutine that has an update to go on with.
LEMMA Here ==
  ASSUME TypeInv, NEW h \in Handlers
  PROVE  /\ handler[h] \in Goroutines /\ Routed(handler[h], under)
         /\ handler[h].pc # "idle" => handler[h].update \in Updates /\ Command(h) \in IntentSet
<1>1. handler[h] \in Goroutines /\ Routed(handler[h], under)
  BY DEF TypeInv, Types, RoutedInv
<1>2. handler[h].pc # "idle" => handler[h].update \in Updates
  BY <1>1, CommandsAssumption DEF Routed, Goroutines, Updates
<1> QED
  BY <1>1, <1>2, IntentType DEF TypeInv, Types, Command

\* The end of a dispatch.
LEMMA FinishStep ==
  ASSUME TypeInv, NEW h \in Handlers, handler[h].pc # "idle", Finish(h),
         UNCHANGED <<sent, source, under>>
  PROVE  handler' \in [Handlers -> Goroutines] /\ RoutedInv' /\ ended' \subseteq Updates
<1>1. handler[h].update \in Updates
  BY Here
<1> DEFINE g == Over(handler[h].update)
<1>2. g \in Goroutines /\ Routed(g, under')
  BY <1>1, OverType DEF TypeInv
<1>3. Become(h, g) /\ ended' = ended \cup {handler[h].update}
  BY DEF Finish
<1>4. ended' \subseteq Updates
  BY <1>1, <1>3 DEF TypeInv, Types
<1> HIDE DEF g
<1>5. handler' \in [Handlers -> Goroutines] /\ RoutedInv'
  BY <1>2, <1>3, RouteOne
<1> QED
  BY <1>4, <1>5

\* A reply on its way.
LEMMA RespondStep ==
  ASSUME TypeInv, NEW h \in Handlers, handler[h].pc # "idle",
         NEW reply \in Replies, Respond(h, reply), UNCHANGED <<sent, source, under>>
  PROVE  /\ handler' \in [Handlers -> Goroutines] /\ RoutedInv'
         /\ handler'[h].pc \in {"edit", "send"} /\ handler'[h].reply = reply
         /\ handler'[h].alone = handler[h].alone /\ handler'[h].update = handler[h].update
<1> DEFINE pc == IF Command(h).edit THEN "edit" ELSE "send"
           g  == [handler[h] EXCEPT !.pc = pc, !.reply = reply]
<1>0. handler[h] \in Goroutines /\ handler[h].update # 0
  BY Here, CommandsAssumption DEF Updates
<1>1. pc \in {"edit", "send"}
  OBVIOUS
<1>2. Become(h, g)
  BY DEF Respond
<1> HIDE DEF pc
<1>3. /\ g \in Goroutines /\ g.pc \in {"edit", "send"} /\ g.reply = reply
      /\ g.alone = handler[h].alone /\ g.update = handler[h].update
  BY <1>0, <1>1 DEF Goroutines, Working
<1> HIDE DEF g
<1>4. Routed(g, under')
  BY <1>0, <1>3 DEF Routed, Known
<1>5. handler' \in [Handlers -> Goroutines] /\ RoutedInv'
  BY <1>2, <1>3, <1>4, RouteOne
<1>6. handler'[h] = g
  BY <1>2 DEF Become, TypeInv, Types
<1> QED
  BY <1>3, <1>5, <1>6

LEMMA EnsuredType ==
  ASSUME TypeInv
  PROVE  Ensured \in RowType /\ Ensured.id # 0 /\ row \in RowType
<1>1. row \in RowType /\ lastId \in Nat
  BY DEF TypeInv, Types
<1>2. CASE row.id = 0
  <2>1. Ensured = [NoRow EXCEPT !.id = lastId + 1]
    BY <1>2 DEF Ensured
  <2>2. Ensured.id = lastId + 1 /\ Ensured \in RowType
    BY <1>1, <2>1, NoReplyType DEF RowType
  <2> QED
    BY <1>1, <2>2
<1>3. CASE row.id # 0
  BY <1>1, <1>3 DEF Ensured
<1> QED
  BY <1>2, <1>3

LEMMA EnsureTypes ==
  ASSUME TypeInv, NEW h \in Handlers, EnsureSubscriber(h)
  PROVE  TypeInv'
<1> DEFINE u == handler[h].update
<1>0. /\ handler[h] \in Goroutines /\ handler[h].pc = "ensure" /\ u \in Updates
      /\ Command(h) \in IntentSet /\ Command(h) = sent[u]
      /\ Command(h).kind \notin {"ignored", "help", "unknown"}
  BY Here DEF EnsureSubscriber, At, Routed, Command
<1>1. Ensured \in RowType /\ Ensured.id # 0 /\ row \in RowType
  BY EnsuredType
<1>2. /\ UNCHANGED <<source, sent, confirmed, offset, batch, starts, repeats>>
      /\ lastId' = IF row'.id > lastId THEN row'.id ELSE lastId
      /\ row' \in {row, Ensured}
  BY DEF EnsureSubscriber, telegram, polling
<1>3. row' \in RowType /\ lastId' \in Nat
  BY <1>1, <1>2 DEF RowType, TypeInv, Types
<1>4. CASE Fault /\ Fail(h) /\ UNCHANGED under
  <2>1. handler' \in [Handlers -> Goroutines] /\ RoutedInv' /\ ended' \subseteq Updates
    BY <1>0, <1>2, <1>4, FinishStep DEF Fail
  <2> QED
    BY <1>2, <1>3, <1>4, <2>1 DEF TypeInv, Types, Fault, Fail
<1>5. CASE /\ row' = Ensured
           /\ Become(h, [handler[h] EXCEPT !.pc = Route(Command(h).kind),
                                           !.id = row'.id, !.alerts = row'.alerts])
           /\ under' = [under EXCEPT ![handler[h].update] = @ \cup {row'.id}]
           /\ UNCHANGED <<ended, user, bounds>>
  <2> DEFINE pc == Route(Command(h).kind)
             g  == [handler[h] EXCEPT !.pc = pc, !.id = row'.id, !.alerts = row'.alerts]
  <2>1. /\ pc \in {"options", "followed", "set", "current", "delete"}
        /\ pc = "options" => Command(h).kind \in {"start", "teams"}
        /\ pc = "followed" => Command(h).kind \in {"menu", "standings"}
        /\ pc = "set" => Command(h).kind \in {"alerts", "toggle_alerts"}
        /\ pc = "current" => Command(h).kind = "toggle_team"
        /\ pc = "delete" => Command(h).kind = "stop"
    BY <1>0 DEF Route, IntentSet, IntentKinds
  <2> HIDE DEF pc
  <2>2. under' \in [Updates -> SUBSET Nat] /\ \A v \in Updates : under[v] \subseteq under'[v]
    BY <1>0, <1>3, <1>5 DEF TypeInv, Types, RowType
  <2>3. row'.id \in under'[u]
    BY <1>0, <1>5 DEF TypeInv, Types
  <2>4. /\ g \in Goroutines /\ g.pc = pc /\ g.id = row'.id /\ g.update = u
        /\ g.reply = handler[h].reply
    BY <1>0, <1>3, <2>1 DEF Goroutines, Working, RowType
  <2>5. Become(h, g)
    BY <1>5 DEF pc
  <2> HIDE DEF g, u
  <2>6. Routed(g, under')
    <3>1. g.update # 0 /\ g.id # 0 /\ g.id \in under'[g.update]
      BY <1>0, <1>1, <1>5, <2>3, <2>4, CommandsAssumption DEF Updates
    <3>2. Command(h) = sent[g.update]
      BY <1>0, <2>4
    <3> QED
      <4> DEFINE k == sent[g.update].kind
      <4>1. /\ g.pc \in {"options", "followed", "set", "current", "delete"}
            /\ g.pc = "options" => k \in {"start", "teams"}
            /\ g.pc = "followed" => k \in {"menu", "standings"}
            /\ g.pc = "set" => k \in {"alerts", "toggle_alerts"}
            /\ g.pc = "current" => k = "toggle_team"
            /\ g.pc = "delete" => k = "stop"
        BY <2>1, <2>4, <3>2
      <4>2. g.reply.kind \in Lasting
        BY <1>0, <2>4, Here DEF Routed
      <4> QED
        BY <3>1, <4>1, <4>2 DEF Routed
  <2>7. handler' \in [Handlers -> Goroutines] /\ RoutedInv'
    BY <1>2, <2>2, <2>4, <2>5, <2>6, RouteOne
  <2> QED
    BY <1>2, <1>3, <1>5, <2>2, <2>7 DEF TypeInv, Types, user, bounds
<1> QED
  BY <1>4, <1>5 DEF EnsureSubscriber

\* Statements that run under the id a command has got.
LEMMA RowTypes ==
  ASSUME TypeInv, NEW t \in Roster, NEW e \in BOOLEAN
  PROVE  /\ WithTeam(t) \in RowType /\ WithoutTeam(t) \in RowType
         /\ [row EXCEPT !.alerts = e] \in RowType /\ Deleted \in RowType
<1>1. row \in RowType
  BY DEF TypeInv, Types
<1> QED
  BY <1>1, NoReplyType DEF RowType, WithTeam, WithoutTeam, Deleted

LEMMA FailStep ==
  ASSUME TypeInv, NEW h \in Handlers, handler[h].pc # "idle", Fault, Fail(h), row' \in RowType,
         UNCHANGED <<source, telegram, polling, lastId, starts, under, repeats>>
  PROVE  TypeInv'
<1>1. handler' \in [Handlers -> Goroutines] /\ RoutedInv' /\ ended' \subseteq Updates
  BY FinishStep DEF Fail, telegram
<1> QED
  BY <1>1 DEF TypeInv, Types, Fault, Fail, telegram, polling

LEMMA CurrentTypes ==
  ASSUME TypeInv, NEW h \in Handlers, ReadCurrent(h)
  PROVE  TypeInv'
<1>0. /\ handler[h] \in Goroutines /\ Routed(handler[h], under) /\ handler[h].pc = "current"
      /\ handler[h].update \in Updates /\ row \in RowType
  BY Here DEF ReadCurrent, At, TypeInv, Types
<1>1. UNCHANGED <<source, telegram, polling, store, starts, under, repeats>>
  BY DEF ReadCurrent
<1>2. CASE Fault /\ Fail(h)
  BY <1>0, <1>1, <1>2, FailStep DEF store
<1>3. CASE Command(h).team \in Roster
           /\ Become(h, [handler[h] EXCEPT !.pc = "change",
                           !.subscribed = Command(h).team \in Following(h)])
           /\ UNCHANGED <<ended, user, bounds>>
  <2> DEFINE b == Command(h).team \in Following(h)
             g == [handler[h] EXCEPT !.pc = "change", !.subscribed = b]
  <2>1. b \in BOOLEAN
    OBVIOUS
  <2>2. Become(h, g)
    BY <1>3
  <2> HIDE DEF b
  <2>3. /\ g \in Goroutines /\ g.pc = "change" /\ g.id = handler[h].id
        /\ g.update = handler[h].update /\ g.reply = handler[h].reply
    BY <1>0, <2>1 DEF Goroutines, Working
  <2> HIDE DEF g
  <2>4. Routed(g, under')
    BY <1>0, <1>1, <1>3, <2>3 DEF Routed, Known, Command
  <2>5. handler' \in [Handlers -> Goroutines] /\ RoutedInv'
    BY <1>1, <2>2, <2>3, <2>4, RouteOne DEF telegram
  <2> QED
    BY <1>1, <1>3, <2>5 DEF TypeInv, Types, telegram, polling, store, user, bounds
<1>4. CASE /\ Respond(h, Reply("unknown_team", {}, FALSE))
           /\ UNCHANGED <<ended, user, bounds>>
  <2> DEFINE r == Reply("unknown_team", {}, FALSE)
  <2>1. r \in Replies
    BY DEF Reply, Replies, ReplyKinds
  <2> HIDE DEF r
  <2>2. Respond(h, r)
    BY <1>4 DEF r
  <2>3. handler' \in [Handlers -> Goroutines] /\ RoutedInv'
    BY <1>0, <1>1, <2>1, <2>2, RespondStep DEF telegram
  <2> QED
    BY <1>1, <1>4, <2>3 DEF TypeInv, Types, telegram, polling, store, user, bounds
<1> QED
  BY <1>2, <1>3, <1>4 DEF ReadCurrent

LEMMA ChangeTypes ==
  ASSUME TypeInv, NEW h \in Handlers, ChangeSubscription(h)
  PROVE  TypeInv'
<1> DEFINE t   == Command(h).team
           new == CASE ~IsThere(handler[h].id) -> row
                    [] handler[h].subscribed   -> WithoutTeam(t)
                    [] OTHER                   -> WithTeam(t)
<1>0. /\ handler[h] \in Goroutines /\ Routed(handler[h], under) /\ handler[h].pc = "change"
      /\ handler[h].update \in Updates /\ row \in RowType
  BY Here DEF ChangeSubscription, At, TypeInv, Types
<1>1. UNCHANGED <<source, telegram, polling, lastId, starts, under, repeats>>
  BY DEF ChangeSubscription
<1>2. t \in Roster
  BY <1>0 DEF Routed, Command
<1>3. new \in RowType
  <2>1. WithTeam(t) \in RowType /\ WithoutTeam(t) \in RowType
    BY <1>2, RowTypes
  <2> QED
    BY <1>0, <2>1
<1> HIDE DEF new, t
<1>4. CASE Fault /\ Fail(h) /\ row' \in {row, new}
  BY <1>0, <1>1, <1>3, <1>4, FailStep
<1>5. CASE Fail(h) /\ UNCHANGED <<row, bounds>>
  <2>1. handler' \in [Handlers -> Goroutines] /\ RoutedInv' /\ ended' \subseteq Updates
    BY <1>0, <1>1, <1>5, FinishStep DEF Fail, telegram
  <2> QED
    BY <1>1, <1>5, <2>1 DEF TypeInv, Types, Fail, telegram, polling, bounds
<1>6. CASE /\ row' = new
           /\ Become(h, [handler[h] EXCEPT !.pc = "options",
                !.reply.kind = IF handler[h].subscribed THEN "team_removed" ELSE "team_added"])
           /\ UNCHANGED <<ended, user, bounds>>
  <2> DEFINE k == IF handler[h].subscribed THEN "team_removed" ELSE "team_added"
             g == [handler[h] EXCEPT !.pc = "options", !.reply.kind = k]
  <2>1. k \in {"team_removed", "team_added"}
    OBVIOUS
  <2>2. Become(h, g)
    BY <1>6
  <2> HIDE DEF k
  <2>3. /\ g.pc = "options" /\ g.id = handler[h].id /\ g.update = handler[h].update
        /\ g.reply = [handler[h].reply EXCEPT !.kind = k]
        /\ g = [handler[h] EXCEPT !.pc = "options", !.reply = g.reply]
    BY <1>0 DEF Goroutines
  <2>4. g.reply \in Replies /\ g.reply.kind = k
    BY <1>0, <2>1, <2>3 DEF Goroutines, Replies, ReplyKinds, Lasting
  <2>5. g \in Goroutines
    BY <1>0, <2>3, <2>4 DEF Goroutines, Working
  <2> HIDE DEF g
  <2>6. Routed(g, under')
    BY <1>0, <1>1, <2>1, <2>3, <2>4 DEF Routed, Known, Lasting
  <2>7. handler' \in [Handlers -> Goroutines] /\ RoutedInv'
    BY <1>1, <2>2, <2>5, <2>6, RouteOne DEF telegram
  <2> QED
    BY <1>1, <1>3, <1>6, <2>7 DEF TypeInv, Types, telegram, polling, user, bounds
<1> QED
  BY <1>4, <1>5, <1>6 DEF ChangeSubscription, new, t

LEMMA WantedType ==
  ASSUME TypeInv, NEW h \in Handlers, handler[h].pc # "idle"
  PROVE  Wanted(h) \in BOOLEAN
<1>1. handler[h].alerts \in BOOLEAN /\ Command(h).enable \in BOOLEAN
  BY Here DEF Goroutines, IntentSet
<1> QED
  BY <1>1, Zenon DEF Wanted

\* A reply that a step gives, whatever it does to the row.
LEMMA RespondTypes ==
  ASSUME TypeInv, NEW h \in Handlers, handler[h].pc # "idle",
         NEW reply \in Replies, Respond(h, reply), row' \in RowType,
         UNCHANGED <<source, telegram, polling, lastId, starts, under, repeats>>,
         UNCHANGED <<ended, user, bounds>>
  PROVE  TypeInv'
<1>1. handler' \in [Handlers -> Goroutines] /\ RoutedInv'
  BY RespondStep DEF telegram
<1> QED
  BY <1>1 DEF TypeInv, Types, telegram, polling, user, bounds

LEMMA SetTypes ==
  ASSUME TypeInv, NEW h \in Handlers, SetAlerts(h)
  PROVE  TypeInv'
<1> DEFINE w   == Wanted(h)
           new == IF IsThere(handler[h].id) THEN [row EXCEPT !.alerts = w] ELSE row
<1>0. /\ handler[h] \in Goroutines /\ Routed(handler[h], under) /\ handler[h].pc = "set"
      /\ handler[h].update \in Updates /\ row \in RowType
  BY Here DEF SetAlerts, At, TypeInv, Types
<1>1. UNCHANGED <<source, telegram, polling, lastId, starts, under, repeats>>
  BY DEF SetAlerts
<1>2. w \in BOOLEAN
  BY <1>0, WantedType
<1> HIDE DEF w
<1>3. new \in RowType
  BY <1>0, <1>2 DEF RowType
<1> HIDE DEF new
<1>4. CASE Fault /\ Fail(h) /\ row' \in {row, new}
  BY <1>0, <1>1, <1>3, <1>4, FailStep
<1>5. CASE /\ row' = new /\ Command(h).kind = "toggle_alerts"
           /\ Become(h, [handler[h] EXCEPT !.pc = "followed", !.alerts = w])
           /\ UNCHANGED <<ended, user, bounds>>
  <2> DEFINE g == [handler[h] EXCEPT !.pc = "followed", !.alerts = w]
  <2>1. /\ g \in Goroutines /\ g.pc = "followed" /\ g.id = handler[h].id
        /\ g.update = handler[h].update
    BY <1>0, <1>2 DEF Goroutines, Working
  <2>2. Become(h, g)
    BY <1>5
  <2> HIDE DEF g
  <2>3. Routed(g, under')
    BY <1>0, <1>1, <1>5, <2>1 DEF Routed, Known, Command
  <2>4. handler' \in [Handlers -> Goroutines] /\ RoutedInv'
    BY <1>1, <2>1, <2>2, <2>3, RouteOne DEF telegram
  <2> QED
    BY <1>1, <1>3, <1>5, <2>4 DEF TypeInv, Types, telegram, polling, user, bounds
<1>6. CASE /\ row' = new /\ Respond(h, Reply("alerts", {}, w))
           /\ UNCHANGED <<ended, user, bounds>>
  <2>1. Reply("alerts", {}, w) \in Replies
    BY <1>2 DEF Reply, Replies, ReplyKinds
  <2> QED
    BY <1>0, <1>1, <1>3, <1>6, <2>1, RespondTypes
<1> QED
  BY <1>4, <1>5, <1>6 DEF SetAlerts, ShownAlerts, new, w

LEMMA DeleteTypes ==
  ASSUME TypeInv, NEW h \in Handlers, DeleteSubscriber(h)
  PROVE  TypeInv'
<1> DEFINE new == IF IsThere(handler[h].id) THEN Deleted ELSE row
<1>0. handler[h].pc = "delete" /\ new \in RowType /\ row \in RowType
  BY NoReplyType DEF DeleteSubscriber, At, TypeInv, Types, Deleted
<1>1. UNCHANGED <<source, telegram, polling, lastId, starts, under, repeats>>
  BY DEF DeleteSubscriber
<1> HIDE DEF new
<1>2. CASE Fault /\ Fail(h) /\ row' \in {row, new}
  BY <1>0, <1>1, <1>2, FailStep
<1>3. CASE /\ row' = new /\ Respond(h, Reply("stopped", {}, FALSE))
           /\ UNCHANGED <<ended, user, bounds>>
  <2>1. Reply("stopped", {}, FALSE) \in Replies
    BY DEF Reply, Replies, ReplyKinds
  <2> QED
    BY <1>0, <1>1, <1>3, <2>1, RespondTypes
<1> QED
  BY <1>2, <1>3 DEF DeleteSubscriber, new

LEMMA FollowedTypes ==
  ASSUME TypeInv, NEW h \in Handlers, ReadFollowed(h)
  PROVE  TypeInv'
<1>0. /\ handler[h].pc = "followed" /\ handler[h].alerts \in BOOLEAN /\ row \in RowType
      /\ Following(h) \in SUBSET Roster
  BY Here DEF ReadFollowed, At, TypeInv, Types, Following, RowType, Goroutines
<1>1. UNCHANGED <<source, telegram, polling, store, starts, under, repeats>>
  BY DEF ReadFollowed
<1>2. CASE Fault /\ Fail(h)
  BY <1>0, <1>1, <1>2, FailStep DEF store
<1>3. CASE /\ Respond(h, IF Command(h).kind = "standings"
                         THEN Reply("standings", Following(h), FALSE)
                         ELSE Reply("menu", Following(h), handler[h].alerts))
           /\ UNCHANGED <<ended, user, bounds>>
  <2> DEFINE r == IF Command(h).kind = "standings"
                  THEN Reply("standings", Following(h), FALSE)
                  ELSE Reply("menu", Following(h), handler[h].alerts)
  <2>1. Reply("standings", Following(h), FALSE) \in Replies
    BY <1>0 DEF Reply, Replies, ReplyKinds
  <2>2. Reply("menu", Following(h), handler[h].alerts) \in Replies
    BY <1>0 DEF Reply, Replies, ReplyKinds
  <2>3. r \in Replies
    BY <2>1, <2>2
  <2>4. Respond(h, r)
    BY <1>3
  <2> HIDE DEF r
  <2> QED
    BY <1>0, <1>1, <1>3, <2>3, <2>4, RespondTypes DEF store
<1> QED
  BY <1>2, <1>3 DEF ReadFollowed

LEMMA OptionsTypes ==
  ASSUME TypeInv, NEW h \in Handlers, ReadOptions(h)
  PROVE  TypeInv'
<1>0. /\ handler[h].pc = "options" /\ handler[h].reply.kind \in Lasting /\ row \in RowType
      /\ Following(h) \in SUBSET Roster
  BY Here DEF ReadOptions, At, TypeInv, Types, Following, RowType, Routed
<1>1. UNCHANGED <<source, telegram, polling, store, starts, under, repeats>>
  BY DEF ReadOptions
<1>2. CASE Fault /\ Fail(h)
  BY <1>0, <1>1, <1>2, FailStep DEF store
<1>3. CASE /\ Respond(h, Reply(CASE Command(h).kind = "start" -> "welcome"
                                 [] Command(h).kind = "teams" -> "teams"
                                 [] OTHER -> handler[h].reply.kind,
                               Following(h), FALSE))
           /\ UNCHANGED <<ended, user, bounds>>
  <2> DEFINE k == CASE Command(h).kind = "start" -> "welcome"
                    [] Command(h).kind = "teams" -> "teams"
                    [] OTHER -> handler[h].reply.kind
  <2>1. k \in ReplyKinds
    BY <1>0 DEF ReplyKinds
  <2>2. Respond(h, Reply(k, Following(h), FALSE))
    BY <1>3
  <2> HIDE DEF k
  <2>3. Reply(k, Following(h), FALSE) \in Replies
    BY <1>0, <2>1 DEF Reply, Replies
  <2> QED
    BY <1>0, <1>1, <1>3, <2>2, <2>3, RespondTypes DEF store
<1> QED
  BY <1>2, <1>3 DEF ReadOptions

LEMMA ReplyTypes ==
  ASSUME TypeInv, NEW h \in Handlers, EditMessage(h) \/ SendMessage(h)
  PROVE  TypeInv'
<1>0. /\ handler[h] \in Goroutines /\ Routed(handler[h], under)
      /\ handler[h].pc \in {"edit", "send"} /\ handler[h].reply \in Replies
      /\ handler[h].alone \in BOOLEAN
  BY Here DEF EditMessage, SendMessage, At, Goroutines
<1>1. /\ UNCHANGED <<source, telegram, polling, store, starts, under, repeats>>
      /\ screen' \in {screen, handler[h].reply}
      /\ doubt' \in {doubt, TRUE, ~handler[h].alone}
      /\ UNCHANGED bounds \/ Fault
  BY DEF EditMessage, SendMessage, Show, bounds
<1>2. screen' \in Replies /\ doubt' \in BOOLEAN /\ faults' \in Nat /\ restarts' \in Nat
  <2>1. screen' \in Replies /\ faults' \in Nat /\ restarts' \in Nat
    BY <1>0, <1>1 DEF TypeInv, Types, bounds, Fault
  <2>2. doubt \in BOOLEAN
    BY DEF TypeInv, Types
  <2>3. doubt' \in BOOLEAN
    BY <1>0, <1>1, <2>2, Zenon
  <2> QED
    BY <2>1, <2>3
<1>3. handler' \in [Handlers -> Goroutines] /\ RoutedInv' /\ ended' \subseteq Updates
  <2>1. CASE Finish(h)
    BY <1>0, <1>1, <2>1, FinishStep DEF telegram
  <2>2. CASE Go(h, "send") /\ UNCHANGED ended
    <3> DEFINE g == [handler[h] EXCEPT !.pc = "send"]
    <3>1. /\ g \in Goroutines /\ g.pc = "send" /\ g.update = handler[h].update
      BY <1>0 DEF Goroutines, Working
    <3>2. Become(h, g)
      BY <2>2 DEF Go
    <3> HIDE DEF g
    <3>3. Routed(g, under')
      BY <1>0, <3>1 DEF Routed, Known
    <3>4. handler' \in [Handlers -> Goroutines] /\ RoutedInv'
      BY <1>1, <3>1, <3>2, <3>3, RouteOne DEF telegram
    <3> QED
      BY <2>2, <3>4 DEF TypeInv, Types
  <2> QED
    BY <2>1, <2>2 DEF EditMessage, SendMessage
<1> QED
  BY <1>1, <1>2, <1>3 DEF TypeInv, Types, telegram, polling, store

\* What getUpdates may answer.
LEMMA BatchType ==
  ASSUME Types, NEW o \in Nat, NEW b \in Batches(o)
  PROVE  /\ b \in Seq(Updates)
         /\ \A i \in DOMAIN b : b[i] \in Waiting(o)
         /\ \A i, j \in DOMAIN b : i < j => b[i] < b[j]
         /\ \A i \in DOMAIN b : \A u \in Waiting(o) :
              u < b[i] => \E j \in DOMAIN b : b[j] = u
<1>1. PICK n \in 0..MaxUpdates : b \in [1..n -> Waiting(o)]
  BY DEF Batches, SeqOf
<1>2. \A i \in 1..n : b[i] \in Waiting(o) /\ b[i] \in Updates
  BY <1>1 DEF Waiting
<1>3. b \in [1..n -> Updates] /\ n \in Nat
  BY <1>1, <1>2, CommandsAssumption
<1>4. b \in Seq(Updates) /\ DOMAIN b = 1..n
  BY <1>3, IsASeq
<1> QED
  BY <1>2, <1>4 DEF Batches

\* Dispatch begins: the goroutine has parsed its update, another one is at most
\* told that it does not run alone.
LEMMA BeginStep ==
  ASSUME TypeInv, NEW h \in Handlers, NEW u \in Updates, Begin(h, u), UNCHANGED <<sent, source>>
  PROVE  /\ handler' \in [Handlers -> Goroutines] /\ RoutedInv'
         /\ starts' = [starts EXCEPT ![u] = @ + 1] /\ starts' \in [Updates -> Nat]
         /\ ended' \subseteq Updates /\ ended \subseteq ended'
         /\ sent[u].kind = "ignored" => u \in ended'
         /\ UNCHANGED <<under, repeats>>
         /\ handler[h].pc = "idle"
         /\ sent[u].kind = "ignored" => handler'[h].pc \in {"idle", "answer"}
         /\ sent[u].kind # "ignored" => handler'[h].pc \in {"ensure", "edit", "send"}
         /\ handler'[h].update = IF sent[u].kind = "ignored" /\ source = "polling" THEN 0 ELSE u
         /\ handler'[h].pc \in {"edit", "send"} => handler'[h].reply.kind = "help"
         /\ handler'[h].alone => \A o \in Handlers \ {h} : ~InDispatch(o)
         /\ \A o \in Handlers \ {h} :
              \/ ~InDispatch(o) /\ handler'[o] = handler[o]
              \/ InDispatch(o) /\ handler'[o] = [handler[o] EXCEPT !.alone = FALSE]
<1> DEFINE others == {o \in Handlers \ {h} : InDispatch(o)}
           b      == others = {}
           g      == [Parsed(u) EXCEPT !.alone = b]
<1>1. b \in BOOLEAN
  OBVIOUS
<1>2. /\ handler' = [o \in Handlers |->
           IF o = h THEN g
           ELSE IF o \in others THEN [handler[o] EXCEPT !.alone = FALSE]
           ELSE handler[o]]
  BY DEF Begin
<1>3. b => \A o \in Handlers \ {h} : ~InDispatch(o)
  OBVIOUS
<1> HIDE DEF b
<1>4. /\ g \in Goroutines /\ Routed(g, under) /\ g.alone = b
      /\ sent[u].kind = "ignored" => g.pc \in {"idle", "answer"}
      /\ sent[u].kind # "ignored" => g.pc \in {"ensure", "edit", "send"}
      /\ g.update = IF sent[u].kind = "ignored" /\ source = "polling" THEN 0 ELSE u
      /\ g.pc \in {"edit", "send"} => g.reply.kind = "help"
  BY <1>1, ParsedType DEF TypeInv
<1> HIDE DEF g
<1>5. handler'[h] = g
  BY <1>2
<1>6. ASSUME NEW o \in Handlers \ {h}
      PROVE  \/ ~InDispatch(o) /\ handler'[o] = handler[o]
             \/ InDispatch(o) /\ handler'[o] = [handler[o] EXCEPT !.alone = FALSE]
  BY <1>2
<1>7. UNCHANGED <<under, repeats>>
  BY DEF Begin
<1>8. ASSUME NEW o \in Handlers
      PROVE  handler'[o] \in Goroutines /\ Routed(handler'[o], under)
  <2>1. CASE o = h
    BY <1>4, <1>5, <2>1
  <2>2. CASE o # h
    <3>1. handler[o] \in Goroutines /\ Routed(handler[o], under)
      BY Here
    <3>2. CASE handler'[o] = [handler[o] EXCEPT !.alone = FALSE]
      BY <3>1, <3>2 DEF Goroutines, Routed
    <3> QED
      BY <1>6, <2>2, <3>1, <3>2
  <2> QED
    BY <2>1, <2>2
<1>9. handler' \in [Handlers -> Goroutines]
  BY <1>2, <1>8
<1>10. RoutedInv'
  BY <1>7, <1>8 DEF RoutedInv, Routed
<1>11. /\ starts' = [starts EXCEPT ![u] = @ + 1] /\ starts' \in [Updates -> Nat]
       /\ ended' \subseteq Updates /\ ended \subseteq ended'
       /\ sent[u].kind = "ignored" => u \in ended'
       /\ handler[h].pc = "idle"
  BY DEF Begin, At, TypeInv, Types
<1> QED
  BY <1>3, <1>4, <1>5, <1>6, <1>7, <1>9, <1>10, <1>11

LEMMA SourceTypes ==
  ASSUME TypeInv, GetUpdates \/ DispatchNext \/ \E h \in Handlers, u \in Updates : ServeHTTP(h, u)
  PROVE  TypeInv'
<1>1. CASE GetUpdates
  <2>1. confirmed' \subseteq Updates /\ batch' \in Seq(Updates)
    BY <1>1, BatchType DEF GetUpdates, ReadUpTo, TypeInv, Types
  <2>2. RoutedInv'
    BY <1>1 DEF GetUpdates, TypeInv, RoutedInv, Routed, history
  <2> QED
    BY <1>1, <2>1, <2>2 DEF GetUpdates, TypeInv, Types, store, user, history, bounds, Fault
<1>2. CASE DispatchNext
  <2>1. Head(batch) \in Updates /\ Tail(batch) \in Seq(Updates) /\ Poller \in Handlers
    BY <1>2, CommandsAssumption DEF DispatchNext, TypeInv, Types
  <2>2. offset' \in Nat
    BY <1>2, <2>1, CommandsAssumption DEF DispatchNext, Past, TypeInv, Types, Updates
  <2>3. /\ handler' \in [Handlers -> Goroutines] /\ RoutedInv'
        /\ starts' \in [Updates -> Nat] /\ ended' \subseteq Updates /\ UNCHANGED <<under, repeats>>
    BY <1>2, <2>1, BeginStep DEF DispatchNext, telegram
  <2> QED
    BY <1>2, <2>1, <2>2, <2>3 DEF DispatchNext, TypeInv, Types, telegram, store, user, bounds
<1>3. ASSUME NEW h \in Handlers, NEW u \in Updates, ServeHTTP(h, u)
      PROVE  TypeInv'
  <2>1. /\ handler' \in [Handlers -> Goroutines] /\ RoutedInv'
        /\ starts' \in [Updates -> Nat] /\ ended' \subseteq Updates /\ UNCHANGED <<under, repeats>>
    BY <1>3, BeginStep DEF ServeHTTP, telegram
  <2> QED
    BY <1>3, <2>1 DEF ServeHTTP, TypeInv, Types, telegram, polling, store, user, bounds
<1> QED
  BY <1>1, <1>2, <1>3

LEMMA AnswerTypes ==
  ASSUME TypeInv, NEW h \in Handlers, Answer(h)
  PROVE  TypeInv'
<1>1. handler[h].update \in Updates
  BY Here DEF Answer, At
<1>2. Routed(Idle, under')
  BY IdleType, NoReplyType DEF Routed, Known
<1>3. handler' \in [Handlers -> Goroutines] /\ RoutedInv'
  BY <1>2, IdleType, RouteOne DEF Answer
<1> QED
  BY <1>1, <1>3 DEF Answer, TypeInv, Types, polling, store, user, bounds, Fault

LEMMA RestartTypes ==
  ASSUME TypeInv, Restart
  PROVE  TypeInv'
<1>1. Routed(Idle, under')
  BY IdleType, NoReplyType DEF Routed, Known
<1>2. handler' \in [Handlers -> Goroutines]
  BY IdleType DEF Restart
<1>3. RoutedInv'
  BY <1>1 DEF Restart, RoutedInv, Routed, telegram
<1> QED
  BY <1>2, <1>3 DEF Restart, NewOffset, TypeInv, Types, telegram, store, history

\* Every step keeps the types, and every goroutine where its command takes it.
LEMMA TypeStep == TypeInv /\ [Next]_vars => TypeInv'
<1> SUFFICES ASSUME TypeInv, [Next]_vars PROVE TypeInv'
  OBVIOUS
<1>1. ASSUME NEW h \in Handlers, Dispatch(h)
      PROVE  TypeInv'
  BY <1>1, EnsureTypes, CurrentTypes, ChangeTypes, SetTypes, DeleteTypes, FollowedTypes,
     OptionsTypes, ReplyTypes DEF Dispatch
<1>2. CASE UNCHANGED vars
  BY <1>2 DEF vars, telegram, polling, store, user, bounds, history, TypeInv, Types, RoutedInv,
     Routed
<1> QED
  BY <1>1, <1>2, SourceTypes, AnswerTypes, RestartTypes DEF Next

LEMMA InitTypes == Init => TypeInv
<1> SUFFICES ASSUME Init PROVE TypeInv
  OBVIOUS
<1>1. handler \in [Handlers -> Goroutines] /\ RoutedInv
  BY IdleType, NoReplyType DEF Init, RoutedInv, Routed, Known
<1>2. sent \in [Updates -> Intents] /\ source \in {"polling", "webhook"}
  BY CommandsAssumption DEF Init
<1>3. batch \in Seq(Updates)
  BY DEF Init
<1>4. starts \in [Updates -> Nat] /\ under \in [Updates -> SUBSET Nat]
  BY DEF Init
<1> QED
  BY <1>1, <1>2, <1>3, <1>4, NoReplyType DEF Init, TypeInv, Types

\* Where every goroutine of the service, every update and the row may be.
THEOREM CommandsAreTyped == Spec => []TypeInv
BY InitTypes, TypeStep, PTL DEF Spec

(************************ Updates and deliveries ***************************)

Handling(u) == \E h \in Handlers : handler[h].update = u

\* The poller works through what it has got, in order, and its offset is past every
\* update it has begun with since the start of the process, and past no other one
\* that still counts.
Polled ==
  source = "polling" =>
    /\ \A h \in Handlers : h # Poller => handler[h].pc = "idle"
    /\ \A u \in Updates : u < offset => u \in ended \/ handler[Poller].update = u
    /\ \A u \in Updates : starts[u] <= restarts + (IF u < offset THEN 1 ELSE 0)

\* The updates of a batch, and none left out between them.
Fetched ==
  /\ \A i \in DOMAIN batch : batch[i] >= offset
  /\ \A i, j \in DOMAIN batch : i < j => batch[i] < batch[j]
  /\ \A i \in DOMAIN batch : \A u \in Updates :
       u < batch[i] => u \in confirmed \/ u < offset \/ \E j \in DOMAIN batch : batch[j] = u

\* A request that has an update is the only one, and Telegram posts no update again
\* but for a restart or a 200 that came too late.
Posted ==
  source = "webhook" =>
    /\ batch = <<>> /\ offset = 0
    /\ \A u \in Updates :
         starts[u] <= (restarts + repeats) + (IF u \in confirmed \/ Handling(u) THEN 1 ELSE 0)

DeliveryInv ==
  /\ confirmed \subseteq ended
  /\ \A h \in Handlers : handler[h].pc = "answer" => handler[h].update \in ended
  /\ Polled /\ Fetched /\ Posted

\* What a step of Handle, or of its reply, leaves alone.
LEMMA DispatchMoves ==
  ASSUME TypeInv, NEW h \in Handlers, Dispatch(h)
  PROVE  /\ handler[h].pc \in Working
         /\ UNCHANGED <<source, telegram, polling, starts, repeats, restarts>>
         /\ \A o \in Handlers : o # h => handler'[o] = handler[o]
         /\ \/ Finish(h) /\ (Fail(h) \/ EditMessage(h) \/ SendMessage(h))
            \/ /\ handler'[h].pc \in Working /\ handler'[h].update = handler[h].update
               /\ handler'[h].alone = handler[h].alone /\ ended' = ended
<1>0. handler \in [Handlers -> Goroutines] /\ handler[h] \in Goroutines
  BY DEF TypeInv, Types
<1>1. /\ handler[h].pc \in Working
      /\ UNCHANGED <<source, telegram, polling, starts, repeats>>
  BY DEF Dispatch, EnsureSubscriber, ReadCurrent, ChangeSubscription, SetAlerts, DeleteSubscriber,
     ReadFollowed, ReadOptions, EditMessage, SendMessage, At, Working
<1>2. UNCHANGED restarts
  BY DEF Dispatch, EnsureSubscriber, ReadCurrent, ChangeSubscription, SetAlerts, DeleteSubscriber,
     ReadFollowed, ReadOptions, EditMessage, SendMessage, Fault, bounds
<1>3. ASSUME NEW g, Become(h, g)
      PROVE  handler'[h] = g /\ \A o \in Handlers : o # h => handler'[o] = handler[o]
  BY <1>0, <1>3 DEF Become
<1>4. CASE Finish(h) /\ (Fail(h) \/ EditMessage(h) \/ SendMessage(h))
  BY <1>1, <1>2, <1>3, <1>4 DEF Finish
<1>5. ASSUME NEW g, Become(h, g), ended' = ended, g.pc \in Working,
             g.update = handler[h].update, g.alone = handler[h].alone
      PROVE  /\ \A o \in Handlers : o # h => handler'[o] = handler[o]
             /\ handler'[h].pc \in Working /\ handler'[h].update = handler[h].update
             /\ handler'[h].alone = handler[h].alone
  BY <1>3, <1>5
<1>6. ASSUME NEW r, Respond(h, r), ended' = ended
      PROVE  /\ \A o \in Handlers : o # h => handler'[o] = handler[o]
             /\ handler'[h].pc \in Working /\ handler'[h].update = handler[h].update
             /\ handler'[h].alone = handler[h].alone
  <2> DEFINE pc == IF Command(h).edit THEN "edit" ELSE "send"
             g  == [handler[h] EXCEPT !.pc = pc, !.reply = r]
  <2>1. pc \in Working
    BY DEF Working
  <2>2. Become(h, g)
    BY <1>6 DEF Respond
  <2> HIDE DEF pc
  <2>3. g.pc \in Working /\ g.update = handler[h].update /\ g.alone = handler[h].alone
    BY <1>0, <2>1 DEF Goroutines
  <2> HIDE DEF g
  <2> QED
    BY <1>5, <1>6, <2>2, <2>3
<1>7. CASE EnsureSubscriber(h) /\ ~Fail(h)
  <2> DEFINE pc == Route(Command(h).kind)
             g  == [handler[h] EXCEPT !.pc = pc, !.id = row'.id, !.alerts = row'.alerts]
  <2>1. Become(h, g) /\ ended' = ended
    BY <1>7 DEF EnsureSubscriber
  <2>2. Command(h) \in IntentSet /\ Command(h).kind \notin {"ignored", "help", "unknown"}
    BY <1>7, Here DEF EnsureSubscriber, At, Routed, Command
  <2>3. pc \in Working
    BY <2>2 DEF IntentSet, IntentKinds, Route, Working
  <2> HIDE DEF pc
  <2>4. g.pc \in Working /\ g.update = handler[h].update /\ g.alone = handler[h].alone
    BY <1>0, <2>3 DEF Goroutines
  <2> HIDE DEF g
  <2> QED
    BY <1>1, <1>2, <1>5, <2>1, <2>4
<1>8. CASE ReadCurrent(h) /\ ~Fail(h)
  <2>1. CASE Respond(h, Reply("unknown_team", {}, FALSE)) /\ ended' = ended
    BY <1>1, <1>2, <1>6, <2>1
  <2>2. CASE /\ Become(h, [handler[h] EXCEPT !.pc = "change",
                             !.subscribed = Command(h).team \in Following(h)])
             /\ ended' = ended
    <3> DEFINE b == Command(h).team \in Following(h)
               g == [handler[h] EXCEPT !.pc = "change", !.subscribed = b]
    <3>1. Become(h, g)
      BY <2>2
    <3> HIDE DEF b
    <3>2. g.pc \in Working /\ g.update = handler[h].update /\ g.alone = handler[h].alone
      BY <1>0 DEF Goroutines, Working
    <3> HIDE DEF g
    <3> QED
      BY <1>1, <1>2, <1>5, <2>2, <3>1, <3>2
  <2> QED
    BY <1>8, <2>1, <2>2 DEF ReadCurrent
<1>9. CASE ChangeSubscription(h) /\ ~Fail(h)
  <2> DEFINE k == IF handler[h].subscribed THEN "team_removed" ELSE "team_added"
             g == [handler[h] EXCEPT !.pc = "options", !.reply.kind = k]
  <2>1. Become(h, g) /\ ended' = ended
    BY <1>9 DEF ChangeSubscription
  <2> HIDE DEF k
  <2>2. g.pc \in Working /\ g.update = handler[h].update /\ g.alone = handler[h].alone
    BY <1>0 DEF Goroutines, Working
  <2> HIDE DEF g
  <2> QED
    BY <1>1, <1>2, <1>5, <2>1, <2>2
<1>10. CASE SetAlerts(h) /\ ~Fail(h)
  <2> DEFINE w == ShownAlerts(h)
             g == [handler[h] EXCEPT !.pc = "followed", !.alerts = w]
  <2>1. CASE Become(h, g) /\ ended' = ended
    <3> HIDE DEF w
    <3>1. g.pc \in Working /\ g.update = handler[h].update /\ g.alone = handler[h].alone
      BY <1>0 DEF Goroutines, Working
    <3> HIDE DEF g
    <3> QED
      BY <1>1, <1>2, <1>5, <2>1, <3>1
  <2>2. CASE Respond(h, Reply("alerts", {}, Wanted(h))) /\ ended' = ended
    BY <1>1, <1>2, <1>6, <2>2
  <2> QED
    BY <1>10, <2>1, <2>2 DEF SetAlerts
<1>11. CASE (DeleteSubscriber(h) \/ ReadFollowed(h) \/ ReadOptions(h)) /\ ~Fail(h)
  <2>1. PICK r : Respond(h, r) /\ ended' = ended
    BY <1>11 DEF DeleteSubscriber, ReadFollowed, ReadOptions
  <2> QED
    BY <1>1, <1>2, <1>6, <2>1
<1>12. CASE (EditMessage(h) \/ SendMessage(h)) /\ ~Finish(h)
  <2> DEFINE g == [handler[h] EXCEPT !.pc = "send"]
  <2>1. Become(h, g) /\ ended' = ended
    BY <1>12 DEF EditMessage, SendMessage, Go
  <2>2. g.pc \in Working /\ g.update = handler[h].update /\ g.alone = handler[h].alone
    BY <1>0 DEF Goroutines, Working
  <2> HIDE DEF g
  <2> QED
    BY <1>1, <1>2, <1>5, <2>1, <2>2
<1>13. Fail(h) => Finish(h)
  BY DEF Fail
<1> QED
  BY <1>4, <1>7, <1>8, <1>9, <1>10, <1>11, <1>12, <1>13 DEF Dispatch

LEMMA DispatchDelivers ==
  ASSUME TypeInv, TypeInv', DeliveryInv, NEW h \in Handlers, Dispatch(h)
  PROVE  DeliveryInv'
<1> DEFINE u == handler[h].update
<1>1. /\ handler[h].pc \in Working
      /\ UNCHANGED <<source, confirmed, offset, batch, starts, repeats, restarts>>
      /\ \A o \in Handlers : o # h => handler'[o] = handler[o]
  BY DispatchMoves DEF telegram, polling
<1>2. handler[h].pc # "idle" /\ handler[h].pc # "answer"
  BY <1>1 DEF Working
<1>3. u \in Updates /\ u # 0
  BY <1>2, Here, CommandsAssumption DEF Updates
<1>4. \/ /\ handler'[h].pc \in Working /\ handler'[h].update = u /\ ended' = ended
      \/ /\ ended' = ended \cup {u}
         /\ source = "webhook" => handler'[h].pc = "answer" /\ handler'[h].update = u
         /\ source = "polling" => handler'[h].pc = "idle" /\ handler'[h].update = 0
  <2>1. CASE Finish(h)
    <3>1. handler'[h] = Over(u) /\ ended' = ended \cup {u}
      BY <2>1 DEF Finish, Become, TypeInv, Types
    <3> QED
      BY <1>3, <3>1, OverType DEF TypeInv
  <2> QED
    BY <2>1, DispatchMoves
<1> HIDE DEF u
<1>5. ended \subseteq ended' /\ source \in {"polling", "webhook"}
  BY <1>4 DEF TypeInv, Types
<1>6. confirmed' \subseteq ended'
  BY <1>1, <1>5 DEF DeliveryInv
<1>7. ASSUME NEW o \in Handlers, handler'[o].pc = "answer"
      PROVE  handler'[o].update \in ended'
  <2>1. CASE o = h
    BY <1>4, <1>5, <1>7, <2>1 DEF Working
  <2>2. CASE o # h
    BY <1>1, <1>5, <1>7, <2>2 DEF DeliveryInv
  <2> QED
    BY <2>1, <2>2
<1>8. Polled'
  <2> SUFFICES ASSUME source = "polling"
               PROVE  /\ \A o \in Handlers : o # Poller => handler'[o].pc = "idle"
                      /\ \A v \in Updates : v < offset => v \in ended' \/ handler'[Poller].update = v
                      /\ \A v \in Updates : starts[v] <= restarts + (IF v < offset THEN 1 ELSE 0)
    BY <1>1 DEF Polled
  <2>1. /\ \A o \in Handlers : o # Poller => handler[o].pc = "idle"
        /\ \A v \in Updates : v < offset => v \in ended \/ handler[Poller].update = v
        /\ \A v \in Updates : starts[v] <= restarts + (IF v < offset THEN 1 ELSE 0)
    BY DEF DeliveryInv, Polled
  <2>2. h = Poller
    BY <1>2, <2>1
  <2> QED
    BY <1>1, <1>4, <1>5, <2>1, <2>2 DEF u
<1>9. Fetched'
  BY <1>1 DEF DeliveryInv, Fetched
<1>10. Posted'
  <2>1. ASSUME source = "webhook", NEW o \in Handlers
        PROVE  handler'[o].update = handler[o].update
    BY <1>1, <1>4, <2>1 DEF u
  <2> QED
    BY <1>1, <2>1 DEF DeliveryInv, Posted, Handling
<1> QED
  BY <1>6, <1>7, <1>8, <1>9, <1>10 DEF DeliveryInv

LEMMA GetDelivers ==
  ASSUME TypeInv, DeliveryInv, GetUpdates
  PROVE  DeliveryInv'
<1>1. /\ source = "polling" /\ handler[Poller].pc = "idle" /\ offset \in Nat
      /\ confirmed' = confirmed \cup ReadUpTo(offset)
      /\ UNCHANGED <<source, offset, handler, starts, ended, repeats>>
      /\ UNCHANGED restarts /\ (batch' \in Batches(offset) \/ batch' = batch)
  BY DEF GetUpdates, At, history, bounds, Fault, TypeInv, Types
<1>2. handler[Poller].update = 0
  BY <1>1, Here, CommandsAssumption DEF Routed
<1>3. ReadUpTo(offset) \subseteq ended
  BY <1>1, <1>2, CommandsAssumption DEF DeliveryInv, Polled, ReadUpTo, Updates
<1>4. confirmed' \subseteq ended'
  BY <1>1, <1>3 DEF DeliveryInv
<1>5. Fetched'
  <2>1. CASE batch' = batch
    BY <1>1, <2>1 DEF DeliveryInv, Fetched
  <2>2. CASE batch' \in Batches(offset)
    <3> DEFINE b == batch'
    <3>1. /\ \A i \in DOMAIN b : b[i] \in Waiting(offset)
          /\ \A i, j \in DOMAIN b : i < j => b[i] < b[j]
          /\ \A i \in DOMAIN b : \A u \in Waiting(offset) :
               u < b[i] => \E j \in DOMAIN b : b[j] = u
      BY <1>1, <2>2, BatchType DEF TypeInv
    <3>2. \A u \in Updates : u \in Waiting(offset) \/ u \in confirmed \/ u < offset
      BY <1>1, CommandsAssumption DEF Waiting, Updates
    <3>3. \A i \in DOMAIN b : b[i] >= offset
      BY <3>1 DEF Waiting
    <3> HIDE DEF b
    <3>4. /\ \A i \in DOMAIN b : b[i] >= offset
          /\ \A i, j \in DOMAIN b : i < j => b[i] < b[j]
          /\ \A i \in DOMAIN b : \A u \in Updates :
               u < b[i] => u \in confirmed' \/ u < offset \/ \E j \in DOMAIN b : b[j] = u
      BY <1>1, <3>1, <3>2, <3>3
    <3> QED
      BY <1>1, <3>4 DEF Fetched, b
  <2> QED
    BY <1>1, <2>1, <2>2
<1>6. Polled' /\ Posted'
  BY <1>1 DEF DeliveryInv, Polled, Posted
<1> QED
  BY <1>1, <1>4, <1>5, <1>6 DEF DeliveryInv

LEMMA NextDelivers ==
  ASSUME TypeInv, DeliveryInv, DispatchNext
  PROVE  DeliveryInv'
<1> DEFINE u == Head(batch)
<1>1. /\ batch # <<>> /\ batch \in Seq(Updates) /\ u \in Updates /\ u = batch[1]
      /\ Len(batch) \in Nat \ {0} /\ 1 \in DOMAIN batch /\ DOMAIN batch = 1..Len(batch)
      /\ Tail(batch) \in Seq(Updates) /\ Len(Tail(batch)) = Len(batch) - 1
      /\ \A i \in 1..Len(batch) - 1 : Tail(batch)[i] = batch[i + 1]
  BY DEF DispatchNext, TypeInv, Types
<1>2. source = "polling"
  BY <1>1 DEF DeliveryInv, Posted, TypeInv, Types
<1>3. /\ batch' = Tail(batch) /\ offset' = (IF u >= offset THEN Past(u) ELSE offset)
      /\ UNCHANGED <<source, confirmed, restarts>> /\ Begin(Poller, u) /\ UNCHANGED sent
  BY DEF DispatchNext, telegram, bounds
<1> HIDE DEF u
<1>4. /\ starts' = [starts EXCEPT ![u] = @ + 1] /\ ended \subseteq ended'
      /\ sent[u].kind = "ignored" => u \in ended'
      /\ UNCHANGED repeats /\ handler[Poller].pc = "idle"
      /\ sent[u].kind = "ignored" => handler'[Poller].pc \in {"idle", "answer"}
      /\ sent[u].kind # "ignored" => handler'[Poller].pc \in {"ensure", "edit", "send"}
      /\ handler'[Poller].update = IF sent[u].kind = "ignored" /\ source = "polling" THEN 0 ELSE u
  BY <1>1, <1>3, BeginStep, CommandsAssumption
<1>5. \A o \in Handlers : o # Poller => handler'[o] = handler[o]
  <2>1. \A o \in Handlers : o # Poller => ~InDispatch(o)
    BY <1>2 DEF DeliveryInv, Polled, InDispatch
  <2>2. \A o \in Handlers \ {Poller} :
          \/ ~InDispatch(o) /\ handler'[o] = handler[o]
          \/ InDispatch(o) /\ handler'[o] = [handler[o] EXCEPT !.alone = FALSE]
    BY <1>1, <1>3, BeginStep, CommandsAssumption
  <2> QED
    BY <2>1, <2>2
<1>6. u >= offset /\ offset' = u + 1 /\ offset \in Nat /\ u \in Nat
  <2>1. u >= offset
    BY <1>1 DEF DeliveryInv, Fetched
  <2> QED
    BY <1>1, <1>3, <2>1, CommandsAssumption DEF Past, TypeInv, Types, Updates
<1>7. handler[Poller].update = 0
  BY <1>4, Here, CommandsAssumption DEF Routed
<1>8. \A v \in Updates : v < u => v \in confirmed \/ v < offset
  <2> SUFFICES ASSUME NEW v \in Updates, v < u, NEW j \in DOMAIN batch, batch[j] = v
               PROVE  FALSE
    BY <1>1 DEF DeliveryInv, Fetched
  <2>1. j = 1 \/ 1 < j
    BY <1>1
  <2>2. j # 1
    BY <1>1, <1>6, CommandsAssumption DEF Updates
  <2>3. batch[1] < batch[j]
    BY <1>1, <2>1, <2>2 DEF DeliveryInv, Fetched
  <2> QED
    BY <1>1, <1>6, <2>3, CommandsAssumption DEF Updates
<1>9. \A v \in Updates : v < offset' => v \in ended' \/ handler'[Poller].update = v
  <2> SUFFICES ASSUME NEW v \in Updates, v < u + 1
               PROVE  v \in ended' \/ handler'[Poller].update = v
    BY <1>6
  <2>1. v < u \/ v = u
    BY <1>6, CommandsAssumption DEF Updates
  <2>2. CASE v = u
    BY <1>2, <1>4, <2>2
  <2>3. CASE v < u
    <3>1. v \in confirmed \/ v \in ended
      BY <1>2, <1>7, <1>8, <2>3, CommandsAssumption DEF DeliveryInv, Polled, Updates
    <3> QED
      BY <1>4, <3>1 DEF DeliveryInv
  <2> QED
    BY <2>1, <2>2, <2>3
<1>10. \A v \in Updates : starts'[v] <= restarts + (IF v < offset' THEN 1 ELSE 0)
  <2> SUFFICES ASSUME NEW v \in Updates
               PROVE  starts'[v] <= restarts + (IF v < u + 1 THEN 1 ELSE 0)
    BY <1>6
  <2>1. /\ starts[v] <= restarts + (IF v < offset THEN 1 ELSE 0)
        /\ starts[v] \in Nat /\ restarts \in Nat /\ v \in Nat
    BY <1>2, CommandsAssumption DEF DeliveryInv, Polled, TypeInv, Types, Updates
  <2>2. starts'[v] = IF v = u THEN starts[v] + 1 ELSE starts[v]
    BY <1>1, <1>4 DEF TypeInv, Types
  <2> QED
    BY <1>6, <2>1, <2>2
<1>11. Polled'
  <2>1. \A o \in Handlers : o # Poller => handler'[o].pc = "idle"
    BY <1>2, <1>5 DEF DeliveryInv, Polled
  <2> QED
    BY <1>3, <1>9, <1>10, <2>1 DEF Polled
<1>12. Fetched'
  <2>1. DOMAIN batch' = 1..(Len(batch) - 1) /\ \A i \in DOMAIN batch' : batch'[i] = batch[i + 1]
    BY <1>1, <1>3
  <2>2. \A i \in DOMAIN batch' : i + 1 \in DOMAIN batch /\ 1 < i + 1 /\ batch[i + 1] > u
                                 /\ batch[i + 1] \in Nat
    <3> SUFFICES ASSUME NEW i \in DOMAIN batch'
                 PROVE  i + 1 \in DOMAIN batch /\ 1 < i + 1 /\ batch[i + 1] > u
                        /\ batch[i + 1] \in Nat
      OBVIOUS
    <3>1. i + 1 \in DOMAIN batch /\ 1 < i + 1
      BY <1>1, <2>1
    <3>2. batch[i + 1] \in Updates
      BY <1>1, <3>1
    <3>3. batch[1] < batch[i + 1]
      BY <1>1, <3>1 DEF DeliveryInv, Fetched
    <3> QED
      BY <1>1, <1>6, <3>1, <3>2, <3>3, CommandsAssumption DEF Updates
  <2>3. \A i \in DOMAIN batch' : batch'[i] >= offset'
    BY <1>6, <2>1, <2>2
  <2>4. ASSUME NEW i \in DOMAIN batch', NEW j \in DOMAIN batch', i < j
        PROVE  batch'[i] < batch'[j]
    BY <1>1, <2>1, <2>2, <2>4 DEF DeliveryInv, Fetched
  <2>5. ASSUME NEW i \in DOMAIN batch', NEW v \in Updates, v < batch'[i], v \notin confirmed,
               ~ (v < offset')
        PROVE  \E j \in DOMAIN batch' : batch'[j] = v
    <3>1. ~ (v < offset) /\ v # u
      BY <1>6, <2>5, CommandsAssumption DEF Updates
    <3>2. PICK j \in DOMAIN batch : batch[j] = v
      BY <2>1, <2>2, <2>5, <3>1 DEF DeliveryInv, Fetched
    <3>3. j # 1
      BY <1>1, <3>1, <3>2
    <3>4. j - 1 \in DOMAIN batch' /\ (j - 1) + 1 = j
      BY <1>1, <2>1, <3>3
    <3> QED
      BY <2>1, <3>2, <3>4
  <2> QED
    BY <1>3, <2>3, <2>4, <2>5 DEF Fetched
<1>13. \A o \in Handlers : handler'[o].pc = "answer" => handler'[o].update \in ended'
  <2>1. handler'[Poller].pc # "answer"
    <3>1. Routed(handler'[Poller], under')
      <4>1. RoutedInv'
        BY <1>1, <1>3, BeginStep, CommandsAssumption
      <4> QED
        BY <4>1, CommandsAssumption, <1>3 DEF RoutedInv, Routed
    <3>2. source' # "webhook" /\ source # "webhook"
      BY <1>2, <1>3
    <3> QED
      BY <3>1, <3>2 DEF Routed
  <2> QED
    BY <1>4, <1>5, <2>1 DEF DeliveryInv
<1> QED
  BY <1>2, <1>3, <1>4, <1>11, <1>12, <1>13 DEF DeliveryInv, Posted

LEMMA ServeDelivers ==
  ASSUME TypeInv, DeliveryInv, NEW h \in Handlers, NEW u \in Updates, ServeHTTP(h, u)
  PROVE  DeliveryInv'
<1>1. /\ source = "webhook" /\ u \notin confirmed /\ Begin(h, u)
      /\ \A o \in Handlers : handler[o].update # u
      /\ UNCHANGED <<source, sent, confirmed, offset, batch, restarts>>
  BY DEF ServeHTTP, telegram, polling, bounds
<1>2. /\ starts' = [starts EXCEPT ![u] = @ + 1] /\ ended \subseteq ended'
      /\ sent[u].kind = "ignored" => u \in ended'
      /\ UNCHANGED repeats /\ handler[h].pc = "idle"
      /\ sent[u].kind = "ignored" => handler'[h].pc \in {"idle", "answer"}
      /\ sent[u].kind # "ignored" => handler'[h].pc \in {"ensure", "edit", "send"}
      /\ handler'[h].update = IF sent[u].kind = "ignored" /\ source = "polling" THEN 0 ELSE u
  BY <1>1, BeginStep
<1>3. \A o \in Handlers \ {h} :
        \/ ~InDispatch(o) /\ handler'[o] = handler[o]
        \/ InDispatch(o) /\ handler'[o] = [handler[o] EXCEPT !.alone = FALSE]
  BY <1>1, BeginStep
<1>4. handler[h].update = 0
  BY <1>2, Here DEF Routed
<1>5. handler'[h].update = u
  BY <1>1, <1>2
<1>6. \A o \in Handlers : o # h =>
        handler'[o].pc = handler[o].pc /\ handler'[o].update = handler[o].update
  <2> SUFFICES ASSUME NEW o \in Handlers, o # h
               PROVE  handler'[o].pc = handler[o].pc /\ handler'[o].update = handler[o].update
    OBVIOUS
  <2>1. handler[o] \in Goroutines
    BY Here
  <2>2. handler'[o] = handler[o] \/ handler'[o] = [handler[o] EXCEPT !.alone = FALSE]
    BY <1>3
  <2> QED
    BY <2>1, <2>2 DEF Goroutines
<1>7. \A o \in Handlers : handler'[o].pc = "answer" => handler'[o].update \in ended'
  <2>1. handler'[h].pc = "answer" => u \in ended'
    BY <1>2
  <2> QED
    BY <1>2, <1>5, <1>6, <2>1 DEF DeliveryInv
<1>8. ASSUME NEW v \in Updates
      PROVE  starts'[v] <=
               (restarts + repeats) + (IF v \in confirmed \/ Handling(v)' THEN 1 ELSE 0)
  <2>1. /\ starts[v] <= (restarts + repeats) + (IF v \in confirmed \/ Handling(v) THEN 1 ELSE 0)
        /\ starts[v] \in Nat /\ restarts \in Nat /\ repeats \in Nat
    BY <1>1 DEF DeliveryInv, Posted, TypeInv, Types
  <2>2. starts'[v] = IF v = u THEN starts[v] + 1 ELSE starts[v]
    BY <1>2 DEF TypeInv, Types
  <2>3. CASE v = u
    <3>1. Handling(v)'
      BY <1>5, <2>3 DEF Handling
    <3>2. ~Handling(v) /\ v \notin confirmed
      BY <1>1, <2>3 DEF Handling
    <3> QED
      BY <2>1, <2>2, <2>3, <3>1, <3>2
  <2>4. CASE v # u
    <3>1. v # 0
      BY CommandsAssumption DEF Updates
    <3>2. Handling(v) => Handling(v)'
      BY <1>4, <1>6, <3>1 DEF Handling
    <3> QED
      BY <2>1, <2>2, <2>4, <3>2
  <2> QED
    BY <2>3, <2>4
<1>9. Posted'
  BY <1>1, <1>2, <1>8 DEF DeliveryInv, Posted
<1>10. Polled' /\ Fetched' /\ confirmed' \subseteq ended'
  BY <1>1, <1>2 DEF DeliveryInv, Polled, Fetched
<1> QED
  BY <1>7, <1>9, <1>10 DEF DeliveryInv

LEMMA AnswerDelivers ==
  ASSUME TypeInv, DeliveryInv, NEW h \in Handlers, Answer(h)
  PROVE  DeliveryInv'
<1> DEFINE u == handler[h].update
<1>1. /\ handler[h].pc = "answer" /\ Become(h, Idle)
      /\ UNCHANGED <<source, offset, batch, starts, ended, restarts>>
      /\ \/ confirmed' = confirmed \cup {u} /\ repeats' = repeats
         \/ confirmed' = confirmed /\ repeats' = repeats + 1
  BY DEF Answer, At, polling, bounds, Fault
<1>2. source = "webhook" /\ u \in Updates /\ u \in ended
  BY <1>1, Here DEF Routed, DeliveryInv
<1> HIDE DEF u
<1>3. handler'[h] = Idle /\ \A o \in Handlers : o # h => handler'[o] = handler[o]
  BY <1>1 DEF Become, TypeInv, Types
<1>4. \A o \in Handlers : handler'[o].pc = "answer" => handler'[o].update \in ended'
  BY <1>1, <1>3, IdleType DEF DeliveryInv
<1>5. ASSUME NEW v \in Updates
      PROVE  starts[v] <=
               (restarts + repeats') + (IF v \in confirmed' \/ Handling(v)' THEN 1 ELSE 0)
  <2>1. /\ starts[v] <= (restarts + repeats) + (IF v \in confirmed \/ Handling(v) THEN 1 ELSE 0)
        /\ starts[v] \in Nat /\ restarts \in Nat /\ repeats \in Nat
    BY <1>2 DEF DeliveryInv, Posted, TypeInv, Types
  <2>2. CASE v = u
    BY <1>1, <2>1, <2>2
  <2>3. CASE v # u
    <3>1. Handling(v) => Handling(v)'
      BY <1>3, <2>3 DEF Handling, u
    <3> QED
      BY <1>1, <2>1, <3>1
  <2> QED
    BY <2>2, <2>3
<1>6. Posted'
  BY <1>1, <1>2, <1>5 DEF DeliveryInv, Posted
<1>7. Polled' /\ Fetched' /\ confirmed' \subseteq ended'
  BY <1>1, <1>2 DEF DeliveryInv, Polled, Fetched
<1> QED
  BY <1>4, <1>6, <1>7 DEF DeliveryInv

LEMMA RestartDelivers ==
  ASSUME TypeInv, DeliveryInv, Restart
  PROVE  DeliveryInv'
<1>1. /\ offset' = 0 /\ batch' = <<>> /\ restarts' = restarts + 1
      /\ UNCHANGED <<source, confirmed, starts, ended, repeats>>
      /\ handler' = [h \in Handlers |-> Idle]
  BY DEF Restart, NewOffset, telegram, history
<1>2. \A h \in Handlers : handler'[h].pc = "idle"
  BY <1>1, IdleType
<1>3. Polled'
  <2>1. \A v \in Updates : ~(v < 0) /\ v \in Nat
    BY CommandsAssumption DEF Updates
  <2>2. source = "polling" => \A v \in Updates : starts[v] <= restarts + 1
    BY DEF DeliveryInv, Polled, TypeInv, Types
  <2> QED
    BY <1>1, <1>2, <2>1, <2>2, CommandsAssumption DEF Polled, TypeInv, Types
<1>4. Posted'
  <2>1. source = "webhook" => \A v \in Updates : starts[v] <= (restarts + repeats) + 1
    BY DEF DeliveryInv, Posted, TypeInv, Types
  <2>2. source = "webhook" => \A v \in Updates : starts[v] <= (restarts' + repeats)
    BY <1>1, <2>1 DEF TypeInv, Types
  <2> QED
    BY <1>1, <2>2 DEF Posted, TypeInv, Types
<1>5. Fetched'
  BY <1>1 DEF Fetched
<1> QED
  BY <1>1, <1>2, <1>3, <1>4, <1>5 DEF DeliveryInv

LEMMA DeliveryStep == TypeInv /\ TypeInv' /\ DeliveryInv /\ [Next]_vars => DeliveryInv'
<1> SUFFICES ASSUME TypeInv, TypeInv', DeliveryInv, [Next]_vars PROVE DeliveryInv'
  OBVIOUS
<1>1. CASE UNCHANGED vars
  BY <1>1 DEF vars, telegram, polling, store, user, bounds, history, DeliveryInv, Polled, Fetched,
     Posted, Handling
<1> QED
  BY <1>1, DispatchDelivers, GetDelivers, NextDelivers, ServeDelivers, AnswerDelivers,
     RestartDelivers DEF Next

LEMMA InitDelivers == Init => DeliveryInv
<1> SUFFICES ASSUME Init PROVE DeliveryInv
  OBVIOUS
<1>1. \A h \in Handlers : handler[h].pc = "idle"
  BY IdleType DEF Init
<1> QED
  BY <1>1, CommandsAssumption DEF Init, DeliveryInv, Polled, Fetched, Posted, Updates

\* No update is confirmed before its dispatch has ended, and dispatch begins with
\* one once in the life of a process, and once more for each 200 that came too late:
\* as Poller.Run moves its offset, and Webhook.ServeHTTP answers after dispatch.
THEOREM UpdatesAreHandledOnce == Spec => []HandledOncePerDelivery
<1>1. TypeInv /\ DeliveryInv => HandledOncePerDelivery
  <2> SUFFICES ASSUME TypeInv, DeliveryInv, NEW u \in Updates
               PROVE  starts[u] <= (1 + restarts) + repeats
    BY DEF HandledOncePerDelivery, DeliveryInv
  <2>1. starts[u] \in Nat /\ restarts \in Nat /\ repeats \in Nat /\ source \in {"polling", "webhook"}
    BY DEF TypeInv, Types
  <2>2. CASE source = "polling"
    BY <2>1, <2>2 DEF DeliveryInv, Polled
  <2>3. CASE source = "webhook"
    BY <2>1, <2>3 DEF DeliveryInv, Posted
  <2> QED
    BY <2>1, <2>2, <2>3
<1> QED
  BY <1>1, InitDelivers, DeliveryStep, CommandsAreTyped, PTL DEF Spec

(*********************** What the rows were asked **************************)

Follows(t, id, ids) ==
  \E u \in Updates : sent[u].kind = "toggle_team" /\ sent[u].team = t /\ id \in ids[u]

Hears(id, ids) ==
  \E u \in Updates : sent[u].kind \in {"alerts", "toggle_alerts"} /\ id \in ids[u]

AskedFor(r, ids) ==
  /\ \A t \in r.follows : Follows(t, r.id, ids)
  /\ r.alerts => Hears(r.id, ids)


\* What a statement may leave of the row, whose id is that of its command.
LEMMA StatementAsked ==
  ASSUME TypeInv, AskedFor(row, under), NEW h \in Handlers, Dispatch(h)
  PROVE  AskedFor(row', under')
<1>0. /\ handler[h] \in Goroutines /\ Routed(handler[h], under) /\ row \in RowType
      /\ Command(h) = sent[handler[h].update]
  BY Here DEF TypeInv, Types, Command
<1>1. UNCHANGED sent
  BY DispatchMoves DEF telegram
<1>2. AskedFor(NoRow, under') /\ AskedFor(NoRow, under)
  BY DEF AskedFor, NoRow
<1>3. CASE EnsureSubscriber(h)
  <2>1. row' \in {row, Ensured}
    BY <1>3 DEF EnsureSubscriber
  <2>2. \A u \in Updates : under[u] \subseteq under'[u]
    <3>1. CASE UNCHANGED under
      BY <3>1
    <3>2. CASE under' = [under EXCEPT ![handler[h].update] = @ \cup {row'.id}]
      BY <3>2 DEF TypeInv, Types
    <3> QED
      BY <1>3, <3>1, <3>2 DEF EnsureSubscriber
  <2>3. AskedFor(row, under')
    BY <2>2 DEF AskedFor, Follows, Hears
  <2>4. row.id = 0 => AskedFor(Ensured, under')
    <3>1. row.id = 0 => Ensured = [NoRow EXCEPT !.id = lastId + 1]
      BY DEF Ensured
    <3>2. row.id = 0 => Ensured.follows = {} /\ Ensured.alerts = FALSE
      BY <3>1 DEF NoRow
    <3> QED
      BY <3>2, Zenon DEF AskedFor
  <2>5. row.id # 0 => Ensured = row
    BY DEF Ensured
  <2> QED
    BY <2>1, <2>3, <2>4, <2>5
<1>4. CASE ChangeSubscription(h)
  <2> DEFINE t == Command(h).team
             id == handler[h].id
  <2>1. handler[h].pc = "change" /\ UNCHANGED under
    BY <1>4 DEF ChangeSubscription, At
  <2>2. id \in under[handler[h].update] /\ Command(h).kind = "toggle_team"
        /\ handler[h].update \in Updates
    BY <1>0, <2>1, Here DEF Routed, Known
  <2>3. Follows(t, id, under')
    BY <1>0, <2>1, <2>2 DEF Follows
  <2>4. row' = row \/ row' = WithoutTeam(t) \/ (IsThere(id) /\ row' = WithTeam(t))
    BY <1>4 DEF ChangeSubscription
  <2> HIDE DEF t, id
  <2>5. AskedFor(row, under')
    BY <2>1 DEF AskedFor
  <2>6. AskedFor(WithoutTeam(t), under')
    BY <1>0, <2>5 DEF AskedFor, WithoutTeam, RowType
  <2>7. IsThere(id) => AskedFor(WithTeam(t), under')
    <3>1. /\ WithTeam(t).follows = row.follows \cup {t} /\ WithTeam(t).id = row.id
          /\ WithTeam(t).alerts = row.alerts
      BY <1>0 DEF WithTeam, RowType
    <3>2. ASSUME IsThere(id), NEW s \in WithTeam(t).follows
          PROVE  Follows(s, row.id, under')
      BY <2>3, <2>5, <3>1, <3>2 DEF AskedFor, IsThere
    <3>3. WithTeam(t).alerts => Hears(row.id, under')
      BY <2>5, <3>1, Zenon DEF AskedFor
    <3> QED
      BY <3>1, <3>2, <3>3, Zenon DEF AskedFor
  <2> QED
    BY <2>4, <2>5, <2>6, <2>7
<1>5. CASE SetAlerts(h)
  <2> DEFINE w   == Wanted(h)
             new == [row EXCEPT !.alerts = w]
  <2>1. handler[h].pc = "set" /\ UNCHANGED under
    BY <1>5 DEF SetAlerts, At
  <2>2. /\ handler[h].id \in under[handler[h].update] /\ handler[h].update \in Updates
        /\ Command(h).kind \in {"alerts", "toggle_alerts"}
    BY <1>0, <2>1, Here DEF Routed, Known
  <2>3. Hears(handler[h].id, under')
    BY <1>0, <2>1, <2>2 DEF Hears
  <2>4. row' = row \/ (IsThere(handler[h].id) /\ row' = new)
    BY <1>5 DEF SetAlerts
  <2> HIDE DEF w
  <2>5. AskedFor(row, under')
    BY <2>1 DEF AskedFor
  <2>6. new.follows = row.follows /\ new.id = row.id
    BY <1>0 DEF RowType
  <2> HIDE DEF new
  <2>7. IsThere(handler[h].id) => AskedFor(new, under')
    BY <2>3, <2>5, <2>6 DEF AskedFor, IsThere
  <2> QED
    BY <2>4, <2>5, <2>7
<1>6. CASE DeleteSubscriber(h)
  <2>1. (row' = row \/ row' = NoRow) /\ UNCHANGED under
    BY <1>6 DEF DeleteSubscriber, Deleted
  <2> QED
    BY <1>2, <2>1
<1>7. CASE ReadCurrent(h) \/ ReadFollowed(h) \/ ReadOptions(h) \/ EditMessage(h) \/ SendMessage(h)
  BY <1>7 DEF ReadCurrent, ReadFollowed, ReadOptions, EditMessage, SendMessage, store
<1> QED
  BY <1>3, <1>4, <1>5, <1>6, <1>7 DEF Dispatch

LEMMA AskedStep == TypeInv /\ AskedFor(row, under) /\ [Next]_vars => AskedFor(row, under)'
<1> SUFFICES ASSUME TypeInv, AskedFor(row, under), [Next]_vars PROVE AskedFor(row, under)'
  OBVIOUS
<1>1. UNCHANGED sent
  BY DispatchMoves DEF Next, GetUpdates, DispatchNext, ServeHTTP, Answer, Restart, vars, telegram
<1>2. CASE \E h \in Handlers : Dispatch(h)
  <2>1. AskedFor(row', under')
    BY <1>2, StatementAsked
  <2> QED
    BY <1>1, <2>1 DEF AskedFor, Follows, Hears
<1>3. CASE UNCHANGED <<row, under>>
  BY <1>1, <1>3 DEF AskedFor, Follows, Hears
<1>4. (\E h \in Handlers : Dispatch(h)) \/ UNCHANGED <<row, under>>
  BY DEF Next, GetUpdates, DispatchNext, ServeHTTP, Begin, Answer, Restart, vars, store, history
<1> QED
  BY <1>2, <1>3, <1>4

\* A team is followed, or the alerts are on, because an update asked for it that was
\* handled under the id of the row: no statement under way reaches the row of a chat
\* that left and came back, as subscriptions.go and subscribers.go name the id.
THEOREM RowsHoldWhatWasAsked == Spec => []OnlyAskedSince
<1>1. Init => AskedFor(row, under)
  BY DEF Init, AskedFor, NoRow
<1>2. AskedFor(row, under) => OnlyAskedSince
  BY DEF AskedFor, Follows, Hears, OnlyAskedSince
<1> QED
  BY <1>1, <1>2, AskedStep, CommandsAreTyped, PTL DEF Spec

(******************* What a command that runs alone knows ******************)

Alone(h) == InDispatch(h) /\ handler[h].alone

\* A reply says what the row says.
Agrees(reply, r) ==
  /\ reply.kind \in {"welcome", "menu", "standings", "teams", "team_added",
                     "team_removed"} => reply.teams = r.follows
  /\ reply.kind \in {"menu", "alerts"} => reply.enabled = r.alerts
  /\ reply.kind = "stopped" => r.id = 0

\* What has been read is still so.
Knows(g, r) ==
  /\ g.pc \in Known => r.id = g.id
  /\ g.pc \in Known \ {"options"} => g.alerts = r.alerts
  /\ g.pc = "change" => (g.subscribed <=> sent[g.update].team \in r.follows)
  /\ g.pc \in {"edit", "send"} => Agrees(g.reply, r)

AloneInv ==
  \A h \in Handlers : Alone(h) =>
    Knows(handler[h], row) /\ \A o \in Handlers : InDispatch(o) => o = h

LEMMA RespondKnows ==
  ASSUME TypeInv, NEW h \in Handlers, NEW reply, Respond(h, reply), NEW r, Agrees(reply, r)
  PROVE  Knows(handler'[h], r)
<1> DEFINE pc == IF Command(h).edit THEN "edit" ELSE "send"
           g  == [handler[h] EXCEPT !.pc = pc, !.reply = reply]
<1>1. pc \in {"edit", "send"}
  OBVIOUS
<1>2. handler'[h] = g
  BY DEF Respond, Become, TypeInv, Types
<1> HIDE DEF pc
<1>3. g.pc = pc /\ g.reply = reply
  BY DEF TypeInv, Types, Goroutines
<1> HIDE DEF g
<1> QED
  BY <1>1, <1>2, <1>3 DEF Knows, Known

\* A goroutine that goes on without a reply yet.
LEMMA GoneOn ==
  ASSUME TypeInv, NEW h \in Handlers, NEW g, Become(h, g)
  PROVE  handler'[h] = g
BY DEF Become, TypeInv, Types

LEMMA EnsureKnows ==
  ASSUME TypeInv, NEW h \in Handlers, EnsureSubscriber(h), ~Finish(h)
  PROVE  Knows(handler'[h], row')
<1> DEFINE pc == Route(Command(h).kind)
           g  == [handler[h] EXCEPT !.pc = pc, !.id = row'.id, !.alerts = row'.alerts]
<1>1. Become(h, g)
  BY DEF EnsureSubscriber, Fail
<1>2. Command(h) \in IntentSet /\ Command(h).kind \notin {"ignored", "help", "unknown"}
  BY Here DEF EnsureSubscriber, At, Routed, Command
<1>3. pc \in {"options", "followed", "set", "current", "delete"}
  BY <1>2 DEF IntentSet, IntentKinds, Route
<1> HIDE DEF pc
<1>4. g.pc = pc /\ g.id = row'.id /\ g.alerts = row'.alerts
  BY Here DEF Goroutines
<1> HIDE DEF g
<1>5. handler'[h] = g
  BY <1>1, GoneOn
<1> QED
  BY <1>3, <1>4, <1>5 DEF Knows

LEMMA CurrentKnows ==
  ASSUME TypeInv, NEW h \in Handlers, ReadCurrent(h), ~Finish(h), Knows(handler[h], row)
  PROVE  Knows(handler'[h], row')
<1>1. /\ handler[h] \in Goroutines /\ handler[h].pc = "current" /\ row' = row
      /\ handler[h].id = row.id /\ handler[h].alerts = row.alerts
  BY Here DEF ReadCurrent, At, store, Knows, Known
<1>2. CASE Become(h, [handler[h] EXCEPT !.pc = "change",
                        !.subscribed = Command(h).team \in Following(h)])
  <2> DEFINE b == Command(h).team \in Following(h)
             g == [handler[h] EXCEPT !.pc = "change", !.subscribed = b]
  <2>1. Become(h, g)
    BY <1>2
  <2>2. b <=> sent[handler[h].update].team \in row.follows
    BY <1>1 DEF Following, IsThere, Command
  <2> HIDE DEF b
  <2>3. /\ g.pc = "change" /\ g.id = handler[h].id /\ g.alerts = handler[h].alerts
        /\ g.update = handler[h].update
    BY <1>1 DEF Goroutines
  <2>4. g.subscribed <=> b
    BY <1>1 DEF Goroutines
  <2> HIDE DEF g
  <2>5. handler'[h] = g
    BY <2>1, GoneOn
  <2> QED
    BY <1>1, <2>2, <2>3, <2>4, <2>5 DEF Knows, Known
<1>3. CASE Respond(h, Reply("unknown_team", {}, FALSE))
  <2>1. Agrees(Reply("unknown_team", {}, FALSE), row')
    BY DEF Agrees, Reply
  <2> QED
    BY <1>3, <2>1, RespondKnows
<1> QED
  BY <1>2, <1>3 DEF ReadCurrent, Fail

LEMMA ChangeKnows ==
  ASSUME TypeInv, NEW h \in Handlers, ChangeSubscription(h), ~Finish(h), Knows(handler[h], row)
  PROVE  Knows(handler'[h], row')
<1> DEFINE t == Command(h).team
           k == IF handler[h].subscribed THEN "team_removed" ELSE "team_added"
           g == [handler[h] EXCEPT !.pc = "options", !.reply.kind = k]
<1>1. /\ handler[h] \in Goroutines /\ handler[h].id = row.id /\ row \in RowType
      /\ row' \in {row, WithTeam(t), WithoutTeam(t)}
  BY Here DEF ChangeSubscription, At, Knows, Known, TypeInv, Types
<1>2. Become(h, g)
  BY DEF ChangeSubscription, Fail
<1> HIDE DEF k
<1>3. g.pc = "options" /\ g.id = handler[h].id
  BY <1>1 DEF Goroutines
<1> HIDE DEF g, t
<1>4. handler'[h] = g
  BY <1>2, GoneOn
<1>5. row'.id = row.id
  BY <1>1 DEF WithTeam, WithoutTeam, RowType
<1> QED
  BY <1>1, <1>3, <1>4, <1>5 DEF Knows, Known

LEMMA SetKnows ==
  ASSUME TypeInv, NEW h \in Handlers, SetAlerts(h), ~Finish(h), Knows(handler[h], row)
  PROVE  Knows(handler'[h], row')
<1> DEFINE w == Wanted(h)
           g == [handler[h] EXCEPT !.pc = "followed", !.alerts = w]
<1>1. handler[h] \in Goroutines /\ handler[h].id = row.id /\ row \in RowType
  BY Here DEF SetAlerts, At, Knows, Known, TypeInv, Types
<1>2. row' = [row EXCEPT !.alerts = w]
  BY <1>1 DEF SetAlerts, Fail, IsThere
<1>3. Become(h, g) \/ Respond(h, Reply("alerts", {}, w))
  BY DEF SetAlerts, Fail, ShownAlerts
<1> HIDE DEF w
<1>4. row'.alerts = w /\ row'.id = row.id
  BY <1>1, <1>2 DEF RowType
<1>5. g.pc = "followed" /\ g.id = handler[h].id /\ g.alerts = w
  BY <1>1 DEF Goroutines
<1> HIDE DEF g
<1>6. CASE Become(h, g)
  <2>1. handler'[h] = g
    BY <1>6, GoneOn
  <2> QED
    BY <1>1, <1>4, <1>5, <2>1 DEF Knows, Known
<1>7. CASE Respond(h, Reply("alerts", {}, w))
  <2>1. Agrees(Reply("alerts", {}, w), row')
    BY <1>4 DEF Agrees, Reply
  <2> QED
    BY <1>7, <2>1, RespondKnows
<1> QED
  BY <1>3, <1>6, <1>7

LEMMA ReplyKnows ==
  ASSUME TypeInv, NEW h \in Handlers, ~Finish(h), Knows(handler[h], row),
         DeleteSubscriber(h) \/ ReadFollowed(h) \/ ReadOptions(h)
  PROVE  Knows(handler'[h], row')
<1>1. handler[h] \in Goroutines /\ handler[h].id = row.id /\ row \in RowType
  BY Here DEF DeleteSubscriber, ReadFollowed, ReadOptions, At, Knows, Known, TypeInv, Types
<1>2. CASE DeleteSubscriber(h)
  <2>1. Respond(h, Reply("stopped", {}, FALSE)) /\ row' = NoRow
    BY <1>1, <1>2 DEF DeleteSubscriber, Fail, IsThere, Deleted
  <2>2. Agrees(Reply("stopped", {}, FALSE), row')
    BY <2>1 DEF Agrees, Reply, NoRow
  <2> QED
    BY <2>1, <2>2, RespondKnows
<1>3. Following(h) = row.follows
  BY <1>1 DEF Following, IsThere
<1>4. CASE ReadFollowed(h)
  <2>0. row' = row /\ handler[h].alerts = row.alerts
    BY <1>4 DEF ReadFollowed, At, store, Knows, Known
  <2>1. \/ Respond(h, Reply("standings", Following(h), FALSE))
        \/ Respond(h, Reply("menu", Following(h), handler[h].alerts))
    BY <1>4 DEF ReadFollowed, Fail
  <2>2. Agrees(Reply("standings", Following(h), FALSE), row')
    BY <1>3, <2>0 DEF Agrees, Reply
  <2>3. Agrees(Reply("menu", Following(h), handler[h].alerts), row')
    BY <1>3, <2>0 DEF Agrees, Reply
  <2> QED
    BY <2>1, <2>2, <2>3, RespondKnows
<1>5. CASE ReadOptions(h)
  <2> DEFINE k == CASE Command(h).kind = "start" -> "welcome"
                    [] Command(h).kind = "teams" -> "teams"
                    [] OTHER -> handler[h].reply.kind
  <2>0. row' = row /\ handler[h].reply.kind \in Lasting
    BY <1>5, Here DEF ReadOptions, At, store, Routed
  <2>1. Respond(h, Reply(k, Following(h), FALSE))
    BY <1>5 DEF ReadOptions, Fail
  <2>2. k \in {"welcome", "teams"} \cup Lasting
    BY <2>0
  <2> HIDE DEF k
  <2>3. Agrees(Reply(k, Following(h), FALSE), row')
    BY <1>3, <2>0, <2>2 DEF Agrees, Reply, Lasting
  <2> QED
    BY <2>1, <2>3, RespondKnows
<1> QED
  BY <1>2, <1>4, <1>5

\* What a command knew before its step it knows after it, its own write included.
LEMMA KnowsStep ==
  ASSUME TypeInv, NEW h \in Handlers, Dispatch(h), Knows(handler[h], row)
  PROVE  Knows(handler'[h], row')
<1>1. CASE Finish(h)
  <2>1. handler[h].update \in Updates /\ handler'[h] = Over(handler[h].update)
    <3>1. handler[h].pc # "idle"
      BY DispatchMoves DEF Working
    <3> QED
      BY <1>1, <3>1, Here DEF Finish, Become, TypeInv, Types
  <2>2. handler'[h].pc \in {"idle", "answer"}
    BY <2>1, OverType DEF TypeInv, Types
  <2> QED
    BY <2>2 DEF Knows, Known
<1>2. CASE EditMessage(h) /\ ~Finish(h)
  <2> DEFINE g == [handler[h] EXCEPT !.pc = "send"]
  <2>1. Become(h, g) /\ row' = row /\ handler[h].pc = "edit"
    BY <1>2 DEF EditMessage, Go, store, At
  <2>2. g.pc = "send" /\ g.reply = handler[h].reply
    BY Here DEF Goroutines
  <2> HIDE DEF g
  <2>3. handler'[h] = g
    BY <2>1, GoneOn
  <2> QED
    BY <2>1, <2>2, <2>3 DEF Knows, Known
<1>3. SendMessage(h) => Finish(h)
  BY DEF SendMessage
<1> QED
  BY <1>1, <1>2, <1>3, EnsureKnows, CurrentKnows, ChangeKnows, SetKnows, ReplyKnows DEF Dispatch

\* A goroutine that begins knows nothing yet, and from then on only one that began
\* after the others had ended can run alone.
LEMMA BeginAlone ==
  ASSUME TypeInv, NEW h \in Handlers, NEW u \in Updates, Begin(h, u), UNCHANGED <<sent, source>>
  PROVE  AloneInv'
<1>1. /\ sent[u].kind = "ignored" => handler'[h].pc \in {"idle", "answer"}
      /\ sent[u].kind # "ignored" => handler'[h].pc \in {"ensure", "edit", "send"}
      /\ handler'[h].pc \in {"edit", "send"} => handler'[h].reply.kind = "help"
      /\ handler'[h].alone => \A o \in Handlers \ {h} : ~InDispatch(o)
  BY BeginStep
<1>2. \A o \in Handlers \ {h} :
        \/ ~InDispatch(o) /\ handler'[o] = handler[o]
        \/ InDispatch(o) /\ handler'[o] = [handler[o] EXCEPT !.alone = FALSE]
  BY BeginStep
<1>3. Knows(handler[h], row)'
  BY <1>1 DEF Knows, Known, Agrees
<1>4. ASSUME NEW o \in Handlers, o # h, Alone(o)'
      PROVE  FALSE
  <2>1. handler[o] \in Goroutines
    BY Here
  <2>2. CASE ~InDispatch(o) /\ handler'[o] = handler[o]
    BY <1>4, <2>2 DEF Alone, InDispatch
  <2>3. CASE handler'[o] = [handler[o] EXCEPT !.alone = FALSE]
    BY <1>4, <2>1, <2>3 DEF Alone, Goroutines
  <2> QED
    BY <1>2, <1>4, <2>2, <2>3
<1>5. ASSUME Alone(h)', NEW o \in Handlers, InDispatch(o)'
      PROVE  o = h
  BY <1>1, <1>2, <1>5 DEF Alone, InDispatch
<1> QED
  BY <1>3, <1>4, <1>5 DEF AloneInv, Knows

LEMMA AloneStep == TypeInv /\ AloneInv /\ [Next]_vars => AloneInv'
<1> SUFFICES ASSUME TypeInv, AloneInv, [Next]_vars PROVE AloneInv'
  OBVIOUS
<1>1. ASSUME NEW h \in Handlers, Dispatch(h)
      PROVE  AloneInv'
  <2>1. /\ UNCHANGED sent /\ InDispatch(h)
        /\ \A o \in Handlers : o # h => handler'[o] = handler[o]
        /\ Finish(h) \/ handler'[h].alone = handler[h].alone
    BY <1>1, DispatchMoves DEF InDispatch, Working, telegram
  <2>2. ASSUME NEW o \in Handlers, o # h
        PROVE  ~Alone(o)'
    BY <2>1, <2>2 DEF AloneInv, Alone, InDispatch
  <2>3. CASE Finish(h)
    <3>1. handler[h].update \in Updates /\ handler'[h] = Over(handler[h].update)
      BY <2>1, <2>3, Here DEF InDispatch, Finish, Become, TypeInv, Types
    <3>2. ~InDispatch(h)'
      BY <3>1, OverType DEF TypeInv, Types, InDispatch
    <3> QED
      BY <2>2, <3>2 DEF AloneInv, Alone
  <2>4. CASE handler'[h].alone = handler[h].alone
    <3> SUFFICES ASSUME Alone(h)'
                 PROVE  Knows(handler'[h], row') /\ \A o \in Handlers : InDispatch(o)' => o = h
      BY <2>1, <2>2 DEF AloneInv, Knows
    <3>1. Alone(h)
      BY <2>1, <2>4, Zenon DEF Alone
    <3>2. Knows(handler[h], row) /\ \A o \in Handlers : InDispatch(o) => o = h
      BY <3>1 DEF AloneInv
    <3>3. Knows(handler'[h], row')
      BY <1>1, <3>2, KnowsStep
    <3>4. ASSUME NEW o \in Handlers, InDispatch(o)', o # h
          PROVE  FALSE
      BY <2>1, <3>2, <3>4 DEF InDispatch
    <3> QED
      BY <3>3, <3>4
  <2> QED
    BY <2>1, <2>3, <2>4
<1>2. CASE GetUpdates \/ UNCHANGED vars
  <2>1. UNCHANGED <<handler, row, sent>>
    BY <1>2 DEF GetUpdates, vars, telegram, store
  <2> QED
    BY <2>1 DEF AloneInv, Alone, InDispatch, Knows
<1>3. CASE DispatchNext
  <2>1. Head(batch) \in Updates /\ Poller \in Handlers
    BY <1>3, CommandsAssumption DEF DispatchNext, TypeInv, Types
  <2> QED
    BY <1>3, <2>1, BeginAlone DEF DispatchNext, telegram
<1>4. ASSUME NEW h \in Handlers, NEW u \in Updates, ServeHTTP(h, u)
      PROVE  AloneInv'
  BY <1>4, BeginAlone DEF ServeHTTP, telegram
<1>5. ASSUME NEW h \in Handlers, Answer(h)
      PROVE  AloneInv'
  <2>1. /\ UNCHANGED <<row, sent>> /\ handler[h].pc = "answer" /\ handler'[h] = Idle
        /\ \A o \in Handlers : o # h => handler'[o] = handler[o]
    BY <1>5 DEF Answer, store, At, Become, TypeInv, Types
  <2>2. ~InDispatch(h)'
    BY <2>1, IdleType DEF InDispatch
  <2>3. \A o \in Handlers : InDispatch(o)' => InDispatch(o) /\ handler'[o] = handler[o]
    BY <2>1, <2>2 DEF InDispatch
  <2> QED
    BY <2>1, <2>3 DEF AloneInv, Alone, Knows
<1>6. CASE Restart
  <2>1. \A h \in Handlers : ~InDispatch(h)'
    BY <1>6, IdleType DEF Restart, InDispatch
  <2> QED
    BY <2>1 DEF AloneInv, Alone
<1> QED
  BY <1>1, <1>2, <1>3, <1>4, <1>5, <1>6 DEF Next

LEMMA InitAlone == Init => AloneInv
<1> SUFFICES ASSUME Init PROVE AloneInv
  OBVIOUS
<1>1. \A h \in Handlers : ~InDispatch(h)
  BY IdleType DEF Init, InDispatch
<1> QED
  BY <1>1 DEF AloneInv, Alone

\* The statement of a command that runs alone does to the row what was asked.
LEMMA DoesWhatWasAsked ==
  ASSUME TypeInv, NEW h \in Handlers, Dispatch(h), Knows(handler[h], row),
         handler[h].pc \in {"change", "set", "delete"}
  PROVE  row' = Asked(Command(h), row) \/ (faults' # faults /\ row' = row)
<1>0. /\ handler[h] \in Goroutines /\ Routed(handler[h], under) /\ row \in RowType
      /\ handler[h].id = row.id /\ handler[h].alerts = row.alerts
      /\ Command(h) = sent[handler[h].update]
  BY Here DEF Knows, Known, TypeInv, Types, Command
<1>1. Fault => faults' # faults
  BY DEF Fault, TypeInv, Types
<1>2. CASE handler[h].pc = "change"
  <2> DEFINE t == Command(h).team
  <2>1. ChangeSubscription(h) /\ Command(h).kind = "toggle_team"
    BY <1>0, <1>2 DEF Dispatch, EnsureSubscriber, ReadCurrent, SetAlerts, DeleteSubscriber,
       ReadFollowed, ReadOptions, EditMessage, SendMessage, At, Routed
  <2>2. handler[h].subscribed <=> t \in row.follows
    BY <1>0, <1>2 DEF Knows
  <2>3. row' = (IF handler[h].subscribed THEN WithoutTeam(t) ELSE WithTeam(t))
        \/ (faults' # faults /\ row' = row)
    BY <1>0, <1>1, <2>1 DEF ChangeSubscription, IsThere
  <2>4. Asked(Command(h), row) = IF t \in row.follows THEN WithoutTeam(t) ELSE WithTeam(t)
    BY <2>1 DEF Asked, WithTeam, WithoutTeam
  <2> QED
    BY <2>2, <2>3, <2>4
<1>3. CASE handler[h].pc = "set"
  <2>1. SetAlerts(h) /\ Command(h).kind \in {"alerts", "toggle_alerts"}
    BY <1>0, <1>3 DEF Dispatch, EnsureSubscriber, ReadCurrent, ChangeSubscription, DeleteSubscriber,
       ReadFollowed, ReadOptions, EditMessage, SendMessage, At, Routed
  <2>2. row' = [row EXCEPT !.alerts = Wanted(h)] \/ (faults' # faults /\ row' = row)
    BY <1>0, <1>1, <2>1 DEF SetAlerts, IsThere
  <2>3. CASE Command(h).kind = "alerts"
    <3>1. Wanted(h) = Command(h).enable
      BY <2>3 DEF Wanted
    <3>2. Asked(Command(h), row) = [row EXCEPT !.alerts = Command(h).enable]
      BY <2>3 DEF Asked
    <3> QED
      BY <2>2, <3>1, <3>2
  <2>4. CASE Command(h).kind = "toggle_alerts"
    <3>1. Wanted(h) = ~row.alerts
      BY <1>0, <2>4, Zenon DEF Wanted
    <3>2. Asked(Command(h), row) = [row EXCEPT !.alerts = ~row.alerts]
      BY <2>4 DEF Asked
    <3> QED
      BY <2>2, <3>1, <3>2, Zenon
  <2> QED
    BY <2>1, <2>3, <2>4
<1>4. CASE handler[h].pc = "delete"
  <2>1. DeleteSubscriber(h) /\ Command(h).kind = "stop"
    BY <1>0, <1>4 DEF Dispatch, EnsureSubscriber, ReadCurrent, ChangeSubscription, SetAlerts,
       ReadFollowed, ReadOptions, EditMessage, SendMessage, At, Routed
  <2>2. row' = NoRow \/ (faults' # faults /\ row' = row)
    BY <1>0, <1>1, <2>1 DEF DeleteSubscriber, IsThere, Deleted
  <2>3. Asked(Command(h), row) = NoRow
    BY <2>1 DEF Asked
  <2> QED
    BY <2>2, <2>3
<1> QED
  BY <1>2, <1>3, <1>4

\* The read and the write of a command that runs alone are as good as one step: its
\* statement does to the row it meets what the user asked, and when it fails it does
\* that or nothing, whatever the sources do meanwhile (Service.Handle).
THEOREM CommandsApplyWhatWasAsked == Spec => AppliesWhatWasAsked
<1> DEFINE Applies == \A h \in Handlers :
             /\ handler[h].alone /\ handler[h].pc \in {"change", "set", "delete"}
             /\ handler'[h].pc # handler[h].pc /\ restarts' = restarts
             => \/ row' = Asked(Command(h), row)
                \/ faults' # faults /\ row' = row
<1>1. TypeInv /\ AloneInv /\ [Next]_vars => [Applies]_vars
  <2> SUFFICES ASSUME TypeInv, AloneInv, Next, NEW h \in Handlers,
                      handler[h].alone, handler[h].pc \in {"change", "set", "delete"},
                      handler'[h].pc # handler[h].pc, restarts' = restarts
               PROVE  row' = Asked(Command(h), row) \/ (faults' # faults /\ row' = row)
    BY DEF Applies
  <2>0. handler[h] \in Goroutines
    BY Here
  <2>1. Knows(handler[h], row)
    BY DEF AloneInv, Alone, InDispatch
  <2>2. ASSUME NEW o \in Handlers, NEW u \in Updates, Begin(o, u), UNCHANGED <<sent, source>>
        PROVE  FALSE
    <3>1. handler[o].pc = "idle"
      BY <2>2 DEF Begin, At
    <3>2. o # h
      BY <3>1
    <3>3. handler'[h] = handler[h] \/ handler'[h] = [handler[h] EXCEPT !.alone = FALSE]
      BY <2>2, <3>2, BeginStep
    <3> QED
      BY <2>0, <3>3 DEF Goroutines
  <2>3. ~DispatchNext
    <3>1. DispatchNext => Head(batch) \in Updates
      BY DEF DispatchNext, TypeInv, Types
    <3> QED
      BY <2>2, <3>1, CommandsAssumption DEF DispatchNext, telegram
  <2>4. \A o \in Handlers, u \in Updates : ~ServeHTTP(o, u)
    BY <2>2 DEF ServeHTTP, telegram
  <2>5. ~GetUpdates /\ ~Restart
    BY DEF GetUpdates, Restart, TypeInv, Types
  <2>6. \A o \in Handlers : ~Answer(o)
    BY DEF Answer, At, Become, TypeInv, Types
  <2>7. PICK o \in Handlers : Dispatch(o)
    BY <2>3, <2>4, <2>5, <2>6 DEF Next
  <2>8. o = h
    BY <2>7, DispatchMoves
  <2> QED
    BY <2>1, <2>7, <2>8, DoesWhatWasAsked
<1> HIDE DEF Applies
<1>2. Spec => [][Applies]_vars
  BY <1>1, InitAlone, AloneStep, CommandsAreTyped, PTL DEF Spec
<1> QED
  BY <1>2 DEF Applies, AppliesWhatWasAsked

\* What is on the screen is what the rows say.
ScreenInv == (\A h \in Handlers : ~InDispatch(h)) /\ ~doubt => Agrees(screen, row)

LEMMA ScreenStep ==
  TypeInv /\ TypeInv' /\ AloneInv /\ ScreenInv /\ [Next]_vars => ScreenInv'
<1> SUFFICES ASSUME TypeInv, TypeInv', AloneInv, ScreenInv, [Next]_vars,
                    \A h \in Handlers : ~InDispatch(h)', ~doubt'
             PROVE  Agrees(screen', row')
  BY DEF ScreenInv, Agrees
<1>1. ASSUME NEW h \in Handlers, Dispatch(h)
      PROVE  Agrees(screen', row')
  <2>1. ~Fail(h) /\ InDispatch(h) /\ ~InDispatch(h)'
    BY <1>1, DispatchMoves DEF Fail, InDispatch, Working
  <2>2. EditMessage(h) \/ SendMessage(h)
    BY <1>1, <2>1, DispatchMoves DEF InDispatch, Working
  <2>3. Finish(h)
    BY <1>1, <2>1, DispatchMoves DEF InDispatch, Working
  <2>4. ~Go(h, "send")
    <3> DEFINE g == [handler[h] EXCEPT !.pc = "send"]
    <3>1. g.pc = "send"
      BY Here DEF Goroutines
    <3> HIDE DEF g
    <3>2. Become(h, g) => handler'[h] = g
      BY GoneOn
    <3>3. ~Become(h, g)
      BY <2>1, <3>1, <3>2 DEF InDispatch
    <3> QED
      BY <3>3 DEF Go, g
  <2>5. screen' = handler[h].reply /\ doubt' = ~handler[h].alone /\ row' = row
        /\ handler[h].pc \in {"edit", "send"}
    BY <2>2, <2>4 DEF EditMessage, SendMessage, Show, store, At
  <2>6. Alone(h)
    BY <2>1, <2>5, Zenon DEF Alone
  <2>7. Knows(handler[h], row)
    BY <2>6 DEF AloneInv
  <2> QED
    BY <2>5, <2>7 DEF Knows
<1>2. ASSUME UNCHANGED <<screen, row, doubt>>, \A h \in Handlers : ~InDispatch(h)
      PROVE  Agrees(screen', row')
  BY <1>2 DEF ScreenInv
<1>3. ASSUME NEW h \in Handlers, NEW u \in Updates, Begin(h, u), UNCHANGED <<sent, source>>
      PROVE  \A o \in Handlers : ~InDispatch(o)
  <2>1. handler[h].pc = "idle"
    BY <1>3 DEF Begin, At
  <2>2. ASSUME NEW o \in Handlers, o # h
        PROVE  ~InDispatch(o)
    <3>1. handler[o] \in Goroutines
      BY Here
    <3>2. \/ ~InDispatch(o)
          \/ handler'[o] = [handler[o] EXCEPT !.alone = FALSE]
      BY <1>3, <2>2, BeginStep
    <3> QED
      BY <3>1, <3>2 DEF InDispatch, Goroutines
  <2> QED
    BY <2>1, <2>2 DEF InDispatch
<1>4. CASE GetUpdates \/ UNCHANGED vars
  <2>1. UNCHANGED <<handler, screen, row, doubt>>
    BY <1>4 DEF GetUpdates, vars, store, user
  <2> QED
    BY <1>2, <2>1 DEF InDispatch
<1>5. CASE DispatchNext
  <2>1. Head(batch) \in Updates
    BY <1>5 DEF DispatchNext, TypeInv, Types
  <2> QED
    BY <1>2, <1>3, <1>5, <2>1, CommandsAssumption DEF DispatchNext, telegram, store, user
<1>6. ASSUME NEW h \in Handlers, NEW u \in Updates, ServeHTTP(h, u)
      PROVE  Agrees(screen', row')
  BY <1>2, <1>3, <1>6 DEF ServeHTTP, telegram, store, user
<1>7. ASSUME NEW h \in Handlers, Answer(h)
      PROVE  Agrees(screen', row')
  <2>1. /\ UNCHANGED <<screen, row, doubt>> /\ handler[h].pc = "answer"
        /\ \A o \in Handlers : o # h => handler'[o] = handler[o]
    BY <1>7 DEF Answer, store, user, At, Become, TypeInv, Types
  <2>2. \A o \in Handlers : ~InDispatch(o)
    BY <2>1 DEF InDispatch
  <2> QED
    BY <1>2, <2>1, <2>2
<1>8. CASE Restart
  <2>1. UNCHANGED <<screen, row>> /\ ~doubt /\ \A h \in Handlers : ~InDispatch(h)
    BY <1>8 DEF Restart, store
  <2> QED
    BY <2>1 DEF ScreenInv
<1> QED
  BY <1>1, <1>4, <1>5, <1>6, <1>7, <1>8 DEF Next

\* When no command is under way, the reply that a command that ran alone has put on
\* the screen says what the rows say, also after faults and restarts: no reply is made
\* of a read that a later statement of the command has made stale.
THEOREM RepliesSayWhatIsThere == Spec => []ScreenAgrees
<1>1. Init => ScreenInv
  BY DEF Init, ScreenInv, Agrees, NoReply, Reply
<1>2. ScreenInv => ScreenAgrees
  BY DEF ScreenInv, ScreenAgrees, Agrees
<1> QED
  BY <1>1, <1>2, ScreenStep, InitAlone, AloneStep, CommandsAreTyped, PTL DEF Spec
=============================================================================
