---------------------------- MODULE AlertsProofs ----------------------------
(***************************************************************************)
(* Theorems about the alert pipeline, for every set of subscribers and     *)
(* events, every window, limit, buffer and bound.                          *)
(***************************************************************************)
EXTENDS Alerts, FiniteSetTheorems, SequenceTheorems, TLAPS

(***************************************************************************)
(* Types.  A goroutine with work in hand holds at least one event.         *)
(***************************************************************************)
Sound == {g \in Goroutines : g.pc \notin {"idle", "stopped"} => g.todo # <<>>}

TypeInv == TypeOK /\ worker \in [Workers -> Sound]

\* The tail of a sequence of two or more is not empty.
LEMMA TailOfLongSeq ==
  ASSUME NEW S, NEW q \in Seq(S), Len(q) > 1
  PROVE  Tail(q) \in Seq(S) /\ Tail(q) # <<>>
<1>1. q # <<>>
  OBVIOUS
<1>2. Tail(q) \in Seq(S) /\ Len(Tail(q)) = Len(q) - 1
  BY <1>1, HeadTailProperties
<1>3. Len(Tail(q)) # 0
  BY <1>2
<1> QED
  BY <1>2, <1>3, EmptySeq

\* A goroutine that is idle is sound under either context.
LEMMA IdleIsSound ==
  ASSUME NEW c \in {"run", "drain"}
  PROVE  Idle(c) \in Sound /\ Idle(c).pc = "idle"
BY DEF Idle, Sound, Goroutines

\* The record that ends a call, a dispatch or a sweep is sound.
LEMMA HomeIsSound ==
  ASSUME NEW w
  PROVE  Home(w) \in Sound /\ Home(w).pc = "idle"
BY IdleIsSound DEF Home

\* What follows an event in hand is sound: the rest of the sweep, or home.
LEMMA NextEventIsSound ==
  ASSUME NEW w \in Workers, worker[w] \in Sound
  PROVE  NextEvent(w) \in Sound /\ NextEvent(w).pc \in {"idle", "find"}
<1> DEFINE g == worker[w]
<1>1. CASE Len(g.todo) <= 1
  BY <1>1, HomeIsSound DEF NextEvent
<1>2. CASE ~(Len(g.todo) <= 1)
  <2>1. g.todo \in Seq(Events) /\ Len(g.todo) > 1 /\ g.ctx \in {"run", "drain"}
    BY <1>2 DEF Sound, Goroutines
  <2>2. Tail(g.todo) \in Seq(Events) /\ Tail(g.todo) # <<>>
    BY <2>1, TailOfLongSeq
  <2>3. NextEvent(w) = [Idle(g.ctx) EXCEPT !.pc = "find", !.todo = Tail(g.todo)]
    BY <1>2 DEF NextEvent
  <2> QED
    BY <2>1, <2>2, <2>3 DEF Idle, Sound, Goroutines
<1> QED
  BY <1>1, <1>2

\* The orders in which a sweep may visit a set of events are sequences of events.
LEMMA ByOccurrenceType ==
  ASSUME NEW S \in SUBSET Events, NEW q \in ByOccurrence(S)
  PROVE  q \in Seq(Events)
<1>1. IsFiniteSet(S)
  BY AlertsAssumption, FS_Subset
<1>2. Cardinality(S) \in Nat
  BY <1>1, FS_CardinalityType
<1>3. q \in [1..Cardinality(S) -> S]
  BY DEF ByOccurrence, SetToSeqs
<1> QED
  BY <1>2, <1>3

\* A goroutine that becomes a sound record leaves all of them sound.
LEMMA BecomeSound ==
  ASSUME worker \in [Workers -> Sound], NEW w \in Workers, NEW g \in Sound,
         Become(w, g)
  PROVE  worker' \in [Workers -> Sound]
BY DEF Become

\* Marking a row keeps the table of deliveries well-typed.
LEMMA MarkTypes ==
  ASSUME TypeOK, NEW w \in Workers, NEW s \in Subs,
         NEW status \in {"pending", "sent", "skipped"}, Mark(w, s, status)
  PROVE  /\ delivery' \in [Rows -> [status: Statuses, attempts: Nat]]
         /\ storeErrors' \in 0..MaxStoreErrors /\ restarts' \in 0..MaxRestarts
<1>1. CASE CallFails(w) /\ UNCHANGED delivery
  BY <1>1, AlertsAssumption DEF CallFails, TypeOK, bounds
<1>2. CASE MarkDelivery(s, Event(w), status) /\ UNCHANGED bounds
  <2>1. \A row \in [status: Statuses, attempts: Nat] :
          MarkedRow(row, status) \in [status: Statuses, attempts: Nat]
    BY DEF MarkedRow, Statuses
  <2> QED
    BY <1>2, <2>1 DEF MarkDelivery, TypeOK, bounds
<1> QED
  BY <1>1, <1>2 DEF Mark

\* The type invariant is inductive.
LEMMA TypeStep ==
  ASSUME TypeInv, [Next]_vars
  PROVE  TypeInv'
<1> USE DEF TypeInv
<1> SUFFICES TypeOK' /\ worker' \in [Workers -> Sound]
  OBVIOUS
<1>0. Sound \subseteq Goroutines
  BY DEF Sound
<1>1. ASSUME NEW w \in Workers, WorkerStep(w)
      PROVE  TypeOK' /\ worker' \in [Workers -> Sound]
  <2> DEFINE g == worker[w]
  <2>1. g \in Sound
    OBVIOUS
  <2>2. Home(w) \in Sound /\ NextEvent(w) \in Sound
    BY <2>1, HomeIsSound, NextEventIsSound
  <2>3. CallFails(w) => storeErrors' \in 0..MaxStoreErrors /\ restarts' \in 0..MaxRestarts
    BY AlertsAssumption DEF CallFails, TypeOK, bounds
  <2>4. CASE Sweep(w)
    <3>1. ASSUME NEW q \in ByOccurrence({e \in Events : NeedsDelivery(e)}), q # <<>>
          PROVE  [Idle("run") EXCEPT !.pc = "find", !.todo = q] \in Sound
      BY <3>1, ByOccurrenceType DEF Idle, Sound, Goroutines
    <3>2. worker' \in [Workers -> Sound]
      BY <2>2, <2>4, <3>1, BecomeSound DEF Sweep, GiveUp
    <3> QED
      BY <1>0, <2>3, <2>4, <3>2
         DEF Sweep, TypeOK, people, events, bus, process, bounds, history
  <2>5. CASE Receive(w)
    <3>1. Head(queue) \in Events /\ Tail(queue) \in Seq(Events)
      BY <2>5 DEF Receive, TypeOK
    <3>2. [Idle("drain") EXCEPT !.pc = "find", !.todo = <<Head(queue)>>] \in Sound
      <4>1. <<Head(queue)>> \in Seq(Events) /\ <<Head(queue)>> # <<>>
        BY <3>1
      <4> QED
        BY <4>1 DEF Idle, Sound, Goroutines
    <3>3. worker' \in [Workers -> Sound]
      BY <2>5, <3>2, BecomeSound DEF Receive
    <3> QED
      BY <1>0, <2>5, <3>1, <3>3
         DEF Receive, TypeOK, people, events, process, bounds, history
  <2>6. CASE FindSubscribers(w)
    <3>1. Interested \in SUBSET Subs
      BY DEF Interested, TypeOK
    <3>2. At(w, "find") => [worker[w] EXCEPT
             !.pc = IF Interested = {} THEN "load" ELSE "create",
             !.ids = Interested] \in Sound
      BY <2>1, <3>1 DEF Sound, Goroutines, At
    <3>3. worker' \in [Workers -> Sound]
      BY <2>2, <2>6, <3>2, BecomeSound DEF FindSubscribers, GiveUp
    <3> QED
      BY <1>0, <2>3, <2>6, <3>3
         DEF FindSubscribers, TypeOK, people, events, bus, process, bounds, history
  <2>7. CASE CreateDeliveries(w)
    <3>1. At(w, "create") => [worker[w] EXCEPT !.pc = "load", !.ids = {}] \in Sound
      BY <2>1 DEF Sound, Goroutines, At
    <3>2. worker' \in [Workers -> Sound]
      BY <2>2, <2>7, <3>1, BecomeSound DEF CreateDeliveries, GiveUp
    <3>3. \/ UNCHANGED delivery
          \/ InsertDeliveries(worker[w].ids, Event(w))
      BY <2>7 DEF CreateDeliveries
    <3>4. delivery' \in [Rows -> [status: Statuses, attempts: Nat]]
      BY <3>3 DEF InsertDeliveries, NewRow, TypeOK, Statuses
    <3> QED
      BY <1>0, <2>3, <2>7, <3>2, <3>4
         DEF CreateDeliveries, TypeOK, people, events, bus, process, bounds, history
  <2>8. CASE LoadRecipients(w)
    <3> DEFINE rcpts == PendingRecipients(Event(w))
    <3>1. rcpts \in SUBSET Subs
      BY DEF PendingRecipients, TypeOK
    <3>2. At(w, "load") => IsStale(Event(w)) \in BOOLEAN
      <4>1. At(w, "load") => Event(w) \in Events
        BY <2>1 DEF Sound, Goroutines, At, Event
      <4> QED
        BY <4>1, AlertsAssumption DEF IsStale, TypeOK
    <3>3. At(w, "load") => [worker[w] EXCEPT !.pc = "send", !.rcpts = rcpts,
             !.muted = rcpts \ alertsOn, !.stale = IsStale(Event(w))] \in Sound
      BY <2>1, <3>1, <3>2 DEF Sound, Goroutines, At
    <3>4. worker' \in [Workers -> Sound]
      BY <2>2, <2>8, <3>3, BecomeSound DEF LoadRecipients, GiveUp
    <3> QED
      BY <1>0, <2>3, <2>8, <3>4
         DEF LoadRecipients, TypeOK, people, events, bus, process, bounds, history
  <2>9. ASSUME NEW s \in worker[w].rcpts, Advance(w, s),
               worker[w].pc \notin {"idle", "stopped"}
        PROVE  worker' \in [Workers -> Sound]
    <3>1. [worker[w] EXCEPT !.pc = "send", !.rcpts = @ \ {s},
             !.muted = @ \ {s}, !.verdict = "pending"] \in Sound
      BY <2>1, <2>9 DEF Sound, Goroutines
    <3> QED
      BY <2>2, <2>9, <3>1, BecomeSound DEF Advance
  <2>10. worker[w].rcpts \subseteq Subs /\ worker[w].verdict \in {"pending", "sent", "skipped"}
    BY <2>1 DEF Sound, Goroutines
  <2>11. CASE Skip(w)
    <3>1. PICK s \in worker[w].rcpts : Mark(w, s, "skipped") /\ Advance(w, s)
      BY <2>11 DEF Skip
    <3>2. worker' \in [Workers -> Sound]
      BY <2>9, <2>11, <3>1 DEF Skip, At
    <3>3. /\ delivery' \in [Rows -> [status: Statuses, attempts: Nat]]
          /\ storeErrors' \in 0..MaxStoreErrors /\ restarts' \in 0..MaxRestarts
      BY <2>10, <3>1, MarkTypes
    <3> QED
      BY <1>0, <2>11, <3>2, <3>3 DEF Skip, TypeOK, people, events, bus, process, history
  <2>12. CASE Record(w)
    <3>1. PICK s \in worker[w].rcpts : Mark(w, s, worker[w].verdict) /\ Advance(w, s)
      BY <2>12 DEF Record
    <3>2. worker' \in [Workers -> Sound]
      BY <2>9, <2>12, <3>1 DEF Record, At
    <3>3. /\ delivery' \in [Rows -> [status: Statuses, attempts: Nat]]
          /\ storeErrors' \in 0..MaxStoreErrors /\ restarts' \in 0..MaxRestarts
      BY <2>10, <3>1, MarkTypes
    <3> QED
      BY <1>0, <2>12, <3>2, <3>3 DEF Record, TypeOK, people, events, bus, process, history
  <2>13. CASE Send(w)
    <3>1. ASSUME NEW outcome \in SendOutcomes
          PROVE  [worker[w] EXCEPT !.pc = "mark", !.verdict = VerdictOf(outcome)] \in Sound
      <4>1. VerdictOf(outcome) \in {"pending", "sent", "skipped"}
        BY AlertsAssumption DEF VerdictOf, Outcomes
      <4> QED
        BY <2>1, <2>13, <4>1 DEF Send, At, Sound, Goroutines
    <3>2. worker' \in [Workers -> Sound]
      BY <2>13, <3>1, BecomeSound DEF Send
    <3>3. received' \in [Rows -> Nat] /\ lateCopies' \in [Rows -> Nat]
      <4>1. ASSUME NEW f \in [Rows -> Nat], NEW r \in Rows
            PROVE  [f EXCEPT ![r] = @ + 1] \in [Rows -> Nat]
        OBVIOUS
      <4>2. PICK r \in Rows :
              /\ received' \in {received, [received EXCEPT ![r] = @ + 1]}
              /\ lateCopies' \in {lateCopies, [lateCopies EXCEPT ![r] = @ + 1]}
        <5>1. PICK s \in worker[w].rcpts, outcome \in SendOutcomes :
                LET got == outcome \in {"ok", "cut"}
                    r   == <<s, Event(w)>>
                IN  /\ received' = IF got THEN [received EXCEPT ![r] = @ + 1] ELSE received
                    /\ lateCopies' = IF got /\ s \notin alertsOn
                                     THEN [lateCopies EXCEPT ![r] = @ + 1] ELSE lateCopies
          BY <2>13, Zenon DEF Send
        <5>2. <<s, Event(w)>> \in Rows
          BY <2>1, <2>13 DEF Send, At, Sound, Goroutines, Event, Rows
        <5> QED
          BY <5>1, <5>2, Zenon
      <4>3. received \in [Rows -> Nat] /\ lateCopies \in [Rows -> Nat]
        BY DEF TypeOK
      <4> QED
        BY <4>1, <4>2, <4>3
    <3> QED
      BY <1>0, <2>13, <3>2, <3>3 DEF Send, TypeOK, people, events, bus, process, bounds
  <2>14. CASE Abandon(w)
    <3>1. worker' \in [Workers -> Sound]
      BY <2>2, <2>14, BecomeSound DEF Abandon, GiveUp
    <3> QED
      BY <1>0, <2>14, <3>1
         DEF Abandon, TypeOK, people, events, bus, process, bounds, history
  <2>15. CASE LeaveLoop(w)
    <3>1. [worker[w] EXCEPT !.pc = "stopped"] \in Sound
      BY <2>1 DEF Sound, Goroutines
    <3>2. worker' \in [Workers -> Sound]
      BY <2>15, <3>1, BecomeSound DEF LeaveLoop
    <3> QED
      BY <1>0, <2>15, <3>2
         DEF LeaveLoop, TypeOK, people, events, bus, process, bounds, history
  <2> QED
    BY <1>1, <2>4, <2>5, <2>6, <2>7, <2>8, <2>11, <2>12, <2>13, <2>14, <2>15 DEF WorkerStep
<1>2. ASSUME NEW e \in Events, SaveEvent(e) \/ Publish(e) \/ PublishCancelled(e)
      PROVE  TypeOK' /\ worker' \in [Workers -> Sound]
  <2>1. CASE SaveEvent(e)
    <3>1. eligible' \subseteq Rows
      BY <2>1 DEF SaveEvent, Interested, TypeOK, Rows
    <3>2. saved' \subseteq Events /\ silent' \subseteq saved' /\ unpublished' \subseteq Events
      BY <2>1 DEF SaveEvent, TypeOK
    <3>3. lag' \in [Events -> Lags \cup {0}]
      BY <2>1 DEF SaveEvent, TypeOK
    <3>4. storeErrors' \in 0..MaxStoreErrors /\ UNCHANGED restarts
      BY <2>1, AlertsAssumption DEF SaveEvent, TypeOK, bounds
    <3> QED
      BY <2>1, <3>1, <3>2, <3>3, <3>4 DEF SaveEvent, TypeOK, people, process
  <2>2. CASE Publish(e)
    BY <2>2 DEF Publish, TypeOK, people, events, process, bounds, history
  <2>3. CASE PublishCancelled(e)
    BY <2>3 DEF PublishCancelled, TypeOK, people, events, process, bounds, history
  <2> QED
    BY <1>2, <2>1, <2>2, <2>3
<1>3. CASE CloseBus \/ Shutdown \/ DrainExpires \/ Start \/ Tick
  <2>1. CASE CloseBus
    BY <2>1 DEF CloseBus, TypeOK, people, events, process, bounds, history
  <2>2. CASE Shutdown
    BY <2>2, AlertsAssumption DEF Shutdown, TypeOK, people, events, bus, history
  <2>3. CASE DrainExpires
    BY <2>3 DEF DrainExpires, TypeOK, people, events, bus, bounds, history
  <2>4. CASE Start
    BY <2>4 DEF Start, TypeOK, people, events, bus, bounds, history
  <2>5. CASE Tick
    BY <2>5, AlertsAssumption DEF Tick, TypeOK, people, bus, process, bounds, history
  <2> QED
    BY <1>3, <2>1, <2>2, <2>3, <2>4, <2>5
<1>4. CASE Exit \/ Crash
  <2>1. Vanish
    BY <1>4 DEF Exit, Crash
  <2>2. worker' \in [Workers -> Sound]
    BY <2>1, IdleIsSound DEF Vanish
  <2>3. restarts' \in 0..MaxRestarts
    BY <1>4, AlertsAssumption DEF Exit, Crash, TypeOK, bounds
  <2>4. <<>> \in Seq(Events)
    OBVIOUS
  <2> QED
    BY <1>0, <1>4, <2>1, <2>2, <2>3, <2>4
       DEF Exit, Crash, Vanish, TypeOK, people, events, bounds, history
<1>5. ASSUME NEW s \in Fickle, UserStep(s)
      PROVE  TypeOK' /\ worker' \in [Workers -> Sound]
  <2>1. s \in Subs
    BY AlertsAssumption
  <2>2. NoteWish(s) => eligible' \subseteq Rows
    BY <2>1 DEF NoteWish, TypeOK, Rows
  <2>3. CASE Join(s)
    BY <2>1, <2>3 DEF Join, TypeOK, events, bus, process, bounds, history
  <2>4. CASE Follow(s)
    BY <2>1, <2>2, <2>4 DEF Follow, TypeOK, events, bus, process, bounds
  <2>5. CASE SetAlerts(s)
    BY <2>1, <2>2, <2>5 DEF SetAlerts, TypeOK, events, bus, process, bounds
  <2>6. CASE Stop(s)
    BY <2>1, <2>6
       DEF Stop, TypeOK, events, bus, process, bounds, history, NoRow, Statuses
  <2> QED
    BY <1>5, <2>3, <2>4, <2>5, <2>6 DEF UserStep
<1>6. CASE UNCHANGED vars
  BY <1>6 DEF vars, TypeOK, people, events, bus, process, bounds, history
<1> QED
  BY <1>1, <1>2, <1>3, <1>4, <1>5, <1>6 DEF Next

\* The pipeline starts well-typed.
LEMMA InitTypes ==
  ASSUME Init
  PROVE  TypeInv
<1>1. worker \in [Workers -> Sound]
  BY IdleIsSound DEF Init
<1>2. delivery \in [Rows -> [status: Statuses, attempts: Nat]]
  BY DEF Init, NoRow, Statuses
<1>3. <<>> \in Seq(Events)
  OBVIOUS
<1>4. worker \in [Workers -> Goroutines]
  BY <1>1 DEF Sound
<1>5. members \subseteq Subs /\ former \subseteq Subs /\ follows \subseteq members /\ alertsOn \subseteq members
  BY DEF Init
<1>6. age \in [Events -> 0..Window + 1] /\ lag \in [Events -> Lags \cup {0}]
  BY AlertsAssumption DEF Init
<1>7. received \in [Rows -> Nat] /\ lateCopies \in [Rows -> Nat]
  BY DEF Init
<1>8. storeErrors \in 0..MaxStoreErrors /\ restarts \in 0..MaxRestarts
  BY AlertsAssumption DEF Init
<1>9. TypeOK
  BY <1>2, <1>3, <1>4, <1>5, <1>6, <1>7, <1>8 DEF Init, TypeOK
<1> QED
  BY <1>1, <1>9 DEF TypeInv

\* Every state of the pipeline is well-typed.
THEOREM TypeCorrect == Spec => []TypeOK
<1>1. Init => TypeInv
  BY InitTypes
<1>2. TypeInv /\ [Next]_vars => TypeInv'
  BY TypeStep
<1>3. TypeInv => TypeOK
  BY DEF TypeInv
<1> QED
  BY <1>1, <1>2, <1>3, PTL DEF Spec

(***************************************************************************)
(* Rows and the goroutines that hold them.  A step creates or removes      *)
(* rows, or loads recipients, or marks one row; nothing else touches the   *)
(* table, and only a load lets a goroutine hold a row it did not hold.     *)
(***************************************************************************)
HoldsShrink == \A w \in Workers, r \in Rows : Holds(w, r)' => Holds(w, r)

\* The row is one that w, which has listed the subscribers, is about to create.
Creates(w, r) ==
  worker[w].pc = "create" /\ r[1] \in worker[w].ids \cap members /\ r[2] = Event(w)

RowsComeAndGo ==
  /\ HoldsShrink
  /\ \A r \in Rows :
       \/ delivery'[r] = delivery[r]
       \/ delivery'[r] = NoRow /\ r[1] \in former'
       \/ /\ delivery[r].status = "none" /\ delivery'[r] = NewRow
          /\ \E w \in Workers : Creates(w, r)

LoadStep(w) ==
  /\ delivery' = delivery
  /\ \A v \in Workers \ {w}, r \in Rows : Holds(v, r)' => Holds(v, r)
  /\ \A r \in Rows : Holds(w, r)' =>
       \/ Holds(w, r)
       \/ delivery[r].status = "pending" /\ delivery[r].attempts < MaxAttempts

MarkStep(w, s) ==
  /\ HoldsShrink
  /\ IsNext(w, s)
  /\ \A r \in Rows : r = <<s, Event(w)>> => Holds(w, r) /\ ~Holds(w, r)'
  /\ \/ MarkDelivery(s, Event(w), "skipped")
     \/ /\ worker[w].pc = "mark"
        /\ MarkDelivery(s, Event(w), worker[w].verdict)

\* When one goroutine becomes a record that holds no row, holds shrink.
LEMMA ReleaseShrinks ==
  ASSUME worker \in [Workers -> Sound], NEW w \in Workers, NEW g \in Sound,
         g.pc \notin {"send", "mark"}, Become(w, g)
  PROVE  HoldsShrink
<1>1. worker'[w] = g /\ \A v \in Workers \ {w} : worker'[v] = worker[v]
  BY DEF Become
<1> QED
  BY <1>1 DEF HoldsShrink, Holds, Event

\* When no goroutine moves, holds stay.
LEMMA StillShrinks ==
  ASSUME worker' = worker
  PROVE  HoldsShrink
BY DEF HoldsShrink, Holds, Event

\* After its mark a goroutine no longer holds the row it marked.
LEMMA AdvanceReleases ==
  ASSUME worker \in [Workers -> Sound], NEW w \in Workers, NEW s \in worker[w].rcpts,
         worker[w].pc \in {"send", "mark"}, Advance(w, s)
  PROVE  HoldsShrink /\ \A r \in Rows : r = <<s, Event(w)>> => ~Holds(w, r)'
<1>0. \A v \in Workers \ {w} : worker'[v] = worker[v]
  BY DEF Advance, Become
<1>1. CASE worker[w].rcpts = {s}
  <2>1. worker'[w] = NextEvent(w) /\ NextEvent(w).pc \in {"idle", "find"}
    BY <1>1, NextEventIsSound DEF Advance, Become
  <2> QED
    BY <1>0, <2>1 DEF HoldsShrink, Holds, Event
<1>2. CASE worker[w].rcpts # {s}
  <2>1. /\ worker'[w].rcpts = worker[w].rcpts \ {s}
        /\ worker'[w].todo = worker[w].todo
    BY <1>2 DEF Advance, Become, Sound, Goroutines
  <2> QED
    BY <1>0, <2>1 DEF HoldsShrink, Holds, Event
<1> QED
  BY <1>1, <1>2

\* The end of the work on a recipient: its row is marked, or nothing is.
LEMMA MarkKinds ==
  ASSUME worker \in [Workers -> Sound], NEW w \in Workers, NEW s \in worker[w].rcpts,
         NEW status, worker[w].pc \in {"send", "mark"},
         status = "skipped" \/ (worker[w].pc = "mark" /\ status = worker[w].verdict),
         IsNext(w, s), Mark(w, s, status), Advance(w, s)
  PROVE  RowsComeAndGo \/ MarkStep(w, s)
<1>1. HoldsShrink /\ \A r \in Rows : r = <<s, Event(w)>> => ~Holds(w, r)'
  BY AdvanceReleases
<1>2. CASE CallFails(w) /\ UNCHANGED delivery
  BY <1>1, <1>2 DEF RowsComeAndGo
<1>3. CASE MarkDelivery(s, Event(w), status)
  <2>1. \A r \in Rows : r = <<s, Event(w)>> => Holds(w, r)
    BY DEF Holds
  <2> QED
    BY <1>1, <1>3, <2>1 DEF MarkStep
<1> QED
  BY <1>2, <1>3 DEF Mark

\* A step of the pipeline is of one of the three kinds.
LEMMA StepKinds ==
  ASSUME TypeInv, [Next]_vars
  PROVE  \/ RowsComeAndGo
         \/ \E w \in Workers : LoadStep(w)
         \/ \E w \in Workers : \E s \in worker[w].rcpts : MarkStep(w, s)
<1> DEFINE Goal == \/ RowsComeAndGo
                   \/ \E w \in Workers : LoadStep(w)
                   \/ \E w \in Workers : \E s \in worker[w].rcpts : MarkStep(w, s)
<1>0. HoldsShrink /\ delivery' = delivery => RowsComeAndGo
  BY DEF RowsComeAndGo
<1>1. ASSUME NEW w \in Workers, WorkerStep(w)
      PROVE  Goal
  <2>1. worker \in [Workers -> Sound] /\ worker[w] \in Sound
    BY DEF TypeInv
  <2>2. GiveUp(w) => HoldsShrink
    BY <2>1, HomeIsSound, ReleaseShrinks DEF GiveUp
  <2>4. CASE Sweep(w)
    <3>1. ASSUME NEW q \in ByOccurrence({e \in Events : NeedsDelivery(e)}), q # <<>>
          PROVE  LET g == [Idle("run") EXCEPT !.pc = "find", !.todo = q]
                 IN  g \in Sound /\ g.pc = "find"
      BY <3>1, ByOccurrenceType DEF Idle, Sound, Goroutines
    <3>2. HoldsShrink
      BY <2>1, <2>2, <2>4, <3>1, HomeIsSound, ReleaseShrinks DEF Sweep
    <3> QED
      BY <1>0, <2>4, <3>2 DEF Sweep
  <2>5. CASE Receive(w)
    <3>1. LET g == [Idle("drain") EXCEPT !.pc = "find", !.todo = <<Head(queue)>>]
          IN  g \in Sound /\ g.pc = "find"
      <4>1. <<Head(queue)>> \in Seq(Events) /\ <<Head(queue)>> # <<>>
        BY <2>5 DEF Receive, TypeInv, TypeOK
      <4> QED
        BY <4>1 DEF Idle, Sound, Goroutines
    <3>2. HoldsShrink
      BY <2>1, <2>5, <3>1, ReleaseShrinks, StillShrinks DEF Receive
    <3> QED
      BY <1>0, <2>5, <3>2 DEF Receive
  <2>6. CASE FindSubscribers(w)
    <3>1. At(w, "find") =>
            LET g == [worker[w] EXCEPT
                        !.pc = IF Interested = {} THEN "load" ELSE "create",
                        !.ids = Interested]
            IN  g \in Sound /\ g.pc \in {"load", "create"}
      BY <2>1 DEF Interested, TypeInv, TypeOK, Sound, Goroutines, At
    <3>2. HoldsShrink
      BY <2>1, <2>2, <2>6, <3>1, ReleaseShrinks DEF FindSubscribers
    <3> QED
      BY <1>0, <2>6, <3>2 DEF FindSubscribers
  <2>7. CASE CreateDeliveries(w)
    <3>1. At(w, "create") => LET g == [worker[w] EXCEPT !.pc = "load", !.ids = {}]
                             IN  g \in Sound /\ g.pc = "load"
      BY <2>1 DEF Sound, Goroutines, At
    <3>2. HoldsShrink
      BY <2>1, <2>2, <2>7, <3>1, ReleaseShrinks DEF CreateDeliveries
    <3>3. \/ UNCHANGED delivery
          \/ /\ InsertDeliveries(worker[w].ids, Event(w))
             /\ worker[w].pc = "create" /\ worker[w].ids \subseteq members
      BY <2>7 DEF CreateDeliveries, At
    <3> QED
      BY <3>2, <3>3 DEF RowsComeAndGo, InsertDeliveries, Creates
  <2>8. CASE LoadRecipients(w)
    <3> DEFINE rcpts == PendingRecipients(Event(w))
               g == [worker[w] EXCEPT !.pc = "send", !.rcpts = rcpts,
                       !.muted = rcpts \ alertsOn, !.stale = IsStale(Event(w))]
    <3>0. delivery' = delivery
      BY <2>8 DEF LoadRecipients
    <3>1. CASE Become(w, NextEvent(w)) \/ GiveUp(w)
      <4>1. HoldsShrink
        BY <2>1, <2>2, <3>1, NextEventIsSound, ReleaseShrinks
      <4> QED
        BY <1>0, <3>0, <4>1
    <3>2. CASE Become(w, g)
      <4>1. /\ \A v \in Workers \ {w} : worker'[v] = worker[v]
            /\ worker'[w].rcpts = rcpts /\ worker'[w].todo = worker[w].todo
        BY <2>1, <3>2 DEF Become, Sound, Goroutines
      <4>2. ASSUME NEW r \in Rows, Holds(w, r)'
            PROVE  delivery[r].status = "pending" /\ delivery[r].attempts < MaxAttempts
        <5>1. r[1] \in rcpts /\ r[2] = Event(w) /\ r = <<r[1], r[2]>>
          BY <4>1, <4>2 DEF Holds, Event, Rows
        <5> QED
          BY <5>1 DEF PendingRecipients
      <4>3. \A v \in Workers \ {w}, r \in Rows : Holds(v, r)' => Holds(v, r)
        BY <4>1 DEF Holds, Event
      <4>4. LoadStep(w)
        BY <3>0, <4>2, <4>3 DEF LoadStep
      <4> QED
        BY <4>4
    <3>3. Become(w, NextEvent(w)) \/ GiveUp(w) \/ Become(w, g)
      BY <2>8 DEF LoadRecipients
    <3> QED
      BY <3>1, <3>2, <3>3
  <2>9. CASE Skip(w)
    <3>1. PICK s \in worker[w].rcpts : IsNext(w, s) /\ Mark(w, s, "skipped") /\ Advance(w, s)
      BY <2>9 DEF Skip
    <3>2. worker[w].pc \in {"send", "mark"}
      BY <2>9 DEF Skip, At
    <3>3. HoldsShrink /\ \A r \in Rows : r = <<s, Event(w)>> => ~Holds(w, r)'
      BY <2>1, <3>1, <3>2, AdvanceReleases
    <3>4. delivery' = delivery \/ MarkDelivery(s, Event(w), "skipped")
      BY <3>1 DEF Mark
    <3>5. \A r \in Rows : r = <<s, Event(w)>> => Holds(w, r)
      BY <3>2 DEF Holds
    <3>6. MarkDelivery(s, Event(w), "skipped") => MarkStep(w, s)
      BY <3>1, <3>3, <3>5 DEF MarkStep
    <3> QED
      BY <1>0, <3>3, <3>4, <3>6
  <2>10. CASE Record(w)
    <3>1. PICK s \in worker[w].rcpts :
            IsNext(w, s) /\ Mark(w, s, worker[w].verdict) /\ Advance(w, s)
      BY <2>10 DEF Record
    <3>2. worker[w].pc = "mark"
      BY <2>10 DEF Record, At
    <3>3. RowsComeAndGo \/ MarkStep(w, s)
      BY <2>1, <3>1, <3>2, MarkKinds
    <3> QED
      BY <3>3
  <2>11. CASE Send(w)
    <3>1. PICK outcome \in SendOutcomes :
            worker' = [worker EXCEPT ![w] = [worker[w] EXCEPT
                         !.pc = "mark", !.verdict = VerdictOf(outcome)]]
      BY <2>11 DEF Send, Become
    <3>2. /\ \A v \in Workers \ {w} : worker'[v] = worker[v]
          /\ worker'[w].rcpts = worker[w].rcpts /\ worker'[w].todo = worker[w].todo
          /\ worker[w].pc = "send"
      BY <2>1, <2>11, <3>1 DEF Send, At, Sound, Goroutines
    <3>3. HoldsShrink
      BY <3>2 DEF HoldsShrink, Holds, Event
    <3> QED
      BY <1>0, <2>11, <3>3 DEF Send
  <2>12. CASE Abandon(w)
    BY <1>0, <2>2, <2>12 DEF Abandon
  <2>13. CASE LeaveLoop(w)
    <3>1. [worker[w] EXCEPT !.pc = "stopped"] \in Sound
      BY <2>1 DEF Sound, Goroutines
    <3>2. [worker[w] EXCEPT !.pc = "stopped"].pc = "stopped"
      BY <2>1 DEF Sound, Goroutines
    <3>3. HoldsShrink
      BY <2>1, <2>13, <3>1, <3>2, ReleaseShrinks DEF LeaveLoop
    <3> QED
      BY <1>0, <2>13, <3>3 DEF LeaveLoop
  <2> QED
    BY <1>1, <2>4, <2>5, <2>6, <2>7, <2>8, <2>9, <2>10, <2>11, <2>12, <2>13 DEF WorkerStep
<1>2. CASE Exit \/ Crash
  <2>1. worker' = [w \in Workers |-> Idle("run")] /\ delivery' = delivery
    BY <1>2 DEF Exit, Crash, Vanish
  <2>2. HoldsShrink
    BY <2>1, IdleIsSound DEF HoldsShrink, Holds
  <2> QED
    BY <1>0, <2>1, <2>2
<1>3. ASSUME NEW s \in Fickle, UserStep(s)
      PROVE  Goal
  <2>1. worker' = worker
    BY <1>3 DEF UserStep, Join, Follow, SetAlerts, Stop
  <2>2. \A r \in Rows :
          delivery'[r] = delivery[r] \/ (delivery'[r] = NoRow /\ r[1] \in former')
    BY <1>3 DEF UserStep, Join, Follow, SetAlerts, Stop
  <2> QED
    BY <2>1, <2>2, StillShrinks DEF RowsComeAndGo
<1>4. ASSUME NEW e \in Events, SaveEvent(e) \/ Publish(e) \/ PublishCancelled(e)
      PROVE  Goal
  BY <1>0, <1>4, StillShrinks DEF SaveEvent, Publish, PublishCancelled
<1>5. CASE CloseBus \/ Shutdown \/ DrainExpires \/ Start \/ Tick
  BY <1>0, <1>5, StillShrinks DEF CloseBus, Shutdown, DrainExpires, Start, Tick
<1>6. CASE UNCHANGED vars
  BY <1>0, <1>6, StillShrinks DEF vars
<1> QED
  BY <1>1, <1>2, <1>3, <1>4, <1>5, <1>6 DEF Next

(***************************************************************************)
(* Attempts.  A goroutine that holds a row is an attempt about to be       *)
(* counted; with those, a row stays within one attempt of the limit, and   *)
(* a settled row is held by one goroutine at most.                         *)
(***************************************************************************)
Held(r) == (IF Holds("main", r) THEN 1 ELSE 0) + (IF Holds("retry", r) THEN 1 ELSE 0)

RowInv ==
  \A r \in Rows :
    /\ delivery[r].attempts + Held(r) <= MaxAttempts + 1
    /\ delivery[r].status \in Settled => Held(r) <= 1
    /\ delivery[r].status = "failed" => delivery[r].attempts >= MaxAttempts

\* A step preserves the invariant of the rows.
LEMMA RowStep ==
  ASSUME TypeInv, RowInv, [Next]_vars
  PROVE  RowInv'
<1>1. \A r \in Rows : /\ delivery[r] \in [status: Statuses, attempts: Nat]
                      /\ Held(r) \in 0..2
  BY DEF TypeInv, TypeOK, Held
<1>2. HoldsShrink => \A r \in Rows : Held(r)' \in 0..Held(r)
  BY DEF HoldsShrink, Held, Workers
<1>3. MaxAttempts \in Nat /\ MaxAttempts >= 1
  BY AlertsAssumption
<1>4. CASE RowsComeAndGo
  <2> SUFFICES ASSUME NEW r \in Rows
               PROVE  /\ delivery'[r].attempts + Held(r)' <= MaxAttempts + 1
                      /\ delivery'[r].status \in Settled => Held(r)' <= 1
                      /\ delivery'[r].status = "failed" => delivery'[r].attempts >= MaxAttempts
    BY DEF RowInv
  <2>1. Held(r)' \in 0..Held(r)
    BY <1>2, <1>4 DEF RowsComeAndGo
  <2>2. CASE delivery'[r] = delivery[r]
    BY <1>1, <1>3, <2>1, <2>2 DEF RowInv
  <2>3. CASE delivery'[r] = NoRow \/ delivery'[r] = NewRow
    BY <1>1, <1>3, <2>1, <2>3 DEF NoRow, NewRow, Settled
  <2> QED
    BY <1>4, <2>2, <2>3 DEF RowsComeAndGo
<1>5. ASSUME NEW w \in Workers, LoadStep(w)
      PROVE  RowInv'
  <2> SUFFICES ASSUME NEW r \in Rows
               PROVE  /\ delivery'[r].attempts + Held(r)' <= MaxAttempts + 1
                      /\ delivery'[r].status \in Settled => Held(r)' <= 1
                      /\ delivery'[r].status = "failed" => delivery'[r].attempts >= MaxAttempts
    BY DEF RowInv
  <2>1. Held(r)' \in 0..2 /\ delivery'[r] = delivery[r]
    BY <1>5 DEF LoadStep, Held
  <2>2. \/ Held(r)' <= Held(r)
        \/ delivery[r].status = "pending" /\ delivery[r].attempts < MaxAttempts
    BY <1>5 DEF LoadStep, Held, Workers
  <2> QED
    BY <1>1, <1>3, <2>1, <2>2 DEF RowInv, Settled
<1>6. ASSUME NEW w \in Workers, NEW s \in worker[w].rcpts, MarkStep(w, s)
      PROVE  RowInv'
  <2> DEFINE m == <<s, Event(w)>>
  <2> SUFFICES ASSUME NEW r \in Rows
               PROVE  /\ delivery'[r].attempts + Held(r)' <= MaxAttempts + 1
                      /\ delivery'[r].status \in Settled => Held(r)' <= 1
                      /\ delivery'[r].status = "failed" => delivery'[r].attempts >= MaxAttempts
    BY DEF RowInv
  <2>1. Held(r)' \in 0..Held(r)
    BY <1>2, <1>6 DEF MarkStep
  <2>2. PICK status \in {"pending", "sent", "skipped"} : MarkDelivery(s, Event(w), status)
    BY <1>6 DEF MarkStep, TypeInv, Sound, Goroutines
  <2>3. CASE delivery'[r] = delivery[r]
    BY <1>1, <1>3, <2>1, <2>3 DEF RowInv
  <2>4. CASE r = m /\ delivery'[r] = MarkedRow(delivery[r], status)
    <3>1. Held(r)' <= Held(r) - 1
      <4>1. Holds(w, r) /\ ~Holds(w, r)'
        BY <1>6, <2>4 DEF MarkStep
      <4>2. \A v \in Workers : Holds(v, r)' => Holds(v, r)
        BY <1>6 DEF MarkStep, HoldsShrink
      <4>3. CASE w = "main"
        BY <4>1, <4>2, <4>3 DEF Held, Workers
      <4>4. CASE w = "retry"
        BY <4>1, <4>2, <4>4 DEF Held, Workers
      <4> QED
        BY <4>3, <4>4 DEF Workers
    <3>2. Held(r)' <= 1
      BY <1>1, <2>1, <3>1
    <3>3. /\ delivery'[r].attempts = delivery[r].attempts + 1
          /\ delivery'[r].status = "failed" => delivery[r].attempts + 1 >= MaxAttempts
      BY <2>2, <2>4 DEF MarkedRow
    <3> QED
      BY <1>1, <1>3, <2>1, <3>1, <3>2, <3>3 DEF RowInv
  <2> QED
    BY <2>2, <2>3, <2>4 DEF MarkDelivery, TypeInv, TypeOK
<1> QED
  BY <1>4, <1>5, <1>6, StepKinds

\* The pipeline starts with no row and no row held.
LEMMA InitRows ==
  ASSUME Init
  PROVE  RowInv
<1>1. \A w \in Workers, r \in Rows : ~Holds(w, r)
  BY IdleIsSound DEF Init, Holds
<1>2. \A r \in Rows : Held(r) = 0 /\ delivery[r] = NoRow
  BY <1>1 DEF Held, Workers, Init
<1> QED
  BY <1>2, AlertsAssumption DEF RowInv, NoRow, Settled

\* No row is tried more than once past the limit, and none is given up before.
THEOREM AttemptsAreBounded == Spec => []AttemptsBounded
<1>1. Init => TypeInv /\ RowInv
  BY InitTypes, InitRows
<1>2. TypeInv /\ RowInv /\ [Next]_vars => TypeInv' /\ RowInv'
  BY TypeStep, RowStep
<1>3. TypeInv /\ RowInv => AttemptsBounded
  <2> SUFFICES ASSUME TypeInv, RowInv, NEW r \in Rows
               PROVE  delivery[r].attempts <= MaxAttempts + 1
    BY DEF AttemptsBounded, RowInv
  <2>1. Held(r) \in 0..2 /\ delivery[r].attempts \in Nat
    BY DEF Held, TypeInv, TypeOK
  <2> QED
    BY <2>1, AlertsAssumption DEF RowInv
<1> QED
  BY <1>1, <1>2, <1>3, PTL DEF Spec

\* Two goroutines never both hold a row that is settled.
THEOREM SettledRowsHeldOnce == Spec => []SettledRowHeldOnce
<1>1. Init => TypeInv /\ RowInv
  BY InitTypes, InitRows
<1>2. TypeInv /\ RowInv /\ [Next]_vars => TypeInv' /\ RowInv'
  BY TypeStep, RowStep
<1>3. RowInv => SettledRowHeldOnce
  <2> SUFFICES ASSUME RowInv, NEW r \in Rows, delivery[r].status \in Settled
               PROVE  Cardinality(Holders(r)) <= 1
    BY DEF SettledRowHeldOnce
  <2>1. ~(Holds("main", r) /\ Holds("retry", r))
    BY DEF RowInv, Held
  <2>2. Holders(r) \in {{}, {"main"}, {"retry"}}
    BY <2>1 DEF Holders, Workers
  <2>3. Cardinality({}) = 0
    BY FS_EmptySet
  <2>4. Cardinality({"main"}) = 1
    BY FS_Singleton
  <2>5. Cardinality({"retry"}) = 1
    BY FS_Singleton
  <2>6. CASE Holders(r) = {}
    BY <2>3, <2>6
  <2>7. CASE Holders(r) = {"main"}
    BY <2>4, <2>7
  <2>8. CASE Holders(r) = {"retry"}
    BY <2>5, <2>8
  <2> QED
    BY <2>2, <2>6, <2>7, <2>8
<1> QED
  BY <1>1, <1>2, <1>3, PTL DEF Spec

(***************************************************************************)
(* Truth of the table.  A copy is never taken back, and a goroutine that   *)
(* is about to write "sent" has seen its copy go.                          *)
(***************************************************************************)
ReceivedInv ==
  /\ SentWasReceived
  /\ \A w \in Workers, r \in Rows :
       /\ worker[w].pc = "mark" /\ worker[w].verdict = "sent"
       /\ IsNext(w, r[1]) /\ r[2] = Event(w)
       => received[r] >= 1

\* No step takes back a copy.
LEMMA ReceivedGrows ==
  ASSUME TypeInv, [Next]_vars
  PROVE  \A r \in Rows : received'[r] >= received[r]
<1>0. received \in [Rows -> Nat]
  BY DEF TypeInv, TypeOK
<1>1. ASSUME NEW w \in Workers, Send(w)
      PROVE  \A r \in Rows : received'[r] >= received[r]
  <2>1. PICK m : received' \in {received, [received EXCEPT ![m] = @ + 1]}
    <3>1. PICK s \in worker[w].rcpts, outcome \in SendOutcomes :
            LET got == outcome \in {"ok", "cut"}
                r   == <<s, Event(w)>>
            IN  received' = IF got THEN [received EXCEPT ![r] = @ + 1] ELSE received
      BY <1>1, Zenon DEF Send
    <3> QED
      BY <3>1, Zenon
  <2> QED
    BY <1>0, <2>1
<1>2. CASE received' = received
  BY <1>0, <1>2
<1>3. (\E w \in Workers : Send(w)) \/ received' = received
  BY DEF Next, WorkerStep, Sweep, Receive, FindSubscribers, CreateDeliveries,
         LoadRecipients, Skip, Record, Abandon, LeaveLoop, SaveEvent, Publish,
         PublishCancelled, CloseBus, Shutdown, DrainExpires, Exit, Crash, Start, Tick,
         UserStep, Join, Follow, SetAlerts, Stop, vars, history
<1> QED
  BY <1>1, <1>2, <1>3

\* Only a send brings a goroutine to its mark.
LEMMA OnlySendReachesMark ==
  ASSUME TypeInv, [Next]_vars, NEW v \in Workers, worker'[v].pc = "mark"
  PROVE  worker'[v] = worker[v] \/ Send(v)
<1>0. worker \in [Workers -> Sound]
  BY DEF TypeInv
<1>1. ASSUME NEW w \in Workers, WorkerStep(w)
      PROVE  worker'[v] = worker[v] \/ Send(v)
  <2>1. ASSUME NEW g, Become(w, g), g.pc # "mark"
        PROVE  worker'[v] = worker[v]
    BY <1>0, <2>1 DEF Become
  <2>2. Home(w).pc = "idle" /\ NextEvent(w).pc \in {"idle", "find"}
    BY <1>0, HomeIsSound, NextEventIsSound
  <2>3. worker[w] \in Goroutines
    BY <1>0 DEF Sound
  <2>4. CASE Sweep(w)
    <3>1. \A q : [Idle("run") EXCEPT !.pc = "find", !.todo = q].pc = "find"
      BY DEF Idle
    <3> QED
      BY <2>1, <2>2, <2>4, <3>1 DEF Sweep, GiveUp
  <2>5. CASE Receive(w)
    <3>1. \A q : [Idle("drain") EXCEPT !.pc = "find", !.todo = q].pc = "find"
      BY DEF Idle
    <3> QED
      BY <2>1, <2>5, <3>1 DEF Receive
  <2>6. CASE FindSubscribers(w)
    <3>1. [worker[w] EXCEPT !.pc = IF Interested = {} THEN "load" ELSE "create",
                            !.ids = Interested].pc # "mark"
      BY <2>3 DEF Goroutines
    <3> QED
      BY <2>1, <2>2, <2>6, <3>1 DEF FindSubscribers, GiveUp
  <2>7. CASE CreateDeliveries(w)
    <3>1. [worker[w] EXCEPT !.pc = "load", !.ids = {}].pc # "mark"
      BY <2>3 DEF Goroutines
    <3> QED
      BY <2>1, <2>2, <2>7, <3>1 DEF CreateDeliveries, GiveUp
  <2>8. CASE LoadRecipients(w)
    <3> DEFINE rcpts == PendingRecipients(Event(w))
               g == [worker[w] EXCEPT !.pc = "send", !.rcpts = rcpts,
                       !.muted = rcpts \ alertsOn, !.stale = IsStale(Event(w))]
    <3>1. g.pc # "mark"
      BY <2>3 DEF Goroutines
    <3>2. Become(w, NextEvent(w)) \/ GiveUp(w) \/ Become(w, g)
      BY <2>8 DEF LoadRecipients
    <3> QED
      BY <2>1, <2>2, <3>1, <3>2 DEF GiveUp
  <2>9. ASSUME NEW s, Advance(w, s)
        PROVE  worker'[v] = worker[v]
    <3>1. [worker[w] EXCEPT !.pc = "send", !.rcpts = @ \ {s},
             !.muted = @ \ {s}, !.verdict = "pending"].pc # "mark"
      BY <2>3 DEF Goroutines
    <3> QED
      BY <2>1, <2>2, <2>9, <3>1 DEF Advance
  <2>10. CASE Skip(w) \/ Record(w)
    BY <2>9, <2>10 DEF Skip, Record
  <2>11. CASE Send(w)
    BY <1>0, <2>11 DEF Send, Become
  <2>12. CASE Abandon(w)
    BY <2>1, <2>2, <2>12 DEF Abandon, GiveUp
  <2>13. CASE LeaveLoop(w)
    <3>1. [worker[w] EXCEPT !.pc = "stopped"].pc # "mark"
      BY <2>3 DEF Goroutines
    <3> QED
      BY <2>1, <2>13, <3>1 DEF LeaveLoop
  <2> QED
    BY <1>1, <2>4, <2>5, <2>6, <2>7, <2>8, <2>10, <2>11, <2>12, <2>13 DEF WorkerStep
<1>2. CASE Exit \/ Crash
  BY <1>2, IdleIsSound DEF Exit, Crash, Vanish
<1>3. CASE worker' = worker
  BY <1>3
<1>4. (\E w \in Workers : WorkerStep(w)) \/ Exit \/ Crash \/ worker' = worker
  BY DEF Next, SaveEvent, Publish, PublishCancelled, CloseBus, Shutdown, DrainExpires,
         Start, Tick, UserStep, Join, Follow, SetAlerts, Stop, vars
<1> QED
  BY <1>1, <1>2, <1>3, <1>4

\* A send that ends in the verdict "sent" has given its chat a copy.
LEMMA SentVerdictHasCopy ==
  ASSUME TypeInv, NEW w \in Workers, Send(w), NEW r \in Rows,
         worker'[w].verdict = "sent", IsNext(w, r[1])', r[2] = Event(w)'
  PROVE  received'[r] >= 1
<1>1. PICK s \in worker[w].rcpts, outcome \in SendOutcomes :
        /\ IsNext(w, s)
        /\ Become(w, [worker[w] EXCEPT !.pc = "mark", !.verdict = VerdictOf(outcome)])
        /\ outcome = "ok" => received' = [received EXCEPT ![<<s, Event(w)>>] = @ + 1]
  BY Zenon DEF Send
<1>2. worker[w] \in Goroutines /\ received \in [Rows -> Nat]
  BY DEF TypeInv, TypeOK, Sound
<1>3. /\ worker'[w].verdict = VerdictOf(outcome) /\ worker'[w].rcpts = worker[w].rcpts
      /\ worker'[w].todo = worker[w].todo
  BY <1>1, <1>2 DEF Become, Goroutines, TypeInv
<1>4. outcome = "ok"
  BY <1>3, AlertsAssumption DEF VerdictOf, Outcomes
<1>5. r = <<s, Event(w)>>
  <2>1. r[1] \in worker[w].rcpts /\ r[1] <= s /\ s <= r[1]
    BY <1>1, <1>3 DEF IsNext
  <2>2. r[1] \in Nat /\ s \in Nat
    BY <1>2, <2>1, AlertsAssumption DEF Goroutines
  <2> QED
    BY <1>3, <2>1, <2>2 DEF Event, Rows
<1> QED
  BY <1>1, <1>2, <1>4, <1>5

\* A step preserves the truth of the table.
LEMMA ReceivedStep ==
  ASSUME TypeInv, ReceivedInv, [Next]_vars
  PROVE  ReceivedInv'
<1>0. \A r \in Rows : received[r] \in Nat /\ received'[r] \in Nat /\ received'[r] >= received[r]
  BY ReceivedGrows, TypeStep DEF TypeInv, TypeOK
<1>1. ASSUME NEW r \in Rows, delivery'[r].status = "sent"
      PROVE  received'[r] >= 1
  <2>1. CASE delivery'[r] = delivery[r]
    BY <1>0, <1>1, <2>1 DEF ReceivedInv, SentWasReceived
  <2>2. CASE RowsComeAndGo
    BY <1>1, <2>1, <2>2 DEF RowsComeAndGo, NoRow, NewRow
  <2>3. ASSUME NEW w \in Workers, LoadStep(w)
        PROVE  received'[r] >= 1
    BY <2>1, <2>3 DEF LoadStep
  <2>4. ASSUME NEW w \in Workers, NEW s \in worker[w].rcpts, MarkStep(w, s),
               delivery'[r] # delivery[r]
        PROVE  received'[r] >= 1
    <3>1. PICK status : /\ MarkDelivery(s, Event(w), status)
                        /\ \/ status = "skipped"
                           \/ worker[w].pc = "mark" /\ status = worker[w].verdict
      BY <2>4 DEF MarkStep
    <3>2. r = <<s, Event(w)>> /\ delivery'[r] = MarkedRow(delivery[r], status)
      BY <2>4, <3>1 DEF MarkDelivery, TypeInv, TypeOK
    <3>3. status = "sent"
      BY <1>1, <3>2 DEF MarkedRow
    <3>4. worker[w].pc = "mark" /\ worker[w].verdict = "sent" /\ IsNext(w, s)
      BY <2>4, <3>1, <3>3 DEF MarkStep
    <3>5. r[1] = s /\ r[2] = Event(w)
      BY <3>2
    <3>6. received[r] >= 1
      BY <3>4, <3>5 DEF ReceivedInv
    <3> QED
      BY <1>0, <3>6
  <2> QED
    BY <2>1, <2>2, <2>3, <2>4, StepKinds
<1>2. ASSUME NEW w \in Workers, NEW r \in Rows, worker'[w].pc = "mark",
             worker'[w].verdict = "sent", IsNext(w, r[1])', r[2] = Event(w)'
      PROVE  received'[r] >= 1
  <2>1. CASE worker'[w] = worker[w]
    BY <1>0, <1>2, <2>1 DEF ReceivedInv, IsNext, Event
  <2>2. CASE Send(w)
    BY <1>2, <2>2, SentVerdictHasCopy
  <2> QED
    BY <1>2, <2>1, <2>2, OnlySendReachesMark
<1> QED
  BY <1>1, <1>2 DEF ReceivedInv, SentWasReceived

\* Whatever the interleaving, the crashes and the lost marks, a row that says
\* "sent" is an alert the chat has.
THEOREM SentMeansReceived == Spec => []SentWasReceived
<1>1. Init => TypeInv /\ ReceivedInv
  <2> SUFFICES ASSUME Init PROVE ReceivedInv
    BY InitTypes
  <2>1. \A w \in Workers : worker[w].pc = "idle"
    BY IdleIsSound DEF Init
  <2>2. \A r \in Rows : delivery[r].status = "none"
    BY DEF Init, NoRow
  <2> QED
    BY <2>1, <2>2 DEF ReceivedInv, SentWasReceived
<1>2. TypeInv /\ ReceivedInv /\ [Next]_vars => TypeInv' /\ ReceivedInv'
  BY TypeStep, ReceivedStep
<1>3. ReceivedInv => SentWasReceived
  BY DEF ReceivedInv
<1> QED
  BY <1>1, <1>2, <1>3, PTL DEF Spec

(***************************************************************************)
(* How a goroutine moves.  Only a load gives it recipients, only a send    *)
(* brings it to its mark, and the end of the work on a recipient takes     *)
(* that one, the next in order, from its hands.                            *)
(***************************************************************************)
Kept(w) ==
  /\ worker'[w].todo = worker[w].todo /\ worker'[w].stale = worker[w].stale
  /\ worker'[w].ctx = worker[w].ctx

LetsGo(w) == worker'[w].pc \notin {"send", "mark"}

Loads(w) ==
  /\ delivery' = delivery
  /\ worker'[w].pc = "send" /\ worker'[w].todo = worker[w].todo
  /\ worker'[w].ctx = worker[w].ctx
  /\ worker'[w].stale = IsStale(Event(w))
  /\ worker'[w].rcpts = PendingRecipients(Event(w))
  /\ worker'[w].muted = worker'[w].rcpts \ alertsOn
  /\ worker[w].pc = "load"

Sends(w) ==
  /\ Kept(w) /\ worker[w].pc = "send" /\ worker'[w].pc = "mark" /\ Live(w)
  /\ worker'[w].rcpts = worker[w].rcpts /\ worker'[w].muted = worker[w].muted

MovesOn(w, s) ==
  /\ Kept(w) /\ worker[w].pc \in {"send", "mark"} /\ worker'[w].pc = "send"
  /\ IsNext(w, s)
  /\ worker'[w].rcpts = worker[w].rcpts \ {s}
  /\ worker'[w].muted = worker[w].muted \ {s}

\* A goroutine that ends its work on a recipient goes on with the others, or lets go.
LEMMA AdvanceMoves ==
  ASSUME worker \in [Workers -> Sound], NEW w \in Workers, NEW s \in worker[w].rcpts,
         worker[w].pc \in {"send", "mark"}, IsNext(w, s), Advance(w, s)
  PROVE  LetsGo(w) \/ MovesOn(w, s)
<1>1. CASE worker[w].rcpts = {s}
  <2>1. worker'[w] = NextEvent(w) /\ NextEvent(w).pc \in {"idle", "find"}
    BY <1>1, NextEventIsSound DEF Advance, Become
  <2> QED
    BY <2>1 DEF LetsGo
<1>2. CASE worker[w].rcpts # {s}
  <2>1. worker'[w] = [worker[w] EXCEPT !.pc = "send", !.rcpts = @ \ {s},
                        !.muted = @ \ {s}, !.verdict = "pending"]
    BY <1>2 DEF Advance, Become
  <2>2. worker[w] \in Goroutines
    BY DEF Sound
  <2> QED
    BY <2>1, <2>2 DEF Goroutines, MovesOn, Kept
<1> QED
  BY <1>1, <1>2

\* What a step of the pipeline does to a goroutine.
LEMMA WorkerMoves ==
  ASSUME TypeInv, [Next]_vars, NEW v \in Workers
  PROVE  \/ worker'[v] = worker[v]
         \/ LetsGo(v)
         \/ LoadRecipients(v) /\ Loads(v)
         \/ Send(v) /\ Sends(v)
         \/ \E s \in worker[v].rcpts : MovesOn(v, s)
<1> DEFINE Goal == \/ worker'[v] = worker[v]
                   \/ LetsGo(v)
                   \/ LoadRecipients(v) /\ Loads(v)
                   \/ Send(v) /\ Sends(v)
                   \/ \E s \in worker[v].rcpts : MovesOn(v, s)
<1>0. worker \in [Workers -> Sound]
  BY DEF TypeInv
<1>1. ASSUME NEW w \in Workers, WorkerStep(w)
      PROVE  Goal
  <2>0. ASSUME NEW g, Become(w, g)
        PROVE  worker'[w] = g /\ (v # w => worker'[v] = worker[v])
    BY <1>0, <2>0 DEF Become
  <2>1. ASSUME NEW g, Become(w, g), g.pc \notin {"send", "mark"}
        PROVE  Goal
    BY <2>0, <2>1 DEF LetsGo
  <2>2. Home(w).pc = "idle" /\ NextEvent(w).pc \in {"idle", "find"}
    BY <1>0, HomeIsSound, NextEventIsSound
  <2>3. worker[w] \in Goroutines
    BY <1>0 DEF Sound
  <2>4. CASE Sweep(w)
    <3>1. \A q : [Idle("run") EXCEPT !.pc = "find", !.todo = q].pc = "find"
      BY DEF Idle
    <3> QED
      BY <2>1, <2>2, <2>4, <3>1 DEF Sweep, GiveUp
  <2>5. CASE Receive(w)
    <3>1. \A q : [Idle("drain") EXCEPT !.pc = "find", !.todo = q].pc = "find"
      BY DEF Idle
    <3> QED
      BY <2>1, <2>5, <3>1 DEF Receive
  <2>6. CASE FindSubscribers(w)
    <3>1. [worker[w] EXCEPT !.pc = IF Interested = {} THEN "load" ELSE "create",
                            !.ids = Interested].pc \notin {"send", "mark"}
      BY <2>3 DEF Goroutines
    <3> QED
      BY <2>1, <2>2, <2>6, <3>1 DEF FindSubscribers, GiveUp
  <2>7. CASE CreateDeliveries(w)
    <3>1. [worker[w] EXCEPT !.pc = "load", !.ids = {}].pc = "load"
      BY <2>3 DEF Goroutines
    <3> QED
      BY <2>1, <2>2, <2>7, <3>1 DEF CreateDeliveries, GiveUp
  <2>8. CASE LoadRecipients(w)
    <3> DEFINE rcpts == PendingRecipients(Event(w))
               g == [worker[w] EXCEPT !.pc = "send", !.rcpts = rcpts,
                       !.muted = rcpts \ alertsOn, !.stale = IsStale(Event(w))]
    <3>1. Become(w, NextEvent(w)) \/ GiveUp(w) \/ Become(w, g)
      BY <2>8 DEF LoadRecipients
    <3>2. CASE Become(w, g)
      <4>1. worker'[w] = g /\ (v # w => worker'[v] = worker[v])
        BY <2>0, <3>2
      <4>2. Loads(w)
        BY <2>3, <2>8, <4>1 DEF LoadRecipients, Loads, At, Goroutines
      <4> QED
        BY <2>8, <4>1, <4>2
    <3> QED
      BY <2>1, <2>2, <3>1, <3>2 DEF GiveUp
  <2>9. ASSUME NEW s \in worker[w].rcpts, IsNext(w, s), Advance(w, s),
               worker[w].pc \in {"send", "mark"}
        PROVE  Goal
    <3>1. LetsGo(w) \/ MovesOn(w, s)
      BY <1>0, <2>9, AdvanceMoves
    <3>2. v # w => worker'[v] = worker[v]
      BY <2>0, <2>9 DEF Advance
    <3> QED
      BY <2>9, <3>1, <3>2
  <2>10. CASE Skip(w) \/ Record(w)
    BY <2>9, <2>10 DEF Skip, Record, At
  <2>11. CASE Send(w)
    <3>1. PICK outcome \in SendOutcomes :
            Become(w, [worker[w] EXCEPT !.pc = "mark", !.verdict = VerdictOf(outcome)])
      BY <2>11 DEF Send
    <3>2. /\ worker'[w] = [worker[w] EXCEPT !.pc = "mark", !.verdict = VerdictOf(outcome)]
          /\ v # w => worker'[v] = worker[v]
      BY <2>0, <3>1
    <3>3. worker[w].pc = "send" /\ Live(w)
      BY <2>11 DEF Send, At
    <3>4. Sends(w)
      BY <2>3, <3>2, <3>3 DEF Sends, Kept, Goroutines
    <3> QED
      BY <2>11, <3>2, <3>4
  <2>12. CASE Abandon(w)
    BY <2>1, <2>2, <2>12 DEF Abandon, GiveUp
  <2>13. CASE LeaveLoop(w)
    <3>1. [worker[w] EXCEPT !.pc = "stopped"].pc = "stopped"
      BY <2>3 DEF Goroutines
    <3> QED
      BY <2>1, <2>13, <3>1 DEF LeaveLoop
  <2> QED
    BY <1>1, <2>4, <2>5, <2>6, <2>7, <2>8, <2>10, <2>11, <2>12, <2>13 DEF WorkerStep
<1>2. CASE Exit \/ Crash
  BY <1>2, IdleIsSound DEF Exit, Crash, Vanish, LetsGo
<1>3. CASE worker' = worker
  BY <1>3
<1>4. (\E w \in Workers : WorkerStep(w)) \/ Exit \/ Crash \/ worker' = worker
  BY DEF Next, SaveEvent, Publish, PublishCancelled, CloseBus, Shutdown, DrainExpires,
         Start, Tick, UserStep, Join, Follow, SetAlerts, Stop, vars
<1> QED
  BY <1>1, <1>2, <1>3, <1>4

(***************************************************************************)
(* The ledger.  A goroutine never works for a row that was not offered,    *)
(* unless its subscriber has left since, and nobody comes back.            *)
(***************************************************************************)
KnownInv ==
  /\ members \cap former = {}
  /\ \A w \in Workers, r \in Rows :
       Holds(w, r) => delivery[r].status # "none" \/ r[1] \in former

\* Rows held after a step were held before it, or have just been loaded.
LEMMA HoldsFate ==
  ASSUME TypeInv, [Next]_vars, NEW w \in Workers, NEW r \in Rows, Holds(w, r)'
  PROVE  \/ Holds(w, r)
         \/ /\ LoadRecipients(w) /\ Loads(w) /\ r[2] = Event(w)
            /\ r[1] \in PendingRecipients(Event(w))
<1>1. CASE worker'[w] = worker[w]
  BY <1>1 DEF Holds, Event
<1>2. CASE LetsGo(w)
  BY <1>2 DEF Holds, LetsGo
<1>3. CASE LoadRecipients(w) /\ Loads(w)
  BY <1>3 DEF Holds, Event, Loads
<1>4. CASE Sends(w)
  BY <1>4 DEF Holds, Event, Sends, Kept
<1>5. ASSUME NEW s \in worker[w].rcpts, MovesOn(w, s)
      PROVE  Holds(w, r)
  BY <1>5 DEF Holds, Event, MovesOn, Kept
<1> QED
  BY <1>1, <1>2, <1>3, <1>4, <1>5, WorkerMoves

\* A row disappears only with its subscriber.
LEMMA RowsFate ==
  ASSUME TypeInv, [Next]_vars, NEW r \in Rows, delivery'[r].status = "none"
  PROVE  delivery[r].status = "none" \/ r[1] \in former'
<1>1. CASE RowsComeAndGo
  BY <1>1 DEF RowsComeAndGo, NewRow
<1>2. ASSUME NEW w \in Workers, LoadStep(w)
      PROVE  delivery[r].status = "none"
  BY <1>2 DEF LoadStep
<1>3. ASSUME NEW w \in Workers, NEW s \in worker[w].rcpts, MarkStep(w, s)
      PROVE  delivery[r].status = "none"
  <2>1. PICK status \in {"pending", "sent", "skipped"} : MarkDelivery(s, Event(w), status)
    BY <1>3 DEF MarkStep, TypeInv, Sound, Goroutines
  <2>2. MarkedRow(delivery[r], status).status # "none"
    BY DEF MarkedRow
  <2> QED
    BY <2>1, <2>2 DEF MarkDelivery, TypeInv, TypeOK
<1> QED
  BY <1>1, <1>2, <1>3, StepKinds

\* Who has left has left, and a member has not.
LEMMA LeaversStayAway ==
  ASSUME members \cap former = {}, [Next]_vars
  PROVE  former \subseteq former' /\ members' \cap former' = {}
<1>1. CASE UNCHANGED <<members, former>>
  BY <1>1
<1>2. ASSUME NEW s \in Fickle, Join(s) \/ Stop(s)
      PROVE  former \subseteq former' /\ members' \cap former' = {}
  BY <1>2 DEF Join, Stop
<1>3. UNCHANGED <<members, former>> \/ \E s \in Fickle : Join(s) \/ Stop(s)
  BY DEF Next, WorkerStep, Sweep, Receive, FindSubscribers, CreateDeliveries, Send,
         LoadRecipients, Skip, Record, Abandon, LeaveLoop, SaveEvent, Publish,
         PublishCancelled, CloseBus, Shutdown, DrainExpires, Exit, Crash, Start, Tick,
         UserStep, Follow, SetAlerts, vars, people
<1> QED
  BY <1>1, <1>2, <1>3

\* A step preserves what is known of the rows at work.
LEMMA KnownStep ==
  ASSUME TypeInv, KnownInv, [Next]_vars
  PROVE  KnownInv'
<1>1. former \subseteq former' /\ members' \cap former' = {}
  BY LeaversStayAway DEF KnownInv
<1>2. ASSUME NEW w \in Workers, NEW r \in Rows, Holds(w, r)'
      PROVE  delivery'[r].status # "none" \/ r[1] \in former'
  <2>1. CASE Holds(w, r)
    BY <1>1, <2>1, RowsFate DEF KnownInv
  <2>2. CASE Loads(w) /\ r[2] = Event(w) /\ r[1] \in PendingRecipients(Event(w))
    <3>1. r = <<r[1], Event(w)>>
      BY <2>2 DEF Rows
    <3> QED
      BY <2>2, <3>1 DEF PendingRecipients, Loads
  <2> QED
    BY <1>2, <2>1, <2>2, HoldsFate
<1> QED
  BY <1>1, <1>2 DEF KnownInv

\* Marking a row concludes it in the ledger, or finds it withdrawn.
LEMMA MarkConcludes ==
  ASSUME TypeInv, ReceivedInv, UNCHANGED <<received, former>>,
         NEW w \in Workers, NEW s \in worker[w].rcpts, NEW status,
         IsNext(w, s), worker[w].pc \in {"send", "mark"},
         \/ status = "skipped"
         \/ worker[w].pc = "mark" /\ status = worker[w].verdict,
         Mark(w, s, status)
  PROVE  [Ledger!LedgerNext]_(Ledger!ledger)
<1> DEFINE r == <<s, Event(w)>>
           o == MarkedRow(delivery[r], status).status
<1>0. worker[w] \in Sound /\ delivery \in [Rows -> [status: Statuses, attempts: Nat]]
  BY DEF TypeInv, TypeOK
<1>1. r \in Rows
  BY <1>0 DEF Sound, Goroutines, Event, Rows
<1>2. CASE delivery' = delivery
  BY <1>2 DEF Ledger!ledger
<1>3. CASE /\ delivery[r].status # "none"
           /\ delivery' = [delivery EXCEPT ![r] = MarkedRow(@, status)]
  <2>1. status \in {"pending", "sent", "skipped"}
    BY <1>0 DEF Sound, Goroutines
  <2>2. o \in {"pending", "sent", "skipped", "failed"}
    BY <2>1 DEF MarkedRow
  <2>3. o = "sent" => received[r] >= 1
    <3>1. o = "sent" => status = "sent"
      BY DEF MarkedRow
    <3>2. r[1] = s /\ r[2] = Event(w)
      OBVIOUS
    <3>3. status = "sent" => worker[w].pc = "mark" /\ worker[w].verdict = "sent"
      OBVIOUS
    <3> QED
      BY <1>1, <3>1, <3>2, <3>3 DEF ReceivedInv
  <2>4. [q \in Rows |-> delivery'[q].status]
          = [[q \in Rows |-> delivery[q].status] EXCEPT ![r] = o]
    BY <1>0, <1>1, <1>3
  <2>5. PICK q \in Ledger!Rows, p \in {"pending", "sent", "skipped", "failed"} :
          q = r /\ p = o
    BY <1>1, <2>2 DEF Ledger!Rows, Rows
  <2>6. Ledger!Conclude(q, p)
    BY <1>1, <1>3, <2>3, <2>4, <2>5 DEF Ledger!Conclude, Ledger!Rows, Rows
  <2> QED
    BY <2>6, Zenon DEF Ledger!LedgerNext
<1>4. delivery' = delivery \/ (/\ delivery[r].status # "none"
                               /\ delivery' = [delivery EXCEPT ![r] = MarkedRow(@, status)])
  BY DEF Mark, MarkDelivery
<1> QED
  BY <1>2, <1>3, <1>4

\* A send delivers a copy of a row the ledger has offered, or withdrawn.
LEMMA SendDelivers ==
  ASSUME TypeInv, KnownInv, NEW w \in Workers, Send(w)
  PROVE  [Ledger!LedgerNext]_(Ledger!ledger)
<1>1. PICK s \in worker[w].rcpts, outcome \in SendOutcomes :
        received' = IF outcome \in {"ok", "cut"}
                    THEN [received EXCEPT ![<<s, Event(w)>>] = @ + 1] ELSE received
  BY Zenon DEF Send
<1>2. UNCHANGED <<delivery, former>> /\ worker[w].pc = "send"
  BY DEF Send, At, people
<1>3. CASE received' = received
  BY <1>2, <1>3 DEF Ledger!ledger
<1>4. CASE received' = [received EXCEPT ![<<s, Event(w)>>] = @ + 1]
  <2> DEFINE r == <<s, Event(w)>>
  <2>1. r \in Rows
    BY <1>2 DEF TypeInv, Sound, Goroutines, Event, Rows
  <2>2. Holds(w, r)
    BY <1>2 DEF Holds
  <2>3. delivery[r].status # "none" \/ r[1] \in former
    BY <2>1, <2>2 DEF KnownInv
  <2>4. Ledger!Deliver(r)
    BY <1>2, <1>4, <2>1, <2>3 DEF Ledger!Deliver, Ledger!Rows, Rows
  <2> QED
    BY <2>1, <2>4 DEF Ledger!LedgerNext, Ledger!Rows, Rows
<1> QED
  BY <1>1, <1>3, <1>4

\* Every step of the pipeline is a step of the ledger, or leaves it alone.
LEMMA LedgerStep ==
  ASSUME TypeInv, ReceivedInv, KnownInv, [Next]_vars
  PROVE  [Ledger!LedgerNext]_(Ledger!ledger)
<1>1. CASE UNCHANGED <<delivery, received, former>>
  BY <1>1 DEF Ledger!ledger
<1>2. ASSUME NEW w \in Workers, CreateDeliveries(w), worker[w].ids \subseteq members,
             InsertDeliveries(worker[w].ids, Event(w)), worker[w].pc = "create"
      PROVE  [Ledger!LedgerNext]_(Ledger!ledger)
  <2> DEFINE S == worker[w].ids
             e == Event(w)
  <2>1. S \in SUBSET Subs /\ e \in Events
    BY <1>2 DEF TypeInv, Sound, Goroutines, Event
  <2>2. S \cap former = {}
    BY <1>2 DEF KnownInv
  <2>3. [r \in Rows |-> delivery'[r].status]
          = [r \in Rows |-> IF r[1] \in S /\ r[2] = e
                               /\ [q \in Rows |-> delivery[q].status][r] = "none"
                            THEN "pending" ELSE [q \in Rows |-> delivery[q].status][r]]
    BY <1>2 DEF InsertDeliveries, NewRow
  <2>4. UNCHANGED <<received, former>>
    BY <1>2 DEF CreateDeliveries, history, people
  <2>5. PICK T \in SUBSET Subs, f \in Events : T = S /\ f = e
    BY <2>1
  <2>6. Ledger!Offer(T, f)
    BY <2>2, <2>3, <2>4, <2>5 DEF Ledger!Offer, Ledger!Rows, Rows
  <2> QED
    BY <2>6, Zenon DEF Ledger!LedgerNext
<1>3. ASSUME NEW w \in Workers, Skip(w) \/ Record(w)
      PROVE  [Ledger!LedgerNext]_(Ledger!ledger)
  <2>1. UNCHANGED <<received, former>>
    BY <1>3 DEF Skip, Record, history, people
  <2>2. PICK s \in worker[w].rcpts : \E status :
          /\ IsNext(w, s) /\ worker[w].pc \in {"send", "mark"}
          /\ \/ status = "skipped"
             \/ worker[w].pc = "mark" /\ status = worker[w].verdict
          /\ Mark(w, s, status)
    BY <1>3 DEF Skip, Record, At
  <2>3. PICK status :
          /\ IsNext(w, s) /\ worker[w].pc \in {"send", "mark"}
          /\ \/ status = "skipped"
             \/ worker[w].pc = "mark" /\ status = worker[w].verdict
          /\ Mark(w, s, status)
    BY <2>2
  <2> QED
    BY <2>1, <2>3, MarkConcludes
<1>4. ASSUME NEW s \in Fickle, Stop(s)
      PROVE  [Ledger!LedgerNext]_(Ledger!ledger)
  <2>1. s \in Subs
    BY AlertsAssumption
  <2>2. [r \in Rows |-> delivery'[r].status]
          = [r \in Rows |-> IF r[1] = s THEN "none"
                            ELSE [q \in Rows |-> delivery[q].status][r]]
    BY <1>4 DEF Stop, NoRow
  <2>3. Ledger!Withdraw(s)
    BY <1>4, <2>2 DEF Stop, history, Ledger!Withdraw, Ledger!Rows, Rows
  <2> QED
    BY <2>1, <2>3 DEF Ledger!LedgerNext
<1>5. \/ UNCHANGED <<delivery, received, former>>
      \/ \E w \in Workers : /\ CreateDeliveries(w) /\ worker[w].ids \subseteq members
                            /\ InsertDeliveries(worker[w].ids, Event(w))
                            /\ worker[w].pc = "create"
      \/ \E w \in Workers : Skip(w) \/ Record(w) \/ Send(w)
      \/ \E s \in Fickle : Stop(s)
  <2>1. ASSUME NEW w \in Workers, CreateDeliveries(w)
        PROVE  \/ UNCHANGED <<delivery, received, former>>
               \/ /\ CreateDeliveries(w) /\ worker[w].ids \subseteq members
                  /\ InsertDeliveries(worker[w].ids, Event(w))
                  /\ worker[w].pc = "create"
    BY <2>1 DEF CreateDeliveries, At, history, people
  <2>2. ASSUME NEW w \in Workers, WorkerStep(w)
        PROVE  \/ UNCHANGED <<delivery, received, former>>
               \/ Skip(w) \/ Record(w) \/ Send(w) \/ CreateDeliveries(w)
    BY <2>2 DEF WorkerStep, Sweep, Receive, FindSubscribers, LoadRecipients, Abandon,
                LeaveLoop, history, people
  <2>3. ASSUME NEW s \in Fickle, UserStep(s)
        PROVE  UNCHANGED <<delivery, received, former>> \/ Stop(s)
    BY <2>3 DEF UserStep, Join, Follow, SetAlerts, history
  <2>4. ASSUME NEW e \in Events, SaveEvent(e) \/ Publish(e) \/ PublishCancelled(e)
        PROVE  UNCHANGED <<delivery, received, former>>
    BY <2>4 DEF SaveEvent, Publish, PublishCancelled, history, people
  <2>5. ASSUME CloseBus \/ Shutdown \/ DrainExpires \/ Exit \/ Crash \/ Start \/ Tick
        PROVE  UNCHANGED <<delivery, received, former>>
    BY <2>5 DEF CloseBus, Shutdown, DrainExpires, Exit, Crash, Start, Tick, history, people
  <2> QED
    BY <2>1, <2>2, <2>3, <2>4, <2>5 DEF Next, vars, history, people
<1> QED
  BY <1>1, <1>2, <1>3, <1>4, <1>5, SendDelivers

\* Before anything happens nobody has left and nothing is held.
LEMMA InitKnown ==
  ASSUME Init
  PROVE  KnownInv /\ ReceivedInv
<1>1. \A w \in Workers : worker[w].pc = "idle"
  BY IdleIsSound DEF Init
<1>2. \A r \in Rows : delivery[r].status = "none"
  BY DEF Init, NoRow
<1> QED
  BY <1>1, <1>2 DEF KnownInv, ReceivedInv, SentWasReceived, Holds, Init

\* With two goroutines, lost marks, crashes and users who leave, the pipeline
\* does to each row only what the ledger of alerts promises.
THEOREM PipelineKeepsTheLedger == Spec => ImplementsLedger
<1>1. Init => TypeInv /\ ReceivedInv /\ KnownInv
  BY InitTypes, InitKnown
<1>2. TypeInv /\ ReceivedInv /\ KnownInv /\ [Next]_vars
        => TypeInv' /\ ReceivedInv' /\ KnownInv'
  BY TypeStep, ReceivedStep, KnownStep
<1>3. Init => Ledger!LedgerInit
  <2> SUFFICES ASSUME Init PROVE Ledger!LedgerInit
    OBVIOUS
  <2>1. [r \in Rows |-> delivery[r].status] = [r \in Rows |-> "none"]
    BY DEF Init, NoRow
  <2> QED
    BY <2>1 DEF Init, Ledger!LedgerInit, Ledger!Rows, Rows
<1>4. TypeInv /\ ReceivedInv /\ KnownInv /\ [Next]_vars
        => [Ledger!LedgerNext]_(Ledger!ledger)
  BY LedgerStep
<1> QED
  BY <1>1, <1>2, <1>3, <1>4, PTL DEF Spec, ImplementsLedger, Ledger!LedgerSpec

(***************************************************************************)
(* Eligibility.  A subscriber with a row, or on a list a goroutine holds,  *)
(* asked for alerts after the event was saved, and the event in hand is    *)
(* one that alerts.                                                        *)
(***************************************************************************)
Working(w) == worker[w].pc \notin {"idle", "stopped"}

EligibleInv ==
  /\ \A s \in Interested, e \in saved : <<s, e>> \in eligible
  /\ unpublished \subseteq saved /\ \A i \in DOMAIN queue : queue[i] \in saved
  /\ \A w \in Workers :
       /\ Working(w) =>
            \A i \in DOMAIN worker[w].todo : worker[w].todo[i] \in saved \ silent
       /\ worker[w].pc = "create" =>
            \A s \in worker[w].ids : <<s, Event(w)>> \in eligible
       /\ worker[w].pc \in {"send", "mark"} =>
            /\ \A s \in worker[w].rcpts : <<s, Event(w)>> \in eligible
            /\ ~worker[w].stale => lag[Event(w)] <= Window
  /\ \A r \in Rows : delivery[r].status # "none" => r \in eligible
  /\ \A r \in Rows : received[r] > 0 =>
       r \in eligible /\ r[2] \in saved \ silent /\ lag[r[2]] <= Window

\* Where an event in the hands of a goroutine comes from.
Source(v, e) ==
  \/ Working(v) /\ \E j \in DOMAIN worker[v].todo : e = worker[v].todo[j]
  \/ NeedsDelivery(e)
  \/ queue # <<>> /\ e = Head(queue) /\ e \notin silent

\* What a saved event is, and who asked for it, does not change.
LEMMA EventsStay ==
  ASSUME TypeInv, [Next]_vars
  PROVE  /\ saved \subseteq saved' /\ eligible \subseteq eligible'
         /\ \A e \in saved : /\ e \in silent' <=> e \in silent
                             /\ lag'[e] = lag[e]
<1> DEFINE Goal == /\ saved \subseteq saved' /\ eligible \subseteq eligible'
                   /\ \A e \in saved : /\ e \in silent' <=> e \in silent
                                       /\ lag'[e] = lag[e]
<1>1. ASSUME NEW e \in Events, SaveEvent(e)
      PROVE  Goal
  BY <1>1 DEF SaveEvent, TypeInv, TypeOK
<1>2. ASSUME NEW s \in Fickle, Follow(s) \/ SetAlerts(s)
      PROVE  Goal
  BY <1>2 DEF Follow, SetAlerts, NoteWish, events
<1>3. CASE UNCHANGED <<saved, silent, lag, eligible>>
  BY <1>3
<1>4. \/ \E e \in Events : SaveEvent(e)
      \/ \E s \in Fickle : Follow(s) \/ SetAlerts(s)
      \/ UNCHANGED <<saved, silent, lag, eligible>>
  BY DEF Next, WorkerStep, Sweep, Receive, FindSubscribers, CreateDeliveries, Send,
         LoadRecipients, Skip, Record, Abandon, LeaveLoop, Publish, events, history,
         PublishCancelled, CloseBus, Shutdown, DrainExpires, Exit, Crash, Start, Tick,
         UserStep, Join, Stop, vars
<1> QED
  BY <1>1, <1>2, <1>3, <1>4

\* The events a goroutine works on are those it had, or come from the table or the
\* bus; the subscribers it is about to give rows are those the table has named.
LEMMA WorkFate ==
  ASSUME TypeInv, [Next]_vars, NEW v \in Workers
  PROVE  /\ Working(v)' => \A i \in DOMAIN worker'[v].todo : Source(v, worker'[v].todo[i])
         /\ worker'[v].pc = "create" =>
              \/ worker'[v] = worker[v]
              \/ /\ worker[v].pc = "find" /\ worker'[v].ids = Interested
                 /\ worker'[v].todo = worker[v].todo
<1> DEFINE Goal ==
      /\ Working(v)' => \A i \in DOMAIN worker'[v].todo : Source(v, worker'[v].todo[i])
      /\ worker'[v].pc = "create" =>
           \/ worker'[v] = worker[v]
           \/ /\ worker[v].pc = "find" /\ worker'[v].ids = Interested
              /\ worker'[v].todo = worker[v].todo
<1>0. worker \in [Workers -> Sound] /\ worker[v] \in Goroutines
  BY DEF TypeInv, TypeOK
<1>1. CASE worker'[v] = worker[v]
  BY <1>1 DEF Working, Source
<1>2. CASE worker'[v].pc = "idle"
  BY <1>2 DEF Working
<1>3. CASE Working(v) /\ worker'[v].todo = worker[v].todo /\ worker'[v].pc # "create"
  BY <1>3 DEF Source
<1>4. CASE worker'[v] = NextEvent(v) /\ worker[v].pc \in {"load", "send", "mark"}
  <2>1. CASE Len(worker[v].todo) <= 1
    BY <1>2, <1>4, <2>1, HomeIsSound DEF NextEvent
  <2>2. CASE ~(Len(worker[v].todo) <= 1)
    <3> DEFINE q == worker[v].todo
    <3>1. q \in Seq(Events) /\ Len(q) > 1
      BY <1>0, <2>2 DEF Goroutines
    <3>2. worker'[v].pc = "find" /\ worker'[v].todo = Tail(q)
      BY <1>4, <2>2 DEF NextEvent, Idle
    <3>3. \A i \in DOMAIN Tail(q) : i + 1 \in DOMAIN q /\ Tail(q)[i] = q[i + 1]
      BY <3>1
    <3>4. Working(v)
      BY <1>4 DEF Working
    <3> QED
      BY <3>2, <3>3, <3>4 DEF Source
  <2> QED
    BY <2>1, <2>2
<1>5. ASSUME NEW w \in Workers, WorkerStep(w)
      PROVE  Goal
  <2>0. ASSUME NEW g, Become(w, g)
        PROVE  worker'[w] = g /\ (v # w => worker'[v] = worker[v])
    BY <1>0, <2>0 DEF Become
  <2>1. GiveUp(w) => Goal
    BY <1>1, <1>2, <2>0, HomeIsSound DEF GiveUp
  <2>2. CASE Sweep(w)
    <3>1. ASSUME NEW q \in ByOccurrence({e \in Events : NeedsDelivery(e)}), q # <<>>,
                 Become(w, [Idle("run") EXCEPT !.pc = "find", !.todo = q])
          PROVE  Goal
      <4>1. \A i \in DOMAIN q : NeedsDelivery(q[i])
        <5>1. Cardinality({e \in Events : NeedsDelivery(e)}) \in Nat
          BY AlertsAssumption, FS_Subset, FS_CardinalityType
        <5> QED
          BY <5>1 DEF ByOccurrence, SetToSeqs
      <4>2. CASE v = w
        <5>1. worker'[v].pc = "find" /\ worker'[v].todo = q
          <6>1. worker'[v] = [Idle("run") EXCEPT !.pc = "find", !.todo = q]
            BY <2>0, <3>1, <4>2
          <6> QED
            BY <6>1 DEF Idle
        <5> QED
          BY <4>1, <5>1 DEF Source
      <4> QED
        BY <1>1, <2>0, <3>1, <4>2
    <3>2. Become(w, Home(w)) => Goal
      BY <2>1 DEF GiveUp
    <3> QED
      BY <2>1, <2>2, <3>1, <3>2 DEF Sweep
  <2>3. CASE Receive(w)
    <3>1. CASE Become(w, [Idle("drain") EXCEPT !.pc = "find", !.todo = <<Head(queue)>>])
               /\ Head(queue) \notin silent
      <4>1. CASE v = w
        <5>1. worker'[v].pc = "find" /\ worker'[v].todo = <<Head(queue)>>
          <6>1. worker'[v] = [Idle("drain") EXCEPT !.pc = "find", !.todo = <<Head(queue)>>]
            BY <2>0, <3>1, <4>1
          <6> QED
            BY <6>1 DEF Idle
        <5> QED
          BY <2>3, <3>1, <5>1 DEF Source, Receive
      <4> QED
        BY <1>1, <2>0, <3>1, <4>1
    <3> QED
      BY <1>1, <2>3, <3>1 DEF Receive
  <2>4. CASE FindSubscribers(w)
    <3> DEFINE g == [worker[w] EXCEPT !.pc = IF Interested = {} THEN "load" ELSE "create",
                                      !.ids = Interested]
    <3>1. CASE Become(w, g) /\ v = w
      <4>1. /\ worker'[v].pc \in {"load", "create"} /\ worker'[v].ids = Interested
            /\ worker'[v].todo = worker[v].todo /\ worker[v].pc = "find"
        <5>1. worker'[v] = g
          BY <2>0, <3>1
        <5> QED
          BY <1>0, <2>4, <3>1, <5>1 DEF Goroutines, FindSubscribers, At
      <4> QED
        BY <4>1 DEF Working, Source
    <3>2. Become(w, g) \/ GiveUp(w)
      BY <2>4 DEF FindSubscribers
    <3> QED
      BY <1>1, <2>0, <2>1, <3>1, <3>2
  <2>5. CASE CreateDeliveries(w)
    <3> DEFINE g == [worker[w] EXCEPT !.pc = "load", !.ids = {}]
    <3>1. CASE Become(w, g) /\ v = w
      <4>1. /\ worker'[v].pc = "load" /\ worker'[v].todo = worker[v].todo
            /\ worker[v].pc = "create"
        <5>1. worker'[v] = g
          BY <2>0, <3>1
        <5> QED
          BY <1>0, <2>5, <3>1, <5>1 DEF Goroutines, CreateDeliveries, At
      <4> QED
        BY <4>1 DEF Working, Source
    <3>2. Become(w, g) \/ GiveUp(w)
      BY <2>5 DEF CreateDeliveries
    <3> QED
      BY <1>1, <2>0, <2>1, <3>1, <3>2
  <2>6. CASE LoadRecipients(w)
    <3> DEFINE rcpts == PendingRecipients(Event(w))
               g == [worker[w] EXCEPT !.pc = "send", !.rcpts = rcpts,
                       !.muted = rcpts \ alertsOn, !.stale = IsStale(Event(w))]
    <3>0. worker[w].pc = "load"
      BY <2>6 DEF LoadRecipients, At
    <3>1. CASE Become(w, g) /\ v = w
      <4>1. worker'[v].pc = "send" /\ worker'[v].todo = worker[v].todo
        <5>1. worker'[v] = g
          BY <2>0, <3>1
        <5> QED
          BY <1>0, <3>1, <5>1 DEF Goroutines
      <4> QED
        BY <1>3, <3>0, <3>1, <4>1 DEF Working
    <3>2. CASE Become(w, NextEvent(w)) /\ v = w
      BY <1>4, <2>0, <3>0, <3>2
    <3>3. Become(w, g) \/ Become(w, NextEvent(w)) \/ GiveUp(w)
      BY <2>6 DEF LoadRecipients
    <3> QED
      BY <1>1, <2>0, <2>1, <3>1, <3>2, <3>3
  <2>7. CASE Skip(w) \/ Record(w)
    <3>1. PICK s \in worker[w].rcpts : IsNext(w, s) /\ Advance(w, s)
      BY <2>7 DEF Skip, Record
    <3>2. worker[w].pc \in {"send", "mark"}
      BY <2>7 DEF Skip, Record, At
    <3>3. CASE Become(w, NextEvent(w)) /\ v = w
      BY <1>4, <2>0, <3>2, <3>3
    <3>4. CASE ~Become(w, NextEvent(w)) /\ v = w
      <4>1. MovesOn(w, s) \/ LetsGo(w)
        BY <1>0, <3>1, <3>2, AdvanceMoves
      <4>2. Become(w, [worker[w] EXCEPT !.pc = "send", !.rcpts = @ \ {s},
                                   !.muted = @ \ {s}, !.verdict = "pending"])
        BY <3>1, <3>4 DEF Advance
      <4>3. worker'[v].pc = "send" /\ worker'[v].todo = worker[v].todo
        <5>1. worker'[v] = [worker[w] EXCEPT !.pc = "send", !.rcpts = @ \ {s},
                              !.muted = @ \ {s}, !.verdict = "pending"]
          BY <2>0, <3>4, <4>2
        <5> QED
          BY <1>0, <3>4, <5>1 DEF Goroutines
      <4> QED
        BY <1>3, <3>2, <3>4, <4>3 DEF Working
    <3>5. v # w => worker'[v] = worker[v]
      BY <2>0, <3>1 DEF Advance
    <3> QED
      BY <1>1, <3>3, <3>4, <3>5
  <2>8. CASE Send(w)
    <3>1. PICK outcome \in SendOutcomes :
            Become(w, [worker[w] EXCEPT !.pc = "mark", !.verdict = VerdictOf(outcome)])
      BY <2>8 DEF Send
    <3>2. CASE v = w
      <4>1. /\ worker'[v].pc = "mark" /\ worker'[v].todo = worker[v].todo
            /\ worker[v].pc = "send"
        <5>1. worker'[v] = [worker[w] EXCEPT !.pc = "mark", !.verdict = VerdictOf(outcome)]
          BY <2>0, <3>1, <3>2
        <5> QED
          BY <1>0, <2>8, <3>2, <5>1 DEF Goroutines, Send, At
      <4> QED
        BY <1>3, <4>1 DEF Working
    <3> QED
      BY <1>1, <2>0, <3>1, <3>2
  <2>9. CASE Abandon(w)
    BY <2>1, <2>9 DEF Abandon
  <2>10. CASE LeaveLoop(w)
    <3>1. v = w => worker'[v].pc = "stopped"
      BY <1>0, <2>0, <2>10 DEF LeaveLoop, Goroutines
    <3> QED
      BY <1>1, <2>0, <2>10, <3>1 DEF LeaveLoop, Working
  <2> QED
    BY <1>5, <2>2, <2>3, <2>4, <2>5, <2>6, <2>7, <2>8, <2>9, <2>10 DEF WorkerStep
<1>6. CASE Exit \/ Crash
  BY <1>2, <1>6, IdleIsSound DEF Exit, Crash, Vanish
<1>7. (\E w \in Workers : WorkerStep(w)) \/ Exit \/ Crash \/ worker' = worker
  BY DEF Next, SaveEvent, Publish, PublishCancelled, CloseBus, Shutdown, DrainExpires,
         Start, Tick, UserStep, Join, Follow, SetAlerts, Stop, vars
<1> QED
  BY <1>1, <1>5, <1>6, <1>7

\* An event that alerts stays one, and an event in hand is one of those saved.
LEMMA WorkStaysEligible ==
  ASSUME TypeInv, EligibleInv, [Next]_vars, NEW w \in Workers
  PROVE  /\ Working(w)' => \A i \in DOMAIN worker'[w].todo :
                             worker'[w].todo[i] \in saved' \ silent'
         /\ worker'[w].pc = "create" =>
              \A s \in worker'[w].ids : <<s, Event(w)'>> \in eligible'
<1>1. \A e : Source(w, e) => e \in saved \ silent
  <2>1. queue # <<>> => Head(queue) \in saved
    <3>1. queue # <<>> => 1 \in DOMAIN queue /\ Head(queue) = queue[1]
      BY DEF TypeInv, TypeOK
    <3> QED
      BY <3>1 DEF EligibleInv
  <2>2. \A e : NeedsDelivery(e) => e \in saved \ silent
    BY DEF NeedsDelivery
  <2>3. Working(w) => \A j \in DOMAIN worker[w].todo : worker[w].todo[j] \in saved \ silent
    BY DEF EligibleInv
  <2> QED
    BY <2>1, <2>2, <2>3 DEF Source
<1>2. \A e \in saved \ silent : e \in saved' \ silent'
  BY EventsStay
<1>3. \A i \in DOMAIN worker[w].todo : Working(w) => worker[w].todo[i] \in saved
  BY DEF EligibleInv
<1>4. CASE worker'[w].pc = "create" /\ worker'[w] = worker[w]
  BY <1>1, <1>2, <1>4, WorkFate, EventsStay DEF EligibleInv, Event
<1>5. CASE /\ worker[w].pc = "find" /\ worker'[w].ids = Interested
           /\ worker'[w].todo = worker[w].todo
  <2>1. worker[w].todo \in Seq(Events) /\ worker[w].todo # <<>>
    BY <1>5 DEF TypeInv, Sound, Goroutines
  <2>2. Event(w)' = Event(w) /\ Event(w) \in saved
    BY <1>3, <1>5, <2>1 DEF Event, Working
  <2>3. \A s \in Interested : <<s, Event(w)>> \in eligible
    BY <2>2 DEF EligibleInv
  <2> QED
    BY <1>1, <1>2, <1>5, <2>2, <2>3, WorkFate, EventsStay
<1> QED
  BY <1>1, <1>2, <1>4, <1>5, WorkFate

\* The event in hand is one of the work.
LEMMA EventInHand ==
  ASSUME TypeInv, NEW w \in Workers, Working(w)
  PROVE  Event(w) \in Events /\ 1 \in DOMAIN worker[w].todo /\ Event(w) = worker[w].todo[1]
<1>1. worker[w].todo \in Seq(Events) /\ worker[w].todo # <<>>
  BY DEF Working, TypeInv, Sound, Goroutines
<1> QED
  BY <1>1 DEF Event

\* The recipients of an event in hand asked for it, and it was not too old.
LEMMA RecipientsStayEligible ==
  ASSUME TypeInv, EligibleInv, [Next]_vars, NEW w \in Workers,
         worker'[w].pc \in {"send", "mark"}
  PROVE  /\ \A s \in worker'[w].rcpts : <<s, Event(w)'>> \in eligible'
         /\ ~worker'[w].stale => lag'[Event(w)'] <= Window
<1>1. CASE /\ worker[w].pc \in {"send", "mark"} /\ worker'[w].todo = worker[w].todo
           /\ worker'[w].rcpts \subseteq worker[w].rcpts
           /\ worker'[w].stale = worker[w].stale
  <2>1. Event(w)' = Event(w) /\ Event(w) \in saved
    BY <1>1, EventInHand DEF Event, EligibleInv, Working
  <2> QED
    BY <1>1, <2>1, EventsStay DEF EligibleInv
<1>2. CASE Loads(w)
  <2>1. Event(w)' = Event(w) /\ Event(w) \in saved /\ Event(w) \in Events
    BY <1>2, EventInHand DEF Event, EligibleInv, Working, Loads
  <2>2. lag'[Event(w)] = lag[Event(w)]
    BY <2>1, EventsStay
  <2>3. ASSUME NEW s \in worker'[w].rcpts
        PROVE  <<s, Event(w)>> \in eligible'
    <3>1. s \in Subs /\ delivery[<<s, Event(w)>>].status # "none"
      <4>1. s \in members /\ delivery[s, Event(w)].status = "pending"
        BY <1>2, <2>3 DEF Loads, PendingRecipients
      <4>2. members \subseteq Subs
        BY DEF TypeInv, TypeOK
      <4> QED
        BY <4>1, <4>2
    <3>2. <<s, Event(w)>> \in Rows
      BY <2>1, <3>1 DEF Rows
    <3> QED
      BY <3>1, <3>2, EventsStay DEF EligibleInv
  <2>4. ~worker'[w].stale => lag[Event(w)] <= Window
    <3>1. ASSUME NEW e \in Events, ~IsStale(e)
          PROVE  lag[e] <= Window
      <4>1. age[e] \in Nat /\ lag[e] \in Nat /\ Window \in Nat
        <5>1. age[e] \in 0..Window + 1 /\ lag[e] \in Lags \cup {0}
          BY DEF TypeInv, TypeOK
        <5>2. Window \in Nat /\ Lags \cup {0} \subseteq Nat
          BY AlertsAssumption
        <5>3. lag[e] \in Nat
          BY <5>1, <5>2
        <5>4. age[e] \in Nat
          BY <5>1, <5>2
        <5> QED
          BY <5>2, <5>3, <5>4
      <4> QED
        BY <3>1, <4>1 DEF IsStale
    <3>2. ~worker'[w].stale => ~IsStale(Event(w))
      BY <1>2, Zenon DEF Loads
    <3> QED
      BY <2>1, <3>1, <3>2
  <2> QED
    BY <2>1, <2>2, <2>3, <2>4
<1>3. CASE worker'[w] = worker[w]
  BY <1>1, <1>3
<1>4. CASE Sends(w)
  BY <1>1, <1>4 DEF Sends, Kept
<1>5. ASSUME NEW s \in worker[w].rcpts, MovesOn(w, s)
      PROVE  /\ \A t \in worker'[w].rcpts : <<t, Event(w)'>> \in eligible'
             /\ ~worker'[w].stale => lag'[Event(w)'] <= Window
  BY <1>1, <1>5 DEF MovesOn, Kept
<1> QED
  BY <1>1, <1>2, <1>3, <1>4, <1>5, WorkerMoves DEF LetsGo

\* A chat that has got a copy had it, or has just been sent it.
LEMMA ReceivedFate ==
  ASSUME TypeInv, [Next]_vars, NEW r \in Rows, received'[r] # received[r]
  PROVE  /\ received'[r] = received[r] + 1
         /\ \E w \in Workers : /\ Send(w) /\ Sends(w) /\ Holds(w, r) /\ IsNext(w, r[1])
                               /\ r[1] \notin worker[w].muted /\ ~worker[w].stale
<1>1. PICK w \in Workers : Send(w)
  BY DEF Next, WorkerStep, Sweep, Receive, FindSubscribers, CreateDeliveries,
         LoadRecipients, Skip, Record, Abandon, LeaveLoop, SaveEvent, Publish,
         PublishCancelled, CloseBus, Shutdown, DrainExpires, Exit, Crash, Start, Tick,
         UserStep, Join, Follow, SetAlerts, Stop, vars, history
<1>2. PICK s \in worker[w].rcpts, outcome \in SendOutcomes :
        /\ IsNext(w, s) /\ s \notin worker[w].muted /\ ~worker[w].stale
        /\ received' = IF outcome \in {"ok", "cut"}
                       THEN [received EXCEPT ![<<s, Event(w)>>] = @ + 1] ELSE received
        /\ Become(w, [worker[w] EXCEPT !.pc = "mark", !.verdict = VerdictOf(outcome)])
  BY <1>1, Zenon DEF Send
<1>3. received' = [received EXCEPT ![<<s, Event(w)>>] = @ + 1]
  BY <1>2
<1>4. r = <<s, Event(w)>> /\ received'[r] = received[r] + 1
  BY <1>3 DEF TypeInv, TypeOK
<1>5. r[1] = s /\ r[2] = Event(w)
  BY <1>4
<1>6. worker[w].pc = "send"
  BY <1>1 DEF Send, At
<1>7. Holds(w, r)
  BY <1>5, <1>6 DEF Holds
<1>8. Sends(w)
  <2>1. worker'[w] = [worker[w] EXCEPT !.pc = "mark", !.verdict = VerdictOf(outcome)]
    BY <1>2 DEF Become, TypeInv
  <2>2. worker[w] \in Goroutines /\ Live(w)
    BY <1>1 DEF TypeInv, TypeOK, Send
  <2> QED
    BY <1>6, <2>1, <2>2 DEF Sends, Kept, Goroutines
<1> QED
  BY <1>1, <1>2, <1>4, <1>5, <1>7, <1>8

\* A step preserves eligibility.
LEMMA EligibleStep ==
  ASSUME TypeInv, EligibleInv, [Next]_vars
  PROVE  EligibleInv'
<1>0. /\ saved \subseteq saved' /\ eligible \subseteq eligible'
      /\ \A e \in saved : (e \in silent' <=> e \in silent) /\ lag'[e] = lag[e]
  BY EventsStay
<1>1. \A s \in Interested', e \in saved' : <<s, e>> \in eligible'
  <2>1. ASSUME NEW e \in Events, SaveEvent(e)
        PROVE  \A s \in Interested', f \in saved' : <<s, f>> \in eligible'
    <3>1. Interested' = Interested
      BY <2>1 DEF SaveEvent, people, Interested, Wants
    <3> QED
      BY <2>1, <3>1 DEF SaveEvent, EligibleInv
  <2>2. ASSUME NEW t \in Fickle, UserStep(t)
        PROVE  \A s \in Interested', e \in saved' : <<s, e>> \in eligible'
    <3>1. saved' = saved
      BY <2>2 DEF UserStep, Join, Follow, SetAlerts, Stop, events
    <3>2. CASE Join(t) \/ Stop(t)
      <4>1. Interested' \subseteq Interested
        BY <3>2 DEF Join, Stop, Interested, Wants, TypeInv, TypeOK
      <4> QED
        BY <1>0, <3>1, <4>1 DEF EligibleInv
    <3>3. CASE Follow(t) \/ SetAlerts(t)
      <4>1. Interested' \subseteq Interested \cup {t} /\ NoteWish(t)
        BY <3>3 DEF Follow, SetAlerts, Interested, Wants
      <4>2. t \in Interested' => \A e \in saved : <<t, e>> \in eligible'
        BY <4>1 DEF NoteWish, Interested
      <4> QED
        BY <1>0, <3>1, <4>1, <4>2 DEF EligibleInv
    <3> QED
      BY <2>2, <3>2, <3>3 DEF UserStep
  <2>3. CASE UNCHANGED <<saved, people>>
    <3>1. Interested' = Interested
      BY <2>3 DEF Interested, Wants, people
    <3> QED
      BY <1>0, <2>3, <3>1 DEF EligibleInv
  <2>4. \/ \E e \in Events : SaveEvent(e)
        \/ \E t \in Fickle : UserStep(t)
        \/ UNCHANGED <<saved, people>>
    BY DEF Next, WorkerStep, Sweep, Receive, FindSubscribers, CreateDeliveries, Send,
           LoadRecipients, Skip, Record, Abandon, LeaveLoop, Publish, events,
           PublishCancelled, CloseBus, Shutdown, DrainExpires, Exit, Crash, Start, Tick,
           vars
  <2> QED
    BY <2>1, <2>2, <2>3, <2>4
<1>2. unpublished' \subseteq saved' /\ \A i \in DOMAIN queue' : queue'[i] \in saved'
  <2>1. queue \in Seq(Events)
    BY DEF TypeInv, TypeOK
  <2>2. CASE UNCHANGED <<unpublished, queue>>
    BY <1>0, <2>2 DEF EligibleInv
  <2>3. ASSUME NEW w \in Workers, Receive(w)
        PROVE  unpublished' \subseteq saved' /\ \A i \in DOMAIN queue' : queue'[i] \in saved'
    <3>1. queue # <<>> /\ queue' = Tail(queue) /\ unpublished' = unpublished
      BY <2>3 DEF Receive
    <3>2. \A i \in DOMAIN Tail(queue) : i + 1 \in DOMAIN queue /\ Tail(queue)[i] = queue[i + 1]
      BY <2>1, <3>1
    <3> QED
      BY <1>0, <3>1, <3>2 DEF EligibleInv
  <2>4. ASSUME NEW e \in Events, SaveEvent(e) \/ Publish(e) \/ PublishCancelled(e)
        PROVE  unpublished' \subseteq saved' /\ \A i \in DOMAIN queue' : queue'[i] \in saved'
    <3>1. CASE SaveEvent(e)
      BY <1>0, <3>1 DEF SaveEvent, EligibleInv
    <3>2. CASE Publish(e)
      <4>1. queue' = Append(queue, e) /\ unpublished' \subseteq unpublished
            /\ e \in unpublished
        BY <3>2 DEF Publish
      <4>2. \A i \in DOMAIN Append(queue, e) :
              Append(queue, e)[i] = e \/ (i \in DOMAIN queue /\ Append(queue, e)[i] = queue[i])
        BY <2>1
      <4> QED
        BY <1>0, <4>1, <4>2 DEF EligibleInv
    <3>3. CASE PublishCancelled(e)
      BY <1>0, <3>3 DEF PublishCancelled, EligibleInv
    <3> QED
      BY <2>4, <3>1, <3>2, <3>3
  <2>5. CASE unpublished' = {} /\ queue' = <<>>
    BY <2>5
  <2>6. \/ UNCHANGED <<unpublished, queue>>
        \/ \E w \in Workers : Receive(w)
        \/ \E e \in Events : SaveEvent(e) \/ Publish(e) \/ PublishCancelled(e)
        \/ unpublished' = {} /\ queue' = <<>>
    BY DEF Next, WorkerStep, Sweep, FindSubscribers, CreateDeliveries, Send, bus,
           LoadRecipients, Skip, Record, Abandon, LeaveLoop, CloseBus, Shutdown,
           DrainExpires, Exit, Crash, Vanish, Start, Tick, UserStep, Join, Follow,
           SetAlerts, Stop, vars
  <2> QED
    BY <2>2, <2>3, <2>4, <2>5, <2>6
<1>3. ASSUME NEW r \in Rows, delivery'[r].status # "none"
      PROVE  r \in eligible'
  <2>1. CASE delivery[r].status # "none"
    BY <1>0, <2>1 DEF EligibleInv
  <2>2. CASE delivery[r].status = "none" /\ RowsComeAndGo
    <3>1. PICK w \in Workers : Creates(w, r)
      BY <1>3, <2>2 DEF RowsComeAndGo, NoRow
    <3>2. r = <<r[1], Event(w)>>
      BY <3>1 DEF Creates, Rows
    <3> QED
      BY <1>0, <3>1, <3>2 DEF Creates, EligibleInv
  <2>3. ASSUME delivery[r].status = "none", NEW w \in Workers, LoadStep(w)
        PROVE  r \in eligible'
    BY <1>3, <2>3 DEF LoadStep
  <2>4. ASSUME delivery[r].status = "none", NEW w \in Workers,
               NEW s \in worker[w].rcpts, MarkStep(w, s)
        PROVE  r \in eligible'
    <3>1. delivery'[r] = delivery[r]
      BY <2>4 DEF MarkStep, MarkDelivery, TypeInv, TypeOK
    <3> QED
      BY <1>3, <2>4, <3>1
  <2> QED
    BY <2>1, <2>2, <2>3, <2>4, StepKinds
<1>4. ASSUME NEW r \in Rows, received'[r] > 0
      PROVE  r \in eligible' /\ r[2] \in saved' \ silent' /\ lag'[r[2]] <= Window
  <2>1. CASE received'[r] = received[r]
    BY <1>0, <1>4, <2>1 DEF EligibleInv
  <2>2. CASE received'[r] # received[r]
    <3>1. PICK w \in Workers : Holds(w, r) /\ ~worker[w].stale
      BY <2>2, ReceivedFate
    <3>2. r = <<r[1], Event(w)>> /\ r[2] = Event(w)
      BY <3>1 DEF Holds, Rows
    <3>3. Event(w) \in saved \ silent
      BY <3>1, EventInHand DEF Holds, Working, EligibleInv
    <3>4. r \in eligible /\ lag[Event(w)] <= Window
      BY <3>1, <3>2 DEF Holds, EligibleInv
    <3> QED
      BY <1>0, <3>2, <3>3, <3>4
  <2> QED
    BY <2>1, <2>2
<1>5. \A w \in Workers :
        /\ Working(w)' => \A i \in DOMAIN worker'[w].todo :
                            worker'[w].todo[i] \in saved' \ silent'
        /\ worker'[w].pc = "create" =>
             \A s \in worker'[w].ids : <<s, Event(w)'>> \in eligible'
        /\ worker'[w].pc \in {"send", "mark"} =>
             /\ \A s \in worker'[w].rcpts : <<s, Event(w)'>> \in eligible'
             /\ ~worker'[w].stale => lag'[Event(w)'] <= Window
  BY WorkStaysEligible, RecipientsStayEligible
<1> QED
  BY <1>1, <1>2, <1>3, <1>4, <1>5 DEF EligibleInv

\* Whatever the interleaving of saves, settings, sweeps and sends, a chat gets the
\* alert of an event only if it asked for alerts after the event was saved, and
\* the event was of a kind that alerts and not too old.
THEOREM OnlyTheEligibleReceive == Spec => []OnlyTheEligible
<1>1. Init => TypeInv /\ EligibleInv
  <2> SUFFICES ASSUME Init PROVE EligibleInv
    BY InitTypes
  <2>1. \A w \in Workers : worker[w].pc = "idle"
    BY IdleIsSound DEF Init
  <2>2. \A r \in Rows : delivery[r].status = "none" /\ ~(received[r] > 0)
    BY DEF Init, NoRow
  <2> QED
    BY <2>1, <2>2 DEF EligibleInv, Init, Working
<1>2. TypeInv /\ EligibleInv /\ [Next]_vars => TypeInv' /\ EligibleInv'
  BY TypeStep, EligibleStep
<1>3. EligibleInv => OnlyTheEligible
  BY DEF EligibleInv, OnlyTheEligible
<1> QED
  BY <1>1, <1>2, <1>3, PTL DEF Spec

(***************************************************************************)
(* Opting out.  A goroutine is armed for a row when it has decided to send *)
(* and has not sent yet; for a chat with alerts off, the late copies and   *)
(* the armed goroutines make two at most, and no goroutine is armed anew.  *)
(***************************************************************************)
Armed(w, r) ==
  /\ Holds(w, r) /\ r[1] \notin worker[w].muted
  /\ ~(worker[w].pc = "mark" /\ IsNext(w, r[1]))

One(b) == IF b THEN 1 ELSE 0

LateInv ==
  \A r \in Rows :
    IF r[1] \in alertsOn THEN lateCopies[r] = 0
    ELSE lateCopies[r] + (One(Armed("main", r)) + One(Armed("retry", r))) <= 2

\* There are two goroutines.
LEMMA WorkersAreTwo == Cardinality(Workers) = 2
<1>1. IsFiniteSet({"main"}) /\ Cardinality({"main"}) = 1
  BY FS_Singleton
<1>2. Cardinality({"main"} \cup {"retry"}) = 2
  BY <1>1, FS_AddElement
<1>3. Workers = {"main"} \cup {"retry"}
  BY DEF Workers
<1> QED
  BY <1>2, <1>3

\* The next recipient in order is one.
LEMMA NextIsOne ==
  ASSUME TypeInv, NEW w \in Workers, NEW s, NEW t, IsNext(w, s), IsNext(w, t)
  PROVE  s = t
<1>1. s \in Nat /\ t \in Nat
  BY AlertsAssumption DEF IsNext, TypeInv, TypeOK, Goroutines
<1> QED
  BY <1>1 DEF IsNext

\* Only a load arms a goroutine, for chats with alerts on.
LEMMA ArmedFate ==
  ASSUME TypeInv, [Next]_vars, NEW w \in Workers, NEW r \in Rows, Armed(w, r)'
  PROVE  Armed(w, r) \/ (LoadRecipients(w) /\ r[1] \in alertsOn)
<1>1. CASE worker'[w] = worker[w]
  BY <1>1 DEF Armed, Holds, Event, IsNext
<1>2. CASE LetsGo(w)
  BY <1>2 DEF Armed, Holds, LetsGo
<1>3. CASE LoadRecipients(w) /\ Loads(w)
  BY <1>3 DEF Armed, Holds, Loads
<1>4. CASE Sends(w)
  BY <1>4 DEF Armed, Holds, Event, Sends, Kept
<1>5. ASSUME NEW s \in worker[w].rcpts, MovesOn(w, s)
      PROVE  Armed(w, r)
  <2>1. Holds(w, r) /\ r[1] # s /\ r[1] \notin worker[w].muted
    BY <1>5 DEF Armed, Holds, Event, MovesOn, Kept
  <2>2. ~IsNext(w, r[1])
    BY <1>5, <2>1, NextIsOne DEF MovesOn
  <2> QED
    BY <2>1, <2>2 DEF Armed
<1> QED
  BY <1>1, <1>2, <1>3, <1>4, <1>5, WorkerMoves

\* A copy that counts as late disarms the goroutine that sends it.
LEMMA LateFate ==
  ASSUME TypeInv, [Next]_vars, NEW r \in Rows
  PROVE  \/ lateCopies'[r] = lateCopies[r]
         \/ lateCopies'[r] = 0
         \/ /\ lateCopies'[r] = lateCopies[r] + 1 /\ r[1] \notin alertsOn
            /\ alertsOn' = alertsOn
            /\ \E w \in Workers : Armed(w, r) /\ ~Armed(w, r)'
<1>1. ASSUME NEW w \in Workers, Send(w), lateCopies'[r] # lateCopies[r]
      PROVE  /\ lateCopies'[r] = lateCopies[r] + 1 /\ r[1] \notin alertsOn
             /\ alertsOn' = alertsOn
             /\ Armed(w, r) /\ ~Armed(w, r)'
  <2>1. PICK s \in worker[w].rcpts, outcome \in SendOutcomes :
          /\ IsNext(w, s) /\ s \notin worker[w].muted
          /\ lateCopies' = IF outcome \in {"ok", "cut"} /\ s \notin alertsOn
                           THEN [lateCopies EXCEPT ![<<s, Event(w)>>] = @ + 1] ELSE lateCopies
          /\ Become(w, [worker[w] EXCEPT !.pc = "mark", !.verdict = VerdictOf(outcome)])
    BY <1>1, Zenon DEF Send
  <2>2. /\ lateCopies' = [lateCopies EXCEPT ![<<s, Event(w)>>] = @ + 1]
        /\ s \notin alertsOn
    BY <1>1, <2>1
  <2>3. r = <<s, Event(w)>> /\ lateCopies'[r] = lateCopies[r] + 1
    BY <1>1, <2>2 DEF TypeInv, TypeOK
  <2>4. r[1] = s /\ r[2] = Event(w)
    BY <2>3
  <2>5. worker[w].pc = "send" /\ alertsOn' = alertsOn
    BY <1>1 DEF Send, At, people
  <2>6. Armed(w, r)
    BY <2>1, <2>4, <2>5 DEF Armed, Holds
  <2>7. worker'[w].pc = "mark" /\ worker'[w].rcpts = worker[w].rcpts
    <3>1. worker'[w] = [worker[w] EXCEPT !.pc = "mark", !.verdict = VerdictOf(outcome)]
      BY <2>1 DEF Become, TypeInv
    <3>2. worker[w] \in Goroutines
      BY DEF TypeInv, TypeOK
    <3> QED
      BY <3>1, <3>2 DEF Goroutines
  <2>8. ~Armed(w, r)'
    BY <2>1, <2>4, <2>7 DEF Armed, IsNext
  <2> QED
    BY <2>2, <2>3, <2>4, <2>5, <2>6, <2>8
<1>2. ASSUME NEW s \in Fickle, SetAlerts(s)
      PROVE  lateCopies'[r] = lateCopies[r] \/ lateCopies'[r] = 0
  BY <1>2 DEF SetAlerts
<1>3. \/ \E w \in Workers : Send(w)
      \/ \E s \in Fickle : SetAlerts(s)
      \/ lateCopies' = lateCopies
  BY DEF Next, WorkerStep, Sweep, Receive, FindSubscribers, CreateDeliveries,
         LoadRecipients, Skip, Record, Abandon, LeaveLoop, SaveEvent, Publish,
         PublishCancelled, CloseBus, Shutdown, DrainExpires, Exit, Crash, Start, Tick,
         UserStep, Join, Follow, Stop, vars, history
<1> QED
  BY <1>1, <1>2, <1>3

\* A step preserves the count of late copies.
LEMMA LateStep ==
  ASSUME TypeInv, LateInv, [Next]_vars
  PROVE  LateInv'
<1> SUFFICES ASSUME NEW r \in Rows
             PROVE  IF r[1] \in alertsOn' THEN lateCopies'[r] = 0
                    ELSE lateCopies'[r] + (One(Armed("main", r)') + One(Armed("retry", r)')) <= 2
  BY DEF LateInv, One
<1> DEFINE armed == One(Armed("main", r)) + One(Armed("retry", r))
           armedNext == One(Armed("main", r)') + One(Armed("retry", r)')
<1>1. armed \in 0..2 /\ armedNext \in 0..2 /\ lateCopies[r] \in Nat
  BY DEF One, TypeInv, TypeOK
<1>2. CASE lateCopies'[r] = 0
  BY <1>1, <1>2
<1>3. CASE lateCopies'[r] = lateCopies[r] /\ r[1] \in alertsOn
  BY <1>1, <1>3 DEF LateInv
<1>4. ASSUME r[1] \notin alertsOn
      PROVE  \A w \in Workers : Armed(w, r)' => Armed(w, r)
  BY <1>4, ArmedFate
<1>5. r[1] \notin alertsOn => armedNext <= armed
  BY <1>4 DEF Workers, One
<1>6. CASE lateCopies'[r] = lateCopies[r] /\ r[1] \notin alertsOn
  <2>1. CASE r[1] \notin alertsOn'
    BY <1>1, <1>5, <1>6, <2>1 DEF LateInv
  <2>2. CASE r[1] \in alertsOn'
    <3>1. PICK s \in Fickle : SetAlerts(s)
      BY <1>6, <2>2
         DEF Next, WorkerStep, Sweep, Receive, FindSubscribers, CreateDeliveries, Send,
             LoadRecipients, Skip, Record, Abandon, LeaveLoop, SaveEvent, Publish,
             PublishCancelled, CloseBus, Shutdown, DrainExpires, Exit, Crash, Start, Tick,
             UserStep, Join, Follow, Stop, vars, people
    <3>2. lateCopies'[r] = 0
      BY <1>6, <2>2, <3>1 DEF SetAlerts
    <3> QED
      BY <1>2, <3>2
  <2> QED
    BY <2>1, <2>2
<1>7. CASE /\ lateCopies'[r] = lateCopies[r] + 1 /\ r[1] \notin alertsOn
           /\ alertsOn' = alertsOn
           /\ \E w \in Workers : Armed(w, r) /\ ~Armed(w, r)'
  <2>1. armedNext <= armed - 1
    <3>1. \/ Armed("main", r) /\ ~Armed("main", r)'
          \/ Armed("retry", r) /\ ~Armed("retry", r)'
      BY <1>7 DEF Workers
    <3>2. (Armed("main", r)' => Armed("main", r)) /\ (Armed("retry", r)' => Armed("retry", r))
      BY <1>4, <1>7 DEF Workers
    <3> QED
      BY <3>1, <3>2 DEF One
  <2> QED
    BY <1>1, <1>7, <2>1 DEF LateInv
<1> QED
  BY <1>2, <1>3, <1>6, <1>7, LateFate

\* After a user turns alerts off or leaves, each goroutine sends at most the copy
\* it had already decided to send.
THEOREM OptingOutIsPrompt == Spec => []OptOutIsPrompt
<1>1. Init => TypeInv /\ LateInv
  <2> SUFFICES ASSUME Init PROVE LateInv
    BY InitTypes
  <2>1. \A w \in Workers, r \in Rows : ~Armed(w, r)
    BY IdleIsSound DEF Init, Armed, Holds
  <2>2. \A r \in Rows : One(Armed("main", r)) = 0 /\ One(Armed("retry", r)) = 0
    BY <2>1 DEF One, Workers
  <2> QED
    BY <2>2 DEF LateInv, Init
<1>2. TypeInv /\ LateInv /\ [Next]_vars => TypeInv' /\ LateInv'
  BY TypeStep, LateStep
<1>3. TypeInv /\ LateInv => OptOutIsPrompt
  <2> SUFFICES ASSUME TypeInv, LateInv, NEW r \in Rows
               PROVE  lateCopies[r] <= Cardinality(Workers)
    BY DEF OptOutIsPrompt
  <2>1. Cardinality(Workers) = 2
    BY WorkersAreTwo
  <2>2. lateCopies[r] \in Nat
    BY DEF TypeInv, TypeOK
  <2> QED
    BY <2>1, <2>2 DEF LateInv, One
<1> QED
  BY <1>1, <1>2, <1>3, PTL DEF Spec

(***************************************************************************)
(* Accounting for copies.  A copy is in flight from its send to its mark,  *)
(* and the end of the process takes from the flight what nobody records.   *)
(* While the process stops, "StillToLose" is what that end may yet take:   *)
(* main's send under the service's context and one under the drain's, or   *)
(* retry's and one of main's.  Shutdown pays for two, a crash for two more.*)
(***************************************************************************)
InFlight(w, r) == worker[w].pc = "mark" /\ IsNext(w, r[1]) /\ r[2] = Event(w)

Flying(r) == One(InFlight("main", r)) + One(InFlight("retry", r))

StillToLose(r) ==
  IF mode # "stopping" THEN 0
  ELSE One(InFlight("retry", r))
       + (IF worker["main"].ctx = "run" THEN One(InFlight("main", r)) + 1
          ELSE IF expired THEN One(InFlight("main", r)) ELSE 1)

\* The phases of a process: retry starts when main has caught up, the drain
\* context is cancelled only while the process stops, and a stop is counted.
PhaseInv ==
  /\ worker["retry"].ctx = "run"
  /\ worker["main"].ctx = "run" => worker["retry"].pc = "idle"
  /\ expired => mode = "stopping"
  /\ mode = "stopping" => restarts >= 1

CopyInv ==
  \A r \in Rows :
    /\ delivery[r].status # "none" =>
         received[r] + StillToLose(r)
           <= ((delivery[r].attempts + storeErrors) + 2 * restarts) + Flying(r)
    /\ delivery[r].status = "none" /\ received[r] > 0 => r[1] \in former

\* The context of a goroutine changes when it comes home, or with the process.
LEMMA CtxFate ==
  ASSUME TypeInv, [Next]_vars, NEW v \in Workers
  PROVE  \/ worker'[v].ctx = worker[v].ctx \/ worker'[v] = Home(v)
         \/ Exit \/ Crash
<1> DEFINE Goal == worker'[v].ctx = worker[v].ctx \/ worker'[v] = Home(v)
<1>0. worker \in [Workers -> Sound]
  BY DEF TypeInv
<1>1. ASSUME NEW w \in Workers, WorkerStep(w)
      PROVE  Goal
  <2>0. ASSUME NEW g, Become(w, g)
        PROVE  worker'[w] = g /\ (v # w => worker'[v] = worker[v])
    BY <1>0, <2>0 DEF Become
  <2>1. ASSUME NEW g, Become(w, g), g.ctx = worker[w].ctx
        PROVE  Goal
    BY <2>0, <2>1
  <2>2. Become(w, Home(w)) => Goal
    BY <2>0
  <2>3. worker[w] \in Goroutines
    BY <1>0 DEF Sound
  <2>4. Become(w, NextEvent(w)) => Goal
    <3>1. NextEvent(w) = Home(w) \/ NextEvent(w).ctx = worker[w].ctx
      BY DEF NextEvent, Idle
    <3> QED
      BY <2>1, <2>2, <3>1
  <2>5. CASE Sweep(w)
    <3>1. \A q : [Idle("run") EXCEPT !.pc = "find", !.todo = q].ctx = "run"
      BY DEF Idle
    <3> QED
      BY <2>1, <2>2, <2>5, <3>1 DEF Sweep, GiveUp
  <2>6. CASE Receive(w)
    <3>1. \A q : [Idle("drain") EXCEPT !.pc = "find", !.todo = q].ctx = "drain"
      BY DEF Idle
    <3> QED
      BY <2>1, <2>6, <3>1 DEF Receive
  <2>7. CASE FindSubscribers(w)
    <3> DEFINE g == [worker[w] EXCEPT !.pc = IF Interested = {} THEN "load" ELSE "create",
                                      !.ids = Interested]
    <3>1. g.ctx = worker[w].ctx
      BY <2>3 DEF Goroutines
    <3>2. Become(w, g) \/ GiveUp(w)
      BY <2>7 DEF FindSubscribers
    <3>3. CASE Become(w, g)
      <4>1. worker'[w] = g /\ (v # w => worker'[v] = worker[v])
        BY <2>0, <3>3
      <4> QED
        BY <3>1, <4>1
    <3> QED
      BY <2>2, <3>2, <3>3 DEF GiveUp
  <2>8. CASE CreateDeliveries(w)
    <3>1. [worker[w] EXCEPT !.pc = "load", !.ids = {}].ctx = worker[w].ctx
      BY <2>3 DEF Goroutines
    <3> QED
      BY <2>1, <2>2, <2>8, <3>1 DEF CreateDeliveries, GiveUp
  <2>9. CASE LoadRecipients(w)
    <3> DEFINE rcpts == PendingRecipients(Event(w))
               g == [worker[w] EXCEPT !.pc = "send", !.rcpts = rcpts,
                       !.muted = rcpts \ alertsOn, !.stale = IsStale(Event(w))]
    <3>1. g.ctx = worker[w].ctx
      BY <2>3 DEF Goroutines
    <3>2. Become(w, NextEvent(w)) \/ GiveUp(w) \/ Become(w, g)
      BY <2>9 DEF LoadRecipients
    <3> QED
      BY <2>1, <2>2, <2>4, <3>1, <3>2 DEF GiveUp
  <2>10. ASSUME NEW s, Advance(w, s)
         PROVE  Goal
    <3>1. [worker[w] EXCEPT !.pc = "send", !.rcpts = @ \ {s},
             !.muted = @ \ {s}, !.verdict = "pending"].ctx = worker[w].ctx
      BY <2>3 DEF Goroutines
    <3> QED
      BY <2>1, <2>4, <2>10, <3>1 DEF Advance
  <2>11. CASE Skip(w) \/ Record(w)
    BY <2>10, <2>11 DEF Skip, Record
  <2>12. CASE Send(w)
    <3>1. \A d : [worker[w] EXCEPT !.pc = "mark", !.verdict = d].ctx = worker[w].ctx
      BY <2>3 DEF Goroutines
    <3> QED
      BY <2>1, <2>12, <3>1 DEF Send
  <2>13. CASE Abandon(w)
    BY <2>2, <2>13 DEF Abandon, GiveUp
  <2>14. CASE LeaveLoop(w)
    <3>1. [worker[w] EXCEPT !.pc = "stopped"].ctx = worker[w].ctx
      BY <2>3 DEF Goroutines
    <3> QED
      BY <2>1, <2>14, <3>1 DEF LeaveLoop
  <2> QED
    BY <1>1, <2>5, <2>6, <2>7, <2>8, <2>9, <2>11, <2>12, <2>13, <2>14 DEF WorkerStep
<1>2. (\E w \in Workers : WorkerStep(w)) \/ Exit \/ Crash \/ worker' = worker
  BY DEF Next, SaveEvent, Publish, PublishCancelled, CloseBus, Shutdown, DrainExpires,
         Start, Tick, UserStep, Join, Follow, SetAlerts, Stop, vars
<1> QED
  BY <1>1, <1>2

\* A step of one goroutine leaves the other alone.
LEMMA OthersStay ==
  ASSUME TypeInv, NEW w \in Workers, WorkerStep(w)
  PROVE  \A v \in Workers \ {w} : worker'[v] = worker[v]
<1>1. ASSUME NEW g, Become(w, g)
      PROVE  \A v \in Workers \ {w} : worker'[v] = worker[v]
  BY <1>1 DEF Become, TypeInv
<1> QED
  BY <1>1 DEF WorkerStep, Sweep, Receive, FindSubscribers, CreateDeliveries, LoadRecipients,
              Skip, Send, Record, Advance, Abandon, LeaveLoop, GiveUp

\* A step preserves the phases.
LEMMA PhaseStep ==
  ASSUME TypeInv, PhaseInv, [Next]_vars
  PROVE  PhaseInv'
<1>1. Home("retry").ctx = "run" /\ Home("main").ctx = "drain"
  BY DEF Home, Idle
<1>2. worker'["retry"].ctx = "run"
  <2>1. CASE Exit \/ Crash
    BY <2>1 DEF Exit, Crash, Vanish, Workers, Idle
  <2> QED
    BY <1>1, <2>1, CtxFate DEF PhaseInv, Workers
<1>3. ASSUME worker'["main"].ctx = "run"
      PROVE  worker'["retry"].pc = "idle"
  <2>1. CASE Exit \/ Crash
    BY <2>1 DEF Exit, Crash, Vanish, Workers, Idle
  <2>2. CASE ~(Exit \/ Crash)
    <3>1. worker["main"].ctx = "run" /\ worker["retry"].pc = "idle"
      BY <1>1, <1>3, <2>2, CtxFate DEF PhaseInv, Workers
    <3>2. ASSUME WorkerStep("retry")
          PROVE  FALSE
      BY <3>1, <3>2 DEF WorkerStep, Sweep, Receive, FindSubscribers, CreateDeliveries,
             LoadRecipients, Skip, Send, Record, Abandon, LeaveLoop, At
    <3>3. ASSUME NEW w \in Workers, WorkerStep(w)
          PROVE  worker'["retry"] = worker["retry"]
      BY <3>2, <3>3, OthersStay DEF Workers
    <3>4. (\E w \in Workers : WorkerStep(w)) \/ worker' = worker
      BY <2>2 DEF Next, SaveEvent, Publish, PublishCancelled, CloseBus, Shutdown,
             DrainExpires, Start, Tick, UserStep, Join, Follow, SetAlerts, Stop, vars
    <3> QED
      BY <3>1, <3>3, <3>4
  <2> QED
    BY <2>1, <2>2
<1>4. (expired' => mode' = "stopping") /\ (mode' = "stopping" => restarts' >= 1)
  <2>1. CASE Shutdown
    BY <2>1 DEF Shutdown, PhaseInv, TypeInv, TypeOK
  <2>2. CASE DrainExpires
    BY <2>2 DEF DrainExpires, PhaseInv, bounds
  <2>3. CASE Exit \/ Crash
    BY <2>3 DEF Exit, Crash, Vanish
  <2>4. CASE Start
    BY <2>4 DEF Start, PhaseInv
  <2>5. CASE UNCHANGED <<process, restarts>>
    BY <2>5 DEF PhaseInv, process
  <2>6. Shutdown \/ DrainExpires \/ Exit \/ Crash \/ Start \/ UNCHANGED <<process, restarts>>
    <3>1. ASSUME NEW w \in Workers, WorkerStep(w)
          PROVE  UNCHANGED <<process, restarts>>
      <4>1. \A s \in Subs : \A d : Mark(w, s, d) => UNCHANGED restarts
        BY DEF Mark, CallFails, bounds
      <4>2. worker[w].rcpts \subseteq Subs
        BY DEF TypeInv, TypeOK, Goroutines
      <4>3. CallFails(w) => UNCHANGED restarts
        BY DEF CallFails, bounds
      <4>4. CASE Skip(w) \/ Record(w)
        BY <4>1, <4>2, <4>4 DEF Skip, Record
      <4> QED
        BY <3>1, <4>3, <4>4 DEF WorkerStep, Sweep, Receive, FindSubscribers,
               CreateDeliveries, LoadRecipients, Send, Abandon, LeaveLoop, bounds
    <3> QED
      BY <3>1 DEF Next, SaveEvent, Publish, PublishCancelled, CloseBus, Tick, UserStep, Join,
             Follow, SetAlerts, Stop, vars, bounds
  <2> QED
    BY <2>1, <2>2, <2>3, <2>4, <2>5, <2>6
<1> QED
  BY <1>2, <1>3, <1>4 DEF PhaseInv

\* What a step that neither sends nor ends an attempt may do to an account.
Quiet(r) ==
  /\ received'[r] = received[r] /\ Flying(r)' = Flying(r)
  /\ StillToLose(r)' <= StillToLose(r)
  /\ storeErrors' >= storeErrors /\ restarts' = restarts

\* Flights are few, and a stopping process may lose at most what was paid for.
LEMMA FlightBounds ==
  ASSUME TypeInv, PhaseInv, NEW r \in Rows
  PROVE  /\ Flying(r) \in 0..2 /\ StillToLose(r) \in 0..2
         /\ StillToLose(r) <= Flying(r) + 2 * restarts
<1>1. One(InFlight("main", r)) \in 0..1 /\ One(InFlight("retry", r)) \in 0..1
  BY DEF One
<1>2. worker["main"].ctx = "run" => One(InFlight("retry", r)) = 0
  BY DEF PhaseInv, InFlight, One
<1>3. restarts \in Nat
  BY DEF TypeInv, TypeOK
<1>4. Flying(r) \in 0..2 /\ StillToLose(r) \in 0..2
  BY <1>1, <1>2 DEF Flying, StillToLose
<1>5. mode = "stopping" => restarts >= 1
  BY DEF PhaseInv
<1>6. mode # "stopping" => StillToLose(r) = 0
  BY DEF StillToLose
<1> QED
  BY <1>3, <1>4, <1>5, <1>6

\* Attempts of a row only grow while it lasts; a new row is a member's.
LEMMA AttemptsFate ==
  ASSUME TypeInv, [Next]_vars, NEW r \in Rows, delivery'[r].status # "none"
  PROVE  \/ delivery[r].status # "none" /\ delivery'[r].attempts >= delivery[r].attempts
         \/ delivery[r].status = "none" /\ r[1] \in members /\ delivery'[r].attempts = 0
<1>0. delivery[r].attempts \in Nat
  BY DEF TypeInv, TypeOK
<1>1. CASE delivery'[r] = delivery[r]
  BY <1>0, <1>1
<1>2. CASE RowsComeAndGo
  <2>1. CASE delivery[r].status = "none" /\ delivery'[r] = NewRow
    BY <1>1, <1>2, <2>1 DEF RowsComeAndGo, NewRow, NoRow, Creates
  <2> QED
    BY <1>1, <1>2, <2>1 DEF RowsComeAndGo, NoRow
<1>3. ASSUME NEW w \in Workers, LoadStep(w)
      PROVE  delivery'[r] = delivery[r]
  BY <1>3 DEF LoadStep
<1>4. ASSUME NEW w \in Workers, NEW s \in worker[w].rcpts, MarkStep(w, s)
      PROVE  \/ delivery'[r] = delivery[r]
             \/ delivery[r].status # "none" /\ delivery'[r].attempts = delivery[r].attempts + 1
  <2>1. PICK status : MarkDelivery(s, Event(w), status)
    BY <1>4 DEF MarkStep
  <2>2. MarkedRow(delivery[r], status).attempts = delivery[r].attempts + 1
    BY DEF MarkedRow
  <2> QED
    BY <2>1, <2>2 DEF MarkDelivery, TypeInv, TypeOK
<1> QED
  BY <1>0, <1>1, <1>2, <1>3, <1>4, StepKinds

\* The context of main only goes from the service's to the drain's, which leaves
\* no more to lose.
LEMMA LessToLose ==
  ASSUME TypeInv, PhaseInv, [Next]_vars, ~Exit, ~Crash, NEW r \in Rows,
         UNCHANGED process,
         InFlight("main", r)' => InFlight("main", r),
         InFlight("retry", r)' => InFlight("retry", r)
  PROVE  StillToLose(r)' <= StillToLose(r)
<1>1. \/ worker'["main"].ctx = worker["main"].ctx \/ worker'["main"].ctx = "drain"
  BY CtxFate DEF Home, Idle, Workers
<1>2. worker["main"].ctx \in {"run", "drain"}
  BY DEF TypeInv, TypeOK, Goroutines, Workers
<1> QED
  BY <1>1, <1>2 DEF StillToLose, One, process

\* A step of a goroutine that is not at its mark and does not send is quiet.
LEMMA QuietWork ==
  ASSUME TypeInv, PhaseInv, [Next]_vars, NEW w \in Workers, WorkerStep(w),
         worker[w].pc # "mark", ~Send(w), ~Exit, ~Crash, NEW r \in Rows
  PROVE  Quiet(r)
<1>1. worker'[w].pc # "mark"
  BY OnlySendReachesMark
<1>2. \A v \in Workers : InFlight(v, r)' <=> InFlight(v, r)
  BY <1>1, OthersStay DEF InFlight, IsNext, Event
<1>3. Flying(r)' = Flying(r)
  BY <1>2 DEF Flying, One, Workers
<1>4. UNCHANGED <<received, process, restarts>> /\ storeErrors' >= storeErrors
  <2>1. storeErrors \in Nat
    BY DEF TypeInv, TypeOK
  <2>2. CallFails(w) => UNCHANGED restarts /\ storeErrors' >= storeErrors
    BY <2>1 DEF CallFails, bounds
  <2>3. UNCHANGED bounds => UNCHANGED restarts /\ storeErrors' >= storeErrors
    BY <2>1 DEF bounds
  <2>4. CASE Skip(w)
    BY <2>2, <2>3, <2>4 DEF Skip, Mark, history
  <2> QED
    BY <2>2, <2>3, <2>4 DEF WorkerStep, Sweep, Receive, FindSubscribers, CreateDeliveries,
         LoadRecipients, Record, At, Abandon, LeaveLoop, history
<1>5. StillToLose(r)' <= StillToLose(r)
  BY <1>2, <1>4, LessToLose DEF Workers
<1> QED
  BY <1>3, <1>4, <1>5 DEF Quiet

\* A step outside the goroutines and the life of the process is quiet.
LEMMA QuietWorld ==
  ASSUME TypeInv, PhaseInv, [Next]_vars,
         \/ \E e \in Events : SaveEvent(e) \/ Publish(e) \/ PublishCancelled(e)
         \/ CloseBus \/ Start \/ Tick \/ UNCHANGED vars
         \/ \E s \in Fickle : UserStep(s),
         NEW r \in Rows
  PROVE  Quiet(r)
<1>0. storeErrors \in Nat
  BY DEF TypeInv, TypeOK
<1>1. UNCHANGED <<worker, expired, received, restarts>> /\ storeErrors' >= storeErrors
  <2>1. CASE \E e \in Events : SaveEvent(e) \/ Publish(e) \/ PublishCancelled(e)
    BY <1>0, <2>1 DEF SaveEvent, Publish, PublishCancelled, bounds, history, process
  <2>2. CASE CloseBus \/ Start \/ Tick \/ UNCHANGED vars
    BY <1>0, <2>2 DEF CloseBus, Start, Tick, vars, bounds, history, process
  <2>3. CASE \E s \in Fickle : UserStep(s)
    BY <1>0, <2>3
       DEF UserStep, Join, Follow, SetAlerts, Stop, bounds, history, process
  <2> QED
    BY <2>1, <2>2, <2>3
<1>2. mode' = mode \/ (mode # "stopping" /\ mode' # "stopping")
  BY DEF SaveEvent, Publish, PublishCancelled, CloseBus, Start, Tick, vars, UserStep, Join,
         Follow, SetAlerts, Stop, process
<1>3. \A v \in Workers : InFlight(v, r)' <=> InFlight(v, r)
  BY <1>1 DEF InFlight, IsNext, Event
<1>4. Flying(r)' = Flying(r)
  BY <1>3 DEF Flying, One, Workers
<1>5. StillToLose(r)' = StillToLose(r)
  BY <1>1, <1>2, <1>3 DEF StillToLose, One, Workers
<1>6. StillToLose(r) \in 0..2
  BY FlightBounds
<1> QED
  BY <1>1, <1>4, <1>5, <1>6 DEF Quiet

Account(r) ==
  received[r] + StillToLose(r)
    <= ((delivery[r].attempts + storeErrors) + 2 * restarts) + Flying(r)

\* A quiet step keeps the account of a row that is there after it.
LEMMA QuietKeepsAccount ==
  ASSUME TypeInv, PhaseInv, KnownInv, CopyInv, [Next]_vars, NEW r \in Rows,
         delivery'[r].status # "none", Quiet(r)
  PROVE  Account(r)'
<1>0. /\ received[r] \in Nat /\ delivery[r].attempts \in Nat /\ storeErrors \in Nat
      /\ restarts \in Nat /\ delivery'[r].attempts \in Nat /\ storeErrors' \in Nat
  BY TypeStep DEF TypeInv, TypeOK
<1>1. /\ Flying(r) \in 0..2 /\ StillToLose(r) \in 0..2 /\ StillToLose(r)' \in Int
      /\ StillToLose(r) <= Flying(r) + 2 * restarts
  <2>1. StillToLose(r)' \in Int
    BY DEF StillToLose, One
  <2> QED
    BY <2>1, FlightBounds
<1>2. CASE delivery[r].status # "none" /\ delivery'[r].attempts >= delivery[r].attempts
  <2>1. Account(r)
    BY <1>2 DEF CopyInv, Account
  <2> QED
    BY <1>0, <1>1, <1>2, <2>1 DEF Account, Quiet
<1>3. CASE delivery[r].status = "none" /\ r[1] \in members /\ delivery'[r].attempts = 0
  <2>1. received[r] = 0
    BY <1>0, <1>3 DEF KnownInv, CopyInv
  <2> QED
    BY <1>0, <1>1, <1>3, <2>1 DEF Account, Quiet
<1> QED
  BY <1>2, <1>3, AttemptsFate

\* A send adds at most one copy, which is then in flight.
LEMMA SendKeepsAccount ==
  ASSUME TypeInv, PhaseInv, KnownInv, CopyInv, [Next]_vars, NEW w \in Workers, Send(w),
         NEW r \in Rows, delivery'[r].status # "none"
  PROVE  Account(r)'
<1>0. /\ received[r] \in Nat /\ delivery[r].attempts \in Nat /\ storeErrors \in Nat
      /\ restarts \in Nat
  BY DEF TypeInv, TypeOK
<1>1. /\ Flying(r) \in 0..2 /\ StillToLose(r) \in 0..2
      /\ StillToLose(r) <= Flying(r) + 2 * restarts
  BY FlightBounds
<1>2. /\ UNCHANGED <<delivery, process, bounds>> /\ Live(w)
      /\ worker[w].pc = "send" /\ WorkerStep(w)
  BY DEF Send, At, WorkerStep
<1>3. /\ worker'[w].ctx = worker[w].ctx /\ worker'[w].pc = "mark"
      /\ worker'[w].rcpts = worker[w].rcpts /\ worker'[w].todo = worker[w].todo
  <2>1. PICK outcome :
          Become(w, [worker[w] EXCEPT !.pc = "mark", !.verdict = VerdictOf(outcome)])
    BY DEF Send
  <2>2. worker'[w] = [worker[w] EXCEPT !.pc = "mark", !.verdict = VerdictOf(outcome)]
    BY <2>1 DEF Become, TypeInv
  <2>3. worker[w] \in Goroutines
    BY DEF TypeInv, TypeOK
  <2> QED
    BY <2>2, <2>3 DEF Goroutines
<1>4. \A v \in Workers \ {w} : worker'[v] = worker[v]
  BY <1>2, OthersStay
<1>5. \A v \in Workers \ {w} : InFlight(v, r)' <=> InFlight(v, r)
  BY <1>4 DEF InFlight, IsNext, Event
<1>6. ~InFlight(w, r) /\ worker'["main"].ctx = worker["main"].ctx
  BY <1>2, <1>3, <1>4 DEF InFlight, Workers
<1>7. Flying(r)' = Flying(r) + One(InFlight(w, r)')
  BY <1>5, <1>6 DEF Flying, One, Workers
<1>8. StillToLose(r)' = StillToLose(r)
  <2>1. CASE mode # "stopping"
    BY <1>2, <2>1 DEF StillToLose, process
  <2>2. CASE mode = "stopping"
    <3>1. w = "main" /\ worker["main"].ctx # "run" /\ ~expired
      BY <1>2, <2>2 DEF Live, PhaseInv, Workers
    <3>2. InFlight("retry", r)' <=> InFlight("retry", r)
      BY <1>5, <3>1 DEF Workers
    <3> QED
      BY <1>2, <1>6, <3>1, <3>2 DEF StillToLose, One, process
  <2> QED
    BY <2>1, <2>2
<1>9. received'[r] = received[r] \/ (received'[r] = received[r] + 1 /\ InFlight(w, r)')
  <2>1. ASSUME received'[r] # received[r]
        PROVE  received'[r] = received[r] + 1 /\ InFlight(w, r)'
    <3>1. PICK v \in Workers : Sends(v) /\ Holds(v, r) /\ IsNext(v, r[1])
      BY <2>1, ReceivedFate
    <3>2. v = w
      BY <1>4, <3>1 DEF Sends
    <3> QED
      BY <1>3, <2>1, <3>1, <3>2, ReceivedFate DEF InFlight, Holds, IsNext, Event
  <2> QED
    BY <2>1
<1>10. Account(r)
  BY <1>2 DEF CopyInv, Account
<1>11. UNCHANGED <<storeErrors, restarts>> /\ delivery'[r] = delivery[r]
  BY <1>2 DEF bounds
<1> QED
  BY <1>0, <1>1, <1>7, <1>8, <1>9, <1>10, <1>11 DEF Account, One

\* A mark lands a copy as an attempt, or as an error of the store.
LEMMA RecordKeepsAccount ==
  ASSUME TypeInv, PhaseInv, KnownInv, CopyInv, [Next]_vars, NEW w \in Workers, Record(w),
         NEW r \in Rows, delivery'[r].status # "none"
  PROVE  Account(r)'
<1>0. /\ received[r] \in Nat /\ delivery[r].attempts \in Nat /\ storeErrors \in Nat
      /\ restarts \in Nat
  BY DEF TypeInv, TypeOK
<1>1. /\ Flying(r) \in 0..2 /\ StillToLose(r) \in 0..2
  BY FlightBounds
<1>2. /\ UNCHANGED <<received, process>> /\ Live(w) /\ worker[w].pc = "mark" /\ WorkerStep(w)
  BY DEF Record, At, WorkerStep, history
<1>3. PICK s \in worker[w].rcpts :
        IsNext(w, s) /\ Mark(w, s, worker[w].verdict) /\ Advance(w, s)
  BY DEF Record
<1>4. \A v \in Workers \ {w} : worker'[v] = worker[v]
  BY <1>2, OthersStay
<1>5. \A v \in Workers \ {w} : InFlight(v, r)' <=> InFlight(v, r)
  BY <1>4 DEF InFlight, IsNext, Event
<1>6. worker'[w].pc # "mark"
  BY <1>2, <1>3, AdvanceMoves DEF LetsGo, MovesOn, TypeInv
<1>7. Flying(r)' = Flying(r) - One(InFlight(w, r))
  BY <1>5, <1>6 DEF Flying, One, Workers, InFlight
<1>8. StillToLose(r)' = StillToLose(r)
  <2>1. CASE mode # "stopping"
    BY <1>2, <2>1 DEF StillToLose, process
  <2>2. CASE mode = "stopping"
    <3>1. w = "main" /\ worker["main"].ctx = "drain" /\ ~expired
      BY <1>2, <2>2 DEF Live, PhaseInv, Workers, TypeInv, TypeOK, Goroutines
    <3>2. InFlight("retry", r)' <=> InFlight("retry", r)
      BY <1>5, <3>1 DEF Workers
    <3>3. mode' = "stopping" /\ ~expired'
      BY <1>2, <2>2, <3>1 DEF process
    <3>4. ~Exit /\ ~Crash
      BY <3>3 DEF Exit, Crash, Vanish
    <3>5. worker'["main"].ctx = "drain"
      BY <3>1, <3>4, CtxFate DEF Home, Idle, Workers
    <3> QED
      BY <2>2, <3>1, <3>2, <3>3, <3>5 DEF StillToLose, One
  <2> QED
    BY <2>1, <2>2
<1>9. /\ delivery[r].status # "none" /\ restarts' = restarts
      /\ \/ delivery'[r] = delivery[r] /\ storeErrors' = storeErrors /\ ~InFlight(w, r)
         \/ delivery'[r] = delivery[r] /\ storeErrors' = storeErrors + 1
         \/ delivery'[r].attempts = delivery[r].attempts + 1 /\ storeErrors' = storeErrors
  <2>1. CASE CallFails(w) /\ UNCHANGED delivery
    BY <1>2, <2>1 DEF CallFails
  <2>2. CASE MarkDelivery(s, Event(w), worker[w].verdict) /\ UNCHANGED bounds
    <3>1. \A d : MarkedRow(delivery[r], d).attempts = delivery[r].attempts + 1
      BY DEF MarkedRow
    <3>2. InFlight(w, r) => r = <<s, Event(w)>>
      BY <1>3, NextIsOne DEF InFlight, Rows
    <3>3. r = <<s, Event(w)>> =>
            \/ delivery[r].status = "none" /\ delivery' = delivery
            \/ /\ delivery[r].status # "none"
               /\ delivery'[r].attempts = delivery[r].attempts + 1
      BY <2>2, <3>1 DEF MarkDelivery, TypeInv, TypeOK
    <3>4. r # <<s, Event(w)>> => delivery'[r] = delivery[r]
      BY <2>2 DEF MarkDelivery, TypeInv, TypeOK
    <3>5. UNCHANGED <<storeErrors, restarts>>
      BY <2>2 DEF bounds
    <3> QED
      BY <3>2, <3>3, <3>4, <3>5
  <2> QED
    BY <1>3, <2>1, <2>2 DEF Mark
<1>10. Account(r)
  BY <1>9 DEF CopyInv, Account
<1> QED
  BY <1>0, <1>1, <1>2, <1>7, <1>8, <1>9, <1>10 DEF Account, One

\* A goroutine that abandons its work loses its flight, which the end of the
\* process has paid for.
LEMMA AbandonKeepsAccount ==
  ASSUME TypeInv, PhaseInv, KnownInv, CopyInv, [Next]_vars, NEW w \in Workers, Abandon(w),
         NEW r \in Rows, delivery'[r].status # "none"
  PROVE  Account(r)'
<1>0. /\ received[r] \in Nat /\ delivery[r].attempts \in Nat /\ storeErrors \in Nat
      /\ restarts \in Nat
  BY DEF TypeInv, TypeOK
<1>1. /\ Flying(r) \in 0..2 /\ StillToLose(r) \in 0..2
  BY FlightBounds
<1>2. /\ UNCHANGED <<received, process, delivery, bounds>> /\ ~Live(w) /\ WorkerStep(w)
      /\ mode # "down" /\ worker'[w] = Home(w)
  BY DEF Abandon, At, WorkerStep, history, GiveUp, Become, TypeInv
<1>3. mode = "stopping"
  BY <1>2 DEF Live, PhaseInv, TypeInv, TypeOK
<1>4. \A v \in Workers \ {w} : worker'[v] = worker[v]
  BY <1>2, OthersStay
<1>5. \A v \in Workers \ {w} : InFlight(v, r)' <=> InFlight(v, r)
  BY <1>4 DEF InFlight, IsNext, Event
<1>6. ~InFlight(w, r)'
  BY <1>2, HomeIsSound DEF InFlight
<1>7. Flying(r)' = Flying(r) - One(InFlight(w, r))
  BY <1>5, <1>6 DEF Flying, One, Workers
<1>8. StillToLose(r)' <= StillToLose(r) - One(InFlight(w, r))
  <2>1. CASE w = "retry"
    <3>1. worker'["main"] = worker["main"] /\ (InFlight("main", r)' <=> InFlight("main", r))
      BY <1>4, <1>5, <2>1 DEF Workers
    <3> QED
      BY <1>2, <1>3, <1>6, <2>1, <3>1 DEF StillToLose, One, process
  <2>2. CASE w = "main"
    <3>1. InFlight("retry", r)' <=> InFlight("retry", r)
      BY <1>5, <2>2 DEF Workers
    <3>2. worker'["main"].ctx = "drain"
      BY <1>2, <2>2 DEF Home, Idle
    <3>3. worker["main"].ctx # "run" => expired
      BY <1>2, <2>2 DEF Live
    <3> QED
      BY <1>2, <1>3, <1>6, <2>2, <3>1, <3>2, <3>3 DEF StillToLose, One, process
  <2> QED
    BY <2>1, <2>2 DEF Workers
<1>9. Account(r)
  BY <1>2 DEF CopyInv, Account
<1>10. UNCHANGED <<storeErrors, restarts>> /\ delivery'[r] = delivery[r]
  BY <1>2 DEF bounds
<1>11. StillToLose(r)' \in Int
  BY DEF StillToLose, One
<1> QED
  BY <1>0, <1>1, <1>2, <1>7, <1>8, <1>9, <1>10, <1>11 DEF Account, One

\* The stop of a process, its crash, its exit and the end of the drain keep accounts.
LEMMA ProcessKeepsAccount ==
  ASSUME TypeInv, PhaseInv, KnownInv, CopyInv, [Next]_vars,
         Shutdown \/ DrainExpires \/ Exit \/ Crash,
         NEW r \in Rows, delivery'[r].status # "none"
  PROVE  Account(r)'
<1>0. /\ received[r] \in Nat /\ delivery[r].attempts \in Nat /\ storeErrors \in Nat
      /\ restarts \in Nat
  BY DEF TypeInv, TypeOK
<1>1. /\ Flying(r) \in 0..2 /\ StillToLose(r) \in 0..2
  BY FlightBounds
<1>2. UNCHANGED <<received, storeErrors, delivery>>
  BY DEF Shutdown, DrainExpires, Exit, Crash, history, bounds
<1>3. Account(r)
  BY <1>2 DEF CopyInv, Account
<1>4. CASE Shutdown \/ DrainExpires
  <2>1. worker' = worker
    BY <1>4 DEF Shutdown, DrainExpires
  <2>2. \A w \in Workers : InFlight(w, r)' <=> InFlight(w, r)
    BY <2>1 DEF InFlight, IsNext, Event
  <2>3. Flying(r)' = Flying(r)
    BY <2>2 DEF Flying, One, Workers
  <2>4. CASE Shutdown
    <3>1. restarts' = restarts + 1 /\ StillToLose(r) = 0
      BY <2>4 DEF Shutdown, StillToLose
    <3>2. StillToLose(r)' \in 0..2
      <4>1. worker["main"].ctx = "run" => ~InFlight("retry", r)
        BY DEF PhaseInv, InFlight
      <4> QED
        BY <2>1, <2>2, <4>1 DEF StillToLose, One, Workers
    <3> QED
      BY <1>0, <1>1, <1>2, <1>3, <2>3, <3>1, <3>2 DEF Account
  <2>5. CASE DrainExpires
    <3>1. restarts' = restarts /\ mode' = mode /\ mode = "stopping" /\ ~expired
      BY <2>5 DEF DrainExpires, bounds
    <3>2. StillToLose(r)' <= StillToLose(r) /\ StillToLose(r)' \in Int
      BY <2>1, <2>2, <3>1 DEF StillToLose, One, Workers
    <3> QED
      BY <1>0, <1>1, <1>2, <1>3, <2>3, <3>1, <3>2 DEF Account
  <2> QED
    BY <1>4, <2>4, <2>5
<1>5. CASE Exit \/ Crash
  <2>1. Vanish
    BY <1>5 DEF Exit, Crash
  <2>2. StillToLose(r)' = 0
    BY <2>1 DEF Vanish, StillToLose
  <2>3. Flying(r)' = 0
    <3>1. \A w \in Workers : worker'[w].pc = "idle"
      BY <2>1, IdleIsSound DEF Vanish
    <3> QED
      BY <3>1 DEF Flying, InFlight, One, Workers
  <2>4. CASE Exit
    <3>1. Flying(r) = 0 /\ restarts' = restarts
      BY <2>4 DEF Exit, Flying, InFlight, One, bounds
    <3> QED
      BY <1>0, <1>1, <1>2, <1>3, <2>2, <2>3, <3>1 DEF Account
  <2>5. CASE Crash
    <3>1. restarts' = restarts + 1
      BY <2>5 DEF Crash
    <3> QED
      BY <1>0, <1>1, <1>2, <1>3, <2>2, <2>3, <3>1 DEF Account
  <2> QED
    BY <1>5, <2>4, <2>5
<1> QED
  BY <1>4, <1>5

\* A step keeps the accounts.
LEMMA CopyStep ==
  ASSUME TypeInv, PhaseInv, KnownInv, CopyInv, [Next]_vars
  PROVE  CopyInv'
<1>1. ASSUME NEW r \in Rows, delivery'[r].status # "none"
      PROVE  Account(r)'
  <2>1. CASE Shutdown \/ DrainExpires \/ Exit \/ Crash
    BY <1>1, <2>1, ProcessKeepsAccount
  <2>2. ASSUME NEW w \in Workers, WorkerStep(w), ~Exit, ~Crash
        PROVE  Account(r)'
    <3>1. CASE Send(w)
      BY <1>1, <3>1, SendKeepsAccount
    <3>2. CASE Record(w)
      BY <1>1, <3>2, RecordKeepsAccount
    <3>3. CASE Abandon(w)
      BY <1>1, <3>3, AbandonKeepsAccount
    <3>4. CASE ~Send(w) /\ ~Record(w) /\ ~Abandon(w)
      <4>1. worker[w].pc # "mark"
        BY <2>2, <3>4 DEF WorkerStep, Sweep, Receive, FindSubscribers, CreateDeliveries,
               LoadRecipients, Skip, LeaveLoop, At
      <4> QED
        BY <1>1, <2>2, <3>4, <4>1, QuietWork, QuietKeepsAccount
    <3> QED
      BY <3>1, <3>2, <3>3, <3>4
  <2>3. CASE \/ \E e \in Events : SaveEvent(e) \/ Publish(e) \/ PublishCancelled(e)
             \/ CloseBus \/ Start \/ Tick \/ UNCHANGED vars
             \/ \E s \in Fickle : UserStep(s)
    BY <1>1, <2>3, QuietWorld, QuietKeepsAccount
  <2> QED
    BY <2>1, <2>2, <2>3 DEF Next
<1>2. ASSUME NEW r \in Rows, delivery'[r].status = "none", received'[r] > 0
      PROVE  r[1] \in former'
  <2>1. former \subseteq former'
    BY LeaversStayAway DEF KnownInv
  <2>2. delivery[r].status = "none" \/ r[1] \in former'
    BY <1>2, RowsFate
  <2>3. CASE received'[r] = received[r]
    BY <1>2, <2>1, <2>2, <2>3 DEF CopyInv
  <2>4. CASE received'[r] # received[r]
    <3>1. \E w \in Workers : Holds(w, r)
      BY <2>4, ReceivedFate
    <3> QED
      BY <2>1, <2>2, <3>1 DEF KnownInv
  <2> QED
    BY <2>3, <2>4
<1> QED
  BY <1>1, <1>2 DEF CopyInv, Account

\* Every copy of an alert is a counted attempt, or in flight, or lost to an error
\* of the store or to the end of a process, which takes two at most.
THEOREM CopiesAreAccounted == Spec => []CopiesAccounted
<1>1. Init => TypeInv /\ PhaseInv /\ KnownInv /\ CopyInv
  <2> SUFFICES ASSUME Init PROVE PhaseInv /\ CopyInv
    BY InitTypes, InitKnown
  <2>1. \A w \in Workers : worker[w] = Idle("run")
    BY DEF Init
  <2>2. \A r \in Rows : delivery[r].status = "none" /\ received[r] = 0
    BY DEF Init, NoRow
  <2> QED
    BY <2>1, <2>2 DEF PhaseInv, CopyInv, Init, Idle, Workers
<1>2. TypeInv /\ PhaseInv /\ KnownInv /\ CopyInv /\ [Next]_vars
        => TypeInv' /\ PhaseInv' /\ KnownInv' /\ CopyInv'
  BY TypeStep, PhaseStep, KnownStep, CopyStep
<1>3. TypeInv /\ PhaseInv /\ CopyInv => CopiesAccounted
  <2> SUFFICES ASSUME TypeInv, PhaseInv, CopyInv, NEW r \in Rows,
                      delivery[r].status # "none"
               PROVE  received[r] <= delivery[r].attempts + storeErrors + 2 * restarts
                        + Cardinality({w \in Workers : worker[w].pc = "mark" /\ Holds(w, r)})
    BY DEF CopiesAccounted
  <2> DEFINE M == {w \in Workers : worker[w].pc = "mark" /\ Holds(w, r)}
  <2>1. \A w \in Workers : InFlight(w, r) => w \in M
    BY DEF InFlight, IsNext, Holds
  <2>2. Flying(r) <= Cardinality(M) /\ Cardinality(M) \in Nat
    <3>1. Cardinality({}) = 0 /\ Cardinality({"main"}) = 1 /\ Cardinality({"retry"}) = 1
      BY FS_EmptySet, FS_Singleton
    <3>2. Cardinality(Workers) = 2
      BY WorkersAreTwo
    <3>3. M \in {{}, {"main"}, {"retry"}, Workers}
      BY DEF Workers
    <3>4. Flying(r) = (IF InFlight("main", r) THEN 1 ELSE 0)
                      + (IF InFlight("retry", r) THEN 1 ELSE 0)
      BY DEF Flying, One
    <3> HIDE DEF M
    <3>5. CASE M = {}
      <4>1. ~InFlight("main", r) /\ ~InFlight("retry", r)
        BY <2>1, <3>5 DEF Workers
      <4> QED
        BY <3>1, <3>4, <3>5, <4>1
    <3>6. CASE M = {"main"}
      <4>1. "retry" \notin M
        BY <3>6
      <4>2. ~InFlight("retry", r)
        BY <2>1, <4>1 DEF Workers
      <4> QED
        BY <3>1, <3>4, <3>6, <4>2
    <3>7. CASE M = {"retry"}
      <4>1. "main" \notin M
        BY <3>7
      <4>2. ~InFlight("main", r)
        BY <2>1, <4>1 DEF Workers
      <4> QED
        BY <3>1, <3>4, <3>7, <4>2
    <3>8. CASE M = Workers
      BY <3>2, <3>4, <3>8
    <3> QED
      BY <3>3, <3>5, <3>6, <3>7, <3>8
  <2>3. /\ received[r] \in Nat /\ delivery[r].attempts \in Nat /\ storeErrors \in Nat
        /\ restarts \in Nat
    BY DEF TypeInv, TypeOK
  <2>4. Flying(r) \in 0..2 /\ StillToLose(r) \in 0..2
    BY FlightBounds
  <2>5. received[r] + StillToLose(r)
          <= ((delivery[r].attempts + storeErrors) + 2 * restarts) + Flying(r)
    BY DEF CopyInv
  <2> QED
    BY <2>2, <2>3, <2>4, <2>5
<1> QED
  BY <1>1, <1>2, <1>3, PTL DEF Spec
=============================================================================
