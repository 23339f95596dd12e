------------------------ MODULE DigestSchedulerProofs ------------------------
(***************************************************************************)
(* Theorems about DigestScheduler: its type invariant, that a digest       *)
(* recorded as sent has arrived whole, that the days of a subscriber share *)
(* no game, that no digest is missed while the passes keep up, and that    *)
(* every copy beyond the first is accounted for.  The third is about the   *)
(* arithmetic of slots: the windows of two days of one chat are DayLength  *)
(* apart.                                                                  *)
(***************************************************************************)
EXTENDS DigestScheduler, FiniteSetTheorems, TLAPS

(************************** Division of the hours ************************)

LEMMA DivMod ==
  ASSUME NEW a \in Int, NEW d \in Nat \ {0}
  PROVE  /\ a % d \in 0..(d - 1) /\ a \div d \in Int
         /\ a = d * (a \div d) + (a % d)
  BY SMT

LEMMA DivUnique ==
  ASSUME NEW q \in Int, NEW h \in Nat, NEW d \in Nat \ {0}, h < d
  PROVE  (d * q + h) \div d = q
  BY SMT

LEMMA Multiples ==
  ASSUME NEW q \in Int, NEW r \in Int, NEW d \in Nat \ {0}, q < r
  PROVE  q * d + d <= r * d
  BY SMT

\* The slot of a pass, in the hours of the clock, is the slot of its day, and that
\* day is one of Days.
LEMMA SlotOfDay ==
  ASSUME NEW id \in Ids, NEW t \in 0..Horizon
  PROVE  /\ DayOfSlot(id, t) \in Days
         /\ SlotOf(id[1], DayOfSlot(id, t)) = Slot(id, t) - Zone[id[1]]
<1> DEFINE z == Zone[id[1]]
           h == DigestHour[id[1]]
           q == ((t + z) - h) \div DayLength
<1>1. /\ z \in (-DayLength)..DayLength /\ h \in 0..(DayLength - 1)
      /\ DayLength \in Nat \ {0} /\ Horizon \in Nat /\ t \in Nat /\ t <= Horizon
  BY DigestAssumption DEF Ids
<1>2. /\ q \in Int /\ ((t + z) - h) % DayLength \in 0..(DayLength - 1)
      /\ (t + z) - h = DayLength * q + (((t + z) - h) % DayLength)
  <2>1. (t + z) - h \in Int
    BY <1>1
  <2> QED BY <1>1, <2>1, DivMod
<1> HIDE DEF z, h, q
<1>3. Slot(id, t) = DayLength * q + h
  <2> DEFINE m == ((t + z) - h) % DayLength
  <2>1. Slot(id, t) = (t + z) - m
    BY DEF Slot, LastOccurrence, LocalTime, z, h
  <2>2. m \in Int /\ (t + z) - h = DayLength * q + m
    BY <1>1, <1>2
  <2> DEFINE n == DayLength * q
  <2>3. n \in Int
    BY <1>1, <1>2
  <2> HIDE DEF m, n
  <2>4. m \in Int /\ (t + z) - h = n + m
    BY <2>2 DEF n
  <2>5. (t + z) - m = n + h
    BY <1>1, <2>3, <2>4
  <2> QED BY <2>1, <2>5 DEF n
<1>4. DayOfSlot(id, t) = q - 1
  <2>1. (DayLength * q + h) \div DayLength = q
    <3>1. q \in Int /\ h \in Nat /\ h < DayLength /\ DayLength \in Nat \ {0}
      BY <1>1, <1>2
    <3> QED BY ONLY <3>1, DivUnique
  <2>2. DayOfSlot(id, t) = (Slot(id, t) \div DayLength) - 1
    BY DEF DayOfSlot, DayOf
  <2> QED BY <1>3, <2>1, <2>2
<1>5. SlotOf(id[1], DayOfSlot(id, t)) = Slot(id, t) - z
  <2>1. SlotOf(id[1], DayOfSlot(id, t)) = q * DayLength + h - z
    BY <1>1, <1>2, <1>4 DEF SlotOf, z, h
  <2> QED BY <1>1, <1>2, <1>3, <2>1
<1>6. q - 1 >= -3
  <2>1. CASE q <= -3
    <3>1. q * DayLength + DayLength <= (-2) * DayLength
      BY <1>1, <1>2, <2>1, Multiples
    <3> QED BY <1>1, <1>2, <3>1
  <2> QED BY <1>2, <2>1
<1>7. q - 1 <= Horizon \div DayLength
  <2> DEFINE m == Horizon \div DayLength
  <2>1. /\ m \in Int /\ Horizon % DayLength \in 0..(DayLength - 1)
        /\ Horizon = DayLength * m + (Horizon % DayLength)
    BY <1>1, DivMod
  <2> HIDE DEF m
  <2>2. ~(m + 1 < q)
    <3> SUFFICES ASSUME m + 1 < q
                 PROVE  FALSE
      OBVIOUS
    <3>1. (m + 1) * DayLength + DayLength <= q * DayLength
      BY <1>1, <1>2, <2>1, Multiples
    <3> QED BY <1>1, <1>2, <2>1, <3>1
  <2>3. m \in Int /\ q \in Int
    BY <1>2, <2>1
  <2>4. q - 1 <= m
    BY ONLY <2>2, <2>3
  <2> QED BY <2>4 DEF m
<1> QED BY <1>1, <1>2, <1>4, <1>5, <1>6, <1>7, DivMod DEF Days, z

(**************************** Type correctness ***************************)

Delivering == {"compose", "send", "mark"}

TypeInv == TypeOK /\ (pass.pc \in Delivering => pass.hand.id \in Ids)

LEMMA RowsAreIds == TypeOK => Rows \subseteq Ids
  BY DEF TypeOK, Rows, Ids

LEMMA KeyType ==
  TypeInv /\ pass.pc \in Delivering => Day \in Days /\ Key \in Ids \X Days
<1> SUFFICES ASSUME TypeInv, pass.pc \in Delivering
             PROVE  Day \in Days /\ Key \in Ids \X Days
  OBVIOUS
<1>1. pass.hand.id \in Ids /\ pass.at \in 0..Horizon
  BY DEF TypeInv, TypeOK
<1> QED BY <1>1, SlotOfDay DEF Day, Key

Passes ==
  [pc: {"tick", "loop", "compose", "send", "mark"}, at: 0..Horizon,
   todo: SUBSET Ids, read: SUBSET Days, done: SUBSET (Ids \X Days),
   hand: Deliveries]

\* Deliveries of a pass that is delivering.
Hands == [id: Ids, games: SUBSET Games, part: 1..Parts, sent: BOOLEAN]

LEMMA IdleType == Idle \in Passes /\ Nobody \in Deliveries
BY DigestAssumption DEF Idle, Passes, Nobody, DeliveryTo, Deliveries

LEMMA IdleIsIdle == Idle \in Passes /\ Idle.pc \notin Delivering
BY IdleType DEF Idle, Delivering

LEMMA NobodyHasNoId == Nobody.id \notin Ids
BY DEF Nobody, DeliveryTo, Ids

LEMMA FaultType ==
  ASSUME TypeOK, Fault \/ UNCHANGED bounds
  PROVE  faults' \in 0..MaxFaults /\ restarts' \in 0..MaxRestarts
BY DigestAssumption DEF TypeOK, Fault, bounds

LEMMA VisitType ==
  ASSUME pass \in Passes, NEW id \in Ids, Visit(id)
  PROVE  pass' \in Passes /\ (pass'.pc \in Delivering => pass'.hand.id \in Ids)
<1>1. pass.at \in 0..Horizon /\ pass.pc = "loop" /\ Take(id) \in Passes /\ Take(id).pc = "loop"
  BY DEF Visit, Running, Passes, Take
<1>2. CASE pass' = Take(id) \/ Over
  BY <1>1, <1>2, IdleIsIdle DEF Over, Delivering
<1> DEFINE day == DayOfSlot(id, pass.at)
           next == [Take(id) EXCEPT !.read = @ \cup {day}, !.done = Known(day)]
<1>3. next \in Passes /\ next.pc = "loop"
  <2>1. day \in Days
    BY <1>1, SlotOfDay
  <2> HIDE DEF day
  <2>2. Known(day) \in SUBSET (Ids \X Days)
    BY <1>1, <2>1 DEF Known, Processed, Passes
  <2> QED BY <1>1, <2>1, <2>2 DEF Passes
<1>4. CASE pass' = next
  BY <1>3, <1>4 DEF Delivering
<1>5. CASE pass' = [next EXCEPT !.pc = "compose", !.hand = DeliveryTo(id)]
  <2>1. DeliveryTo(id) \in Deliveries /\ DeliveryTo(id).id = id
    BY DigestAssumption DEF DeliveryTo, Deliveries
  <2> HIDE DEF next
  <2> QED BY <1>3, <1>5, <2>1 DEF Passes
<1> QED BY <1>2, <1>4, <1>5 DEF Visit

LEMMA DeliverKeepsTypes ==
  ASSUME TypeInv, Deliver
  PROVE  TypeInv'
<1>0. TypeOK /\ pass \in Passes
  BY DEF TypeInv, TypeOK, Passes
<1>1. pass.pc \in Delivering /\ pass.hand \in Hands
  <2>1. pass.pc \in Delivering /\ pass.hand \in Deliveries /\ pass.hand.id \in Ids
    BY <1>0 DEF TypeInv, Passes, Delivering, Deliver, Compose, SendPart, SendRefused,
                SendFails, MarkDigestProcessed, Running
  <2> QED BY <2>1, NobodyHasNoId DEF Hands, Deliveries
<1>2. Key \in Ids \X Days /\ Day \in Days /\ pass.hand.id \in Ids
  BY <1>1, KeyType DEF Hands
<1>3. ASSUME Return
      PROVE  pass' \in Passes /\ pass'.pc \notin Delivering
  BY <1>0, <1>3, IdleType DEF Return, Passes, Delivering
<1>4. ASSUME Arrives
      PROVE  /\ begun' \in [Ids \X Days -> Nat] /\ whole' \subseteq (Ids \X Days)
             /\ reported' \subseteq (Ids \X Days \X Games) /\ late' \in BOOLEAN
  <2>1. begun' \in [Ids \X Days -> Nat]
    BY <1>0, <1>2, <1>4 DEF Arrives, TypeOK
  <2>2. whole' \subseteq (Ids \X Days)
    BY <1>0, <1>2, <1>4 DEF Arrives, TypeOK
  <2>3. reported' \subseteq (Ids \X Days \X Games)
    BY <1>0, <1>1, <1>2, <1>4 DEF Arrives, TypeOK, Hands
  <2>4. late' \in BOOLEAN
    BY <1>0, <1>4 DEF Arrives, TypeOK
  <2> QED BY <2>1, <2>2, <2>3, <2>4
<1>5. ASSUME Compose
      PROVE  TypeInv'
  <2> DEFINE games == GamesWithin(pass.hand.id, pass.at) \cap final
  <2>1. games \in SUBSET Games
    BY DEF GamesWithin
  <2> HIDE DEF games
  <2>2. CASE Fault /\ Err
    <3>1. pass' \in Passes /\ pass'.pc \notin Delivering
      BY <1>3, <2>2 DEF Err
    <3> QED BY <1>0, <1>5, <2>2, <3>1, FaultType
         DEF Compose, TypeInv, TypeOK, Passes, tables, history
  <2>3. CASE /\ pass' = [pass EXCEPT !.pc = IF games = {} THEN "mark" ELSE "send",
                                     !.hand.games = games]
             /\ UNCHANGED bounds
    <3>1. pass' \in Passes /\ pass'.hand.id \in Ids
      BY <1>0, <1>1, <2>1, <2>3 DEF Passes, Hands, Deliveries
    <3> QED BY <1>0, <1>5, <2>3, <3>1, FaultType
         DEF Compose, TypeInv, TypeOK, Passes, tables, history
  <2> QED BY <1>5, <2>2, <2>3 DEF Compose, games
<1>6. ASSUME SendPart
      PROVE  TypeInv'
  <2>1. pass' \in Passes /\ pass'.hand.id \in Ids
    <3>1. CASE pass.hand.part = Parts
      BY <1>0, <1>1, <1>6, <3>1 DEF SendPart, Passes, Hands, Deliveries
    <3>2. CASE pass.hand.part # Parts
      <4>1. pass' = [pass EXCEPT !.hand.part = pass.hand.part + 1]
        BY <1>6, <3>2 DEF SendPart
      <4>2. pass.hand.part + 1 \in 1..Parts
        BY <1>1, <3>2, DigestAssumption DEF Hands
      <4>3. [pass.hand EXCEPT !.part = pass.hand.part + 1] \in Hands
        BY <1>1, <4>2 DEF Hands
      <4>4. pass'.hand = [pass.hand EXCEPT !.part = pass.hand.part + 1]
        BY <1>0, <1>1, <4>1 DEF Passes, Hands
      <4> QED BY <1>0, <4>1, <4>3, <4>4 DEF Passes, Hands, Deliveries
    <3> QED BY <3>1, <3>2
  <2> QED BY <1>0, <1>4, <1>6, <2>1 DEF SendPart, TypeInv, TypeOK, Passes, tables, bounds
<1>7. ASSUME SendRefused
      PROVE  TypeInv'
  <2>1. pass' \in Passes /\ pass'.hand.id \in Ids
    BY <1>0, <1>1, <1>7 DEF SendRefused, Passes, Hands
  <2> QED BY <1>0, <1>7, <2>1
       DEF SendRefused, TypeInv, TypeOK, Passes, tables, bounds, history
<1>8. ASSUME SendFails
      PROVE  TypeInv'
  <2>1. pass' \in Passes /\ pass'.pc \notin Delivering
    BY <1>3, <1>8 DEF SendFails, Err
  <2>2. (Arrives \/ UNCHANGED history) /\ (Fault \/ UNCHANGED bounds)
    BY <1>8 DEF SendFails
  <2>3. faults' \in 0..MaxFaults /\ restarts' \in 0..MaxRestarts
    BY <1>0, <2>2, FaultType
  <2>4. /\ begun' \in [Ids \X Days -> Nat] /\ whole' \subseteq (Ids \X Days)
        /\ reported' \subseteq (Ids \X Days \X Games) /\ late' \in BOOLEAN
    BY <1>0, <1>4, <2>2 DEF history, TypeOK
  <2> QED BY <1>0, <1>8, <2>1, <2>3, <2>4 DEF SendFails, TypeInv, TypeOK, Passes, tables
<1>9. ASSUME MarkDigestProcessed
      PROVE  TypeInv'
  <2>1. pass' \in Passes /\ pass'.pc \notin Delivering
    BY <1>3, <1>9 DEF MarkDigestProcessed, Err
  <2>2. Fault \/ UNCHANGED bounds
    BY <1>9 DEF MarkDigestProcessed
  <2>3. faults' \in 0..MaxFaults /\ restarts' \in 0..MaxRestarts
    BY <1>0, <2>2, FaultType
  <2>4. runs' \subseteq (Ids \X Days \X BOOLEAN)
    <3>1. runs' = runs \/ runs' = runs \cup {<<pass.hand.id, Day, pass.hand.sent>>}
      BY <1>9 DEF MarkDigestProcessed
    <3>2. <<pass.hand.id, Day, pass.hand.sent>> \in Ids \X Days \X BOOLEAN
      BY <1>1, <1>2 DEF Hands
    <3> QED BY <1>0, <3>1, <3>2 DEF TypeOK
  <2> QED BY <1>0, <1>9, <2>1, <2>3, <2>4
       DEF MarkDigestProcessed, TypeInv, TypeOK, Passes, history
<1> QED BY <1>5, <1>6, <1>7, <1>8, <1>9 DEF Deliver

LEMMA StepKeepsTypes == TypeInv /\ [Next]_vars => TypeInv'
<1> SUFFICES ASSUME TypeInv, [Next]_vars
             PROVE  TypeInv'
  OBVIOUS
<1>0. TypeOK /\ pass \in Passes /\ (pass.pc \in Delivering => pass.hand.id \in Ids)
  BY DEF TypeInv, TypeOK, Passes
<1>1. ASSUME Clock
      PROVE  TypeInv'
  <2>1. now' \in 0..Horizon
    BY <1>0, <1>1, DigestAssumption DEF Clock, TypeOK
  <2> QED BY <1>0, <1>1, <2>1 DEF Clock, TypeInv, TypeOK, tables, bounds, history
<1>2. ASSUME NEW g \in Games, GameEnds(g)
      PROVE  TypeInv'
  BY <1>0, <1>2 DEF GameEnds, TypeInv, TypeOK, bounds, history
<1>3. ASSUME NEW c \in Chats, DeleteSubscriber(c)
      PROVE  TypeInv'
  BY <1>0, <1>3 DEF DeleteSubscriber, TypeInv, TypeOK, bounds, history
<1>4. ASSUME Tick
      PROVE  TypeInv'
  <2>1. pass' \in Passes /\ pass'.pc \notin Delivering
    BY <1>0, <1>4, IdleType, RowsAreIds DEF Tick, Passes, Idle, Delivering, TypeOK
  <2>2. onTime' \in BOOLEAN /\ <<faults, restarts>>' \in (0..MaxFaults) \X (0..MaxRestarts)
    BY <1>0, <1>4, FaultType, DigestAssumption DEF Tick, bounds, TypeOK
  <2> QED BY <1>0, <1>4, <2>1, <2>2 DEF Tick, TypeInv, TypeOK, Passes, tables, history
<1>5. ASSUME EndPass
      PROVE  TypeInv'
  <2>1. pass' = Idle /\ onTime' \in BOOLEAN
    BY <1>0, <1>5 DEF EndPass, Over, TypeOK
  <2> QED BY <1>0, <1>5, <2>1, IdleIsIdle
       DEF EndPass, TypeInv, TypeOK, Passes, tables, bounds, history
<1>6. ASSUME NEW id \in Ids, Visit(id)
      PROVE  TypeInv'
  <2>1. pass' \in Passes /\ (pass'.pc \in Delivering => pass'.hand.id \in Ids)
    BY <1>0, <1>6, VisitType
  <2>2. onTime' \in BOOLEAN /\ (Fault \/ UNCHANGED bounds)
    BY <1>0, <1>6 DEF Visit, Over, TypeOK
  <2>3. faults' \in 0..MaxFaults /\ restarts' \in 0..MaxRestarts
    BY <1>0, <2>2, FaultType
  <2> QED BY <1>0, <1>6, <2>1, <2>2, <2>3
       DEF Visit, TypeInv, TypeOK, Passes, tables, history
<1>7. ASSUME Deliver
      PROVE  TypeInv'
  BY <1>7, DeliverKeepsTypes
<1>8. ASSUME Stop \/ Start
      PROVE  TypeInv'
  <2>1. pass' \in Passes /\ (pass'.pc \in Delivering => pass'.hand.id \in Ids)
    BY <1>0, <1>8, IdleIsIdle DEF Stop, Start
  <2>2. mode' \in {"up", "down"} /\ faults' \in 0..MaxFaults /\ restarts' \in 0..MaxRestarts
    BY <1>0, <1>8, DigestAssumption DEF Stop, Start, TypeOK, bounds
  <2> QED BY <1>0, <1>8, <2>1, <2>2
       DEF Stop, Start, TypeInv, TypeOK, Passes, tables, history
<1>9. ASSUME NEW c \in Chats, EnsureSubscriber(c)
      PROVE  TypeInv'
  <2>1. joined' \in [Chats -> 1..MaxIds]
    BY <1>0, <1>9, DigestAssumption DEF EnsureSubscriber, TypeOK
  <2> QED BY <1>0, <1>9, <2>1 DEF EnsureSubscriber, TypeInv, TypeOK, bounds, history
<1>10. CASE UNCHANGED vars
  BY <1>0, <1>10 DEF vars, TypeInv, TypeOK, tables, bounds, history
<1> QED BY DigestAssumption, <1>1, <1>2, <1>3, <1>4, <1>5, <1>6, <1>7, <1>8, <1>9, <1>10
       DEF Next, Scheduler

LEMMA InitHasTypes == Init => TypeInv
<1> SUFFICES ASSUME Init PROVE TypeInv
  OBVIOUS
<1>1. pass = Idle /\ pass.pc = "tick"
  BY DEF Init, Idle
<1>2. pass \in Passes
  BY <1>1, IdleType
<1>3. now \in 0..Horizon /\ joined \in [Chats -> 1..MaxIds]
  BY DigestAssumption DEF Init
<1>4. faults \in 0..MaxFaults /\ restarts \in 0..MaxRestarts
  BY DigestAssumption DEF Init
<1>5. /\ final = {} /\ member = Chats /\ runs = {} /\ onTime = FALSE /\ mode = "up"
      /\ begun \in [Ids \X Days -> Nat] /\ whole = {} /\ reported = {}
      /\ late = FALSE
  BY DEF Init
<1> QED BY <1>1, <1>2, <1>3, <1>4, <1>5 DEF TypeInv, TypeOK, Passes, Delivering

\* The other invariants rest on the types.
LEMMA TypesHold == Spec => []TypeInv
<1>1. Init => TypeInv
  BY InitHasTypes
<1> QED BY <1>1, StepKeepsTypes, PTL DEF Spec

LEMMA HandInUse ==
  ASSUME TypeInv, pass.pc \in Delivering
  PROVE  /\ pass \in Passes /\ pass.hand \in Hands
         /\ Key \in Ids \X Days /\ Day \in Days /\ pass.hand.id \in Ids
<1>1. pass \in Passes /\ pass.hand \in Deliveries /\ pass.hand.id \in Ids
  BY DEF TypeInv, TypeOK, Passes
<1>2. pass.hand \in Hands
  BY <1>1, NobodyHasNoId DEF Hands, Deliveries
<1> QED BY <1>1, <1>2, KeyType

\* Every variable keeps its type, and the goroutine its place, whatever the zones,
\* the hours, the games, the number of subscribers and of parts, and the faults.
THEOREM SchedulerTypeCorrect == Spec => []TypeOK
<1>1. TypeInv => TypeOK
  BY DEF TypeInv
<1> QED BY <1>1, TypesHold, PTL

(*********************** A digest recorded as sent ***********************)

SentInv ==
  /\ SentMeansWhole
  /\ pass.hand.sent => pass.pc = "mark" /\ Key \in whole

\* Steps that leave the records alone, and the delivery at hand alone or empty.
LEMMA SentInvFrame ==
  ASSUME SentInv, UNCHANGED whole, runs' \subseteq runs,
         pass' = pass \/ ~pass'.hand.sent
  PROVE  SentInv'
<1>1. SentMeansWhole'
  BY DEF SentInv, SentMeansWhole
<1>2. CASE pass' = pass
  BY <1>1, <1>2 DEF SentInv, Key, Day
<1>3. CASE ~pass'.hand.sent
  BY <1>1, <1>3 DEF SentInv
<1> QED BY <1>2, <1>3

LEMMA StepKeepsSent == TypeInv /\ SentInv /\ [Next]_vars => SentInv'
<1> SUFFICES ASSUME TypeInv, SentInv, [Next]_vars
             PROVE  SentInv'
  OBVIOUS
<1>0. pass \in Passes
  BY DEF TypeInv, TypeOK, Passes
<1>1. ~Nobody.sent /\ Idle.hand = Nobody
  BY DEF Nobody, DeliveryTo, Idle
<1>2. CASE UNCHANGED <<pass, whole>> /\ runs' \subseteq runs
  BY <1>2, SentInvFrame
<1>3. ASSUME Clock \/ (\E g \in Games : GameEnds(g)) \/ Start
             \/ (\E c \in Chats : DeleteSubscriber(c) \/ EnsureSubscriber(c))
      PROVE  SentInv'
  BY <1>2, <1>3 DEF Clock, GameEnds, Start, DeleteSubscriber, EnsureSubscriber, tables,
                    history
<1>4. ASSUME Tick \/ EndPass \/ Stop
      PROVE  SentInv'
  <2>1. ~pass'.hand.sent
    BY <1>0, <1>1, <1>4 DEF Tick, EndPass, Stop, Over, Idle
  <2> QED BY <1>4, <2>1, SentInvFrame DEF Tick, EndPass, Stop, tables, history
<1>5. ASSUME NEW id \in Ids, Visit(id)
      PROVE  SentInv'
  <2>1. ~pass.hand.sent
    BY <1>5 DEF SentInv, Visit, Running
  <2>2. ~pass'.hand.sent
    <3>1. CASE pass' = Idle \/ pass' = Take(id)
      BY <1>0, <1>1, <2>1, <3>1 DEF Take, Passes
    <3> DEFINE next == [Take(id) EXCEPT !.read = @ \cup {DayOfSlot(id, pass.at)},
                                       !.done = Known(DayOfSlot(id, pass.at))]
    <3>2. next.hand = pass.hand
      BY <1>0 DEF Take, Passes
    <3>3. CASE pass' = next
      BY <2>1, <3>2, <3>3
    <3>4. CASE pass' = [next EXCEPT !.pc = "compose", !.hand = DeliveryTo(id)]
      <4>1. "hand" \in DOMAIN next
        BY <1>0 DEF Take, Passes
      <4> HIDE DEF next
      <4>2. pass'.hand = DeliveryTo(id)
        BY <3>4, <4>1
      <4> QED BY <4>2 DEF DeliveryTo
    <3> QED BY <1>5, <3>1, <3>3, <3>4 DEF Visit, Over
  <2> QED BY <1>5, <2>2, SentInvFrame DEF Visit, tables, history
<1>6. ASSUME Err
      PROVE  ~pass'.hand.sent
  BY <1>0, <1>1, <1>6 DEF Err, Return, Passes
<1>7. ASSUME Compose
      PROVE  SentInv'
  <2>1. pass.hand \in Hands /\ ~pass.hand.sent
    BY <1>7, HandInUse DEF Compose, Running, SentInv, Delivering
  <2>2. ~pass'.hand.sent
    <3> DEFINE games == GamesWithin(pass.hand.id, pass.at) \cap final
    <3>1. CASE Err
      BY <1>6, <3>1
    <3> HIDE DEF games
    <3>2. CASE pass' = [pass EXCEPT !.pc = IF games = {} THEN "mark" ELSE "send",
                                    !.hand.games = games]
      BY <1>0, <2>1, <3>2 DEF Passes, Hands
    <3> QED BY <1>7, <3>1, <3>2 DEF Compose, games
  <2> QED BY <1>7, <2>2, SentInvFrame DEF Compose, tables, history
<1>8. ASSUME SendPart
      PROVE  SentInv'
  <2>1. pass.hand \in Hands /\ ~pass.hand.sent
    BY <1>8, HandInUse DEF SendPart, Running, SentInv, Delivering
  <2>2. SentMeansWhole'
    BY <1>8 DEF SendPart, Arrives, tables, SentInv, SentMeansWhole
  <2>3. CASE pass.hand.part = Parts
    <3>1. pass' = [pass EXCEPT !.pc = "mark", !.hand.sent = TRUE] /\ Key \in whole'
      BY <1>8, <2>3 DEF SendPart, Arrives
    <3>2. Key' = Key /\ pass'.pc = "mark"
      BY <1>0, <2>1, <3>1 DEF Key, Day, Passes, Hands
    <3> QED BY <2>2, <3>1, <3>2 DEF SentInv
  <2>4. CASE pass.hand.part # Parts
    <3>1. ~pass'.hand.sent
      BY <1>0, <1>8, <2>1, <2>4 DEF SendPart, Passes, Hands
    <3> QED BY <2>2, <3>1 DEF SentInv
  <2> QED BY <2>3, <2>4
<1>9. ASSUME SendRefused
      PROVE  SentInv'
  <2>1. ~pass.hand.sent
    BY <1>9 DEF SendRefused, Running, SentInv
  <2>2. ~pass'.hand.sent
    BY <1>0, <1>9, <2>1 DEF SendRefused, Passes
  <2> QED BY <1>9, <2>2, SentInvFrame DEF SendRefused, tables, history
<1>10. ASSUME SendFails
       PROVE  SentInv'
  <2>1. SentMeansWhole'
    BY <1>10 DEF SendFails, Arrives, tables, history, SentInv, SentMeansWhole
  <2> QED BY <1>6, <1>10, <2>1 DEF SendFails, SentInv
<1>11. ASSUME MarkDigestProcessed
       PROVE  SentInv'
  <2>1. ~pass'.hand.sent
    BY <1>6, <1>11 DEF MarkDigestProcessed, Err
  <2>2. UNCHANGED whole
    BY <1>11 DEF MarkDigestProcessed, history
  <2>3. runs' = runs \/ runs' = runs \cup {<<pass.hand.id, Day, pass.hand.sent>>}
    BY <1>11 DEF MarkDigestProcessed
  <2>4. pass.hand.sent => <<pass.hand.id, Day>> \in whole
    BY DEF SentInv, Key
  <2>5. SentMeansWhole'
    BY <2>2, <2>3, <2>4 DEF SentInv, SentMeansWhole
  <2> QED BY <2>1, <2>5 DEF SentInv
<1>12. CASE UNCHANGED vars
  BY <1>2, <1>12 DEF vars, tables, history
<1> QED BY DigestAssumption, <1>3, <1>4, <1>5, <1>7, <1>8, <1>9, <1>10, <1>11, <1>12
        DEF Next, Scheduler, Deliver

\* A row of digest_runs with "sent" is a digest of which one whole copy arrived.
THEOREM SentDigestsAreWhole == Spec => []SentMeansWhole
<1>1. Init => SentInv
  BY DEF Init, SentInv, SentMeansWhole, Idle, Nobody, DeliveryTo
<1>2. SentInv => SentMeansWhole
  BY DEF SentInv
<1> QED BY <1>1, <1>2, StepKeepsSent, TypesHold, PTL DEF Spec

(*********************** The days share no game **************************)

\* Game g starts in the day before the slot of "day".
InWindow(c, day, g) ==
  SlotOf(c, day) - DayLength <= StartsAt[g] /\ StartsAt[g] < SlotOf(c, day)

WindowInv ==
  /\ \A x \in reported : InWindow(x[1][1], x[2], x[3])
  /\ pass.pc \in {"send", "mark"} =>
       \A g \in pass.hand.games : InWindow(pass.hand.id[1], Day, g)

LEMMA GamesWithinTheDay ==
  ASSUME NEW id \in Ids, NEW t \in 0..Horizon, NEW g \in GamesWithin(id, t)
  PROVE  InWindow(id[1], DayOfSlot(id, t), g)
BY SlotOfDay DEF GamesWithin, InWindow

\* The windows of two days of one chat do not meet.
LEMMA WindowsAreDisjoint ==
  ASSUME NEW c \in Chats, NEW d \in Days, NEW e \in Days, NEW g \in Games,
         InWindow(c, d, g), InWindow(c, e, g)
  PROVE  d = e
<1>1. /\ d \in Int /\ e \in Int /\ DayLength \in Nat \ {0} /\ StartsAt[g] \in Int
      /\ DigestHour[c] \in Int /\ Zone[c] \in Int
  BY DigestAssumption DEF Days
<1>2. ASSUME NEW p \in Int, NEW q \in Int, p < q, InWindow(c, p, g), InWindow(c, q, g)
      PROVE  FALSE
  <2>1. (p + 1) * DayLength + DayLength <= (q + 1) * DayLength
    BY <1>1, <1>2, Multiples
  <2> DEFINE m == (p + 1) * DayLength
             n == (q + 1) * DayLength
  <2>2. m \in Int /\ n \in Int /\ m + DayLength <= n
    BY <1>1, <2>1
  <2>3. /\ StartsAt[g] < m + (DigestHour[c] - Zone[c])
        /\ (n + (DigestHour[c] - Zone[c])) - DayLength <= StartsAt[g]
    BY <1>2 DEF InWindow, SlotOf
  <2> HIDE DEF m, n
  <2> QED BY <1>1, <2>2, <2>3
<1> QED BY <1>1, <1>2

\* Steps that report nothing and leave the delivery at hand alone or put it away.
LEMMA WindowInvFrame ==
  ASSUME WindowInv, UNCHANGED reported,
         \/ pass'.pc \notin {"send", "mark"}
         \/ /\ pass.pc \in {"send", "mark"} /\ pass'.at = pass.at
            /\ pass'.hand.id = pass.hand.id /\ pass'.hand.games = pass.hand.games
  PROVE  WindowInv'
<1>1. (\A x \in reported : InWindow(x[1][1], x[2], x[3]))'
  BY DEF WindowInv, InWindow, SlotOf
<1>2. CASE pass'.pc \notin {"send", "mark"}
  BY <1>1, <1>2 DEF WindowInv
<1>3. CASE /\ pass.pc \in {"send", "mark"} /\ pass'.at = pass.at
           /\ pass'.hand.id = pass.hand.id /\ pass'.hand.games = pass.hand.games
  <2>1. Day' = Day
    BY <1>3 DEF Day
  <2> QED BY <1>1, <1>3, <2>1 DEF WindowInv, InWindow, SlotOf
<1> QED BY <1>2, <1>3

LEMMA StepKeepsWindows == TypeInv /\ WindowInv /\ [Next]_vars => WindowInv'
<1> SUFFICES ASSUME TypeInv, WindowInv, [Next]_vars
             PROVE  WindowInv'
  OBVIOUS
<1>0. pass \in Passes
  BY DEF TypeInv, TypeOK, Passes
<1>1. CASE UNCHANGED <<pass, reported>>
  BY <1>1, WindowInvFrame
<1>2. ASSUME Clock \/ (\E g \in Games : GameEnds(g)) \/ Start
             \/ (\E c \in Chats : DeleteSubscriber(c) \/ EnsureSubscriber(c))
      PROVE  WindowInv'
  BY <1>1, <1>2 DEF Clock, GameEnds, Start, DeleteSubscriber, EnsureSubscriber, history
<1>3. ASSUME Tick \/ EndPass \/ Stop
      PROVE  WindowInv'
  <2>1. CASE pass' = Idle
    BY <2>1, WindowInvFrame, <1>3 DEF Idle, Tick, EndPass, Stop, history
  <2>2. CASE pass' = [Idle EXCEPT !.pc = "loop", !.at = now, !.todo = Rows]
    <3>1. pass'.pc = "loop"
      BY <2>2 DEF Idle
    <3> QED BY <1>3, <3>1, WindowInvFrame DEF Tick, EndPass, Stop, history
  <2> QED BY <1>3, <2>1, <2>2 DEF Tick, EndPass, Stop, Over
<1>4. ASSUME NEW id \in Ids, Visit(id)
      PROVE  WindowInv'
  <2>1. pass'.pc \notin {"send", "mark"}
    <3> DEFINE next == [Take(id) EXCEPT !.read = @ \cup {DayOfSlot(id, pass.at)},
                                       !.done = Known(DayOfSlot(id, pass.at))]
    <3>1. Take(id).pc = "loop" /\ next.pc = "loop" /\ "pc" \in DOMAIN next
      BY <1>0, <1>4 DEF Visit, Running, Take, Passes
    <3>2. CASE pass' \in {Idle, Take(id), next}
      <4> HIDE DEF next
      <4> QED BY <3>1, <3>2 DEF Idle
    <3>3. CASE pass' = [next EXCEPT !.pc = "compose", !.hand = DeliveryTo(id)]
      <4> HIDE DEF next
      <4> QED BY <3>1, <3>3
    <3> QED BY <1>4, <3>2, <3>3 DEF Visit, Over
  <2> QED BY <1>4, <2>1, WindowInvFrame DEF Visit, history
<1>5. ASSUME Err
      PROVE  pass'.pc = "loop"
  BY <1>0, <1>5 DEF Err, Return, Passes
<1>6. ASSUME Arrives, pass.pc \in {"send", "mark"}
      PROVE  \A x \in reported' : InWindow(x[1][1], x[2], x[3])
  BY <1>6, HandInUse DEF Arrives, WindowInv, Delivering
<1>7. ASSUME Compose
      PROVE  WindowInv'
  <2> DEFINE games == GamesWithin(pass.hand.id, pass.at) \cap final
  <2>1. pass.hand \in Hands /\ pass.hand.id \in Ids /\ pass.at \in 0..Horizon
    BY <1>0, <1>7, HandInUse DEF Compose, Running, Delivering, Passes
  <2>2. \A g \in games : InWindow(pass.hand.id[1], Day, g)
    BY <2>1, GamesWithinTheDay DEF Day
  <2>3. UNCHANGED reported
    BY <1>7 DEF Compose, history
  <2>4. CASE Err
    BY <1>5, <2>3, <2>4, WindowInvFrame
  <2> HIDE DEF games
  <2>5. CASE pass' = [pass EXCEPT !.pc = IF games = {} THEN "mark" ELSE "send",
                                  !.hand.games = games]
    <3>1. pass'.hand.games = games /\ pass'.hand.id = pass.hand.id /\ pass'.at = pass.at
      BY <1>0, <2>1, <2>5 DEF Passes, Hands
    <3>2. Day' = Day
      BY <3>1 DEF Day
    <3> QED BY <2>2, <2>3, <3>1, <3>2 DEF WindowInv, InWindow, SlotOf
  <2> QED BY <1>7, <2>4, <2>5 DEF Compose, games
<1>8. ASSUME SendPart
      PROVE  WindowInv'
  <2>1. pass.pc = "send" /\ pass.hand \in Hands
    BY <1>8, HandInUse DEF SendPart, Running, Delivering
  <2>2. /\ pass'.at = pass.at /\ pass'.hand.id = pass.hand.id
        /\ pass'.hand.games = pass.hand.games
    BY <1>0, <1>8, <2>1 DEF SendPart, Passes, Hands
  <2>3. \A x \in reported' : InWindow(x[1][1], x[2], x[3])
    BY <1>6, <1>8, <2>1 DEF SendPart
  <2>4. Day' = Day
    BY <2>2 DEF Day
  <2> QED BY <2>1, <2>2, <2>3, <2>4 DEF WindowInv, InWindow, SlotOf
<1>9. ASSUME SendRefused
      PROVE  WindowInv'
  <2>1. pass.pc = "send" /\ pass'.at = pass.at /\ pass'.hand = pass.hand
    BY <1>0, <1>9 DEF SendRefused, Running, Passes
  <2> QED BY <1>9, <2>1, WindowInvFrame DEF SendRefused, history
<1>10. ASSUME SendFails
       PROVE  WindowInv'
  <2>1. pass.pc = "send" /\ pass'.pc = "loop"
    BY <1>5, <1>10 DEF SendFails, Running
  <2>2. \A x \in reported' : InWindow(x[1][1], x[2], x[3])
    BY <1>6, <1>10, <2>1 DEF SendFails, WindowInv, history
  <2> QED BY <2>1, <2>2 DEF WindowInv, InWindow, SlotOf
<1>11. ASSUME MarkDigestProcessed
       PROVE  WindowInv'
  BY <1>5, <1>11, WindowInvFrame DEF MarkDigestProcessed, Err, history
<1>12. CASE UNCHANGED vars
  BY <1>1, <1>12 DEF vars, history
<1> QED BY DigestAssumption, <1>2, <1>3, <1>4, <1>7, <1>8, <1>9, <1>10, <1>11, <1>12
        DEF Next, Scheduler, Deliver

\* No game is told of on two days of one subscriber: neither the catch-up window, nor
\* midnight, nor a digest that starts over moves a game from one day to another.
THEOREM GamesHaveOneDay == Spec => []OneDayPerGame
<1>1. Init => WindowInv
  BY DEF Init, WindowInv, Idle
<1>2. TypeInv /\ WindowInv => OneDayPerGame
  <2> SUFFICES ASSUME TypeInv, WindowInv, NEW x \in reported, NEW y \in reported,
                      x[1] = y[1], x[3] = y[3]
               PROVE  x[2] = y[2]
    BY DEF OneDayPerGame
  <2>1. x \in Ids \X Days \X Games /\ y \in Ids \X Days \X Games
    BY DEF TypeInv, TypeOK
  <2>2. x[1][1] \in Chats /\ x[2] \in Days /\ y[2] \in Days /\ x[3] \in Games
    BY <2>1 DEF Ids
  <2>3. InWindow(x[1][1], x[2], x[3]) /\ InWindow(x[1][1], y[2], x[3])
    BY DEF WindowInv
  <2> QED BY <2>2, <2>3, WindowsAreDisjoint
<1> QED BY <1>1, <1>2, StepKeepsWindows, TypesHold, PTL DEF Spec

(************************** No digest is missed **************************)

\* Chats that have been there since the beginning and that Telegram does not fail.
Stays(c) == c \in member \ Flaky /\ joined[c] = 1

\* The hours in which a day's digest is due.
Open(c, day) == SlotOf(c, day) <= now /\ now <= SlotOf(c, day) + CatchUp

\* The pass of this hour has done with a subscriber.
PassedBy(id) ==
  /\ pass.pc # "tick" /\ pass.at = now /\ id \notin pass.todo
  /\ pass.pc \in Delivering => pass.hand.id # id

\* While a day is open, every hour of its window that has seen the end of a pass has
\* cost a failed call.
OnSchedule(c, day) ==
  /\ Open(c, day) => Closed(<<c, 1>>, day) \/ now - SlotOf(c, day) <= faults
  /\ Open(c, day) /\ (onTime \/ PassedBy(<<c, 1>>)) =>
       Closed(<<c, 1>>, day) \/ (now - SlotOf(c, day)) + 1 <= faults
  /\ SlotOf(c, day) + CatchUp < now => Closed(<<c, 1>>, day) \/ CatchUp + 1 <= faults

\* What a pass knows to be processed is.
KnownIsClosed ==
  \A k \in pass.done : k[1][2] = 1 /\ Stays(k[1][1]) => Closed(k[1], k[2])

AllOnSchedule ==
  ~late => \A c \in Chats, day \in Days :
    Stays(c) /\ 0 <= SlotOf(c, day) => OnSchedule(c, day)

ScheduleInv == pass.at <= now /\ KnownIsClosed /\ AllOnSchedule

LEMMA SlotsAreHours ==
  ASSUME NEW c \in Chats, NEW day \in Days
  PROVE  /\ SlotOf(c, day) \in Int /\ CatchUp \in Nat /\ DayLength \in Nat
         /\ CatchUp < DayLength
<1>1. /\ Zone[c] \in Int /\ DigestHour[c] \in Int /\ DayLength \in Nat \ {0}
      /\ day + 1 \in Int /\ CatchUp \in 0..(DayLength - 1)
  BY DigestAssumption DEF Days
<1>2. (day + 1) * DayLength \in Int
  BY <1>1
<1> QED
  BY <1>1, <1>2 DEF SlotOf

\* The slots of two days of a chat are a day apart.
LEMMA SlotsAreApart ==
  ASSUME NEW c \in Chats, NEW d \in Days, NEW e \in Days, d < e
  PROVE  SlotOf(c, d) + DayLength <= SlotOf(c, e)
<1> DEFINE m == (d + 1) * DayLength
           n == (e + 1) * DayLength
<1>1. /\ Zone[c] \in Int /\ DigestHour[c] \in Int /\ DayLength \in Nat \ {0}
      /\ d \in Int /\ e \in Int
  BY DigestAssumption DEF Days
<1>2. m \in Int /\ n \in Int /\ m + DayLength <= n
  BY <1>1, Multiples
<1>3. SlotOf(c, d) = m + DigestHour[c] - Zone[c] /\ SlotOf(c, e) = n + DigestHour[c] - Zone[c]
  BY DEF SlotOf
<1> HIDE DEF m, n
<1> QED
  BY <1>1, <1>2, <1>3

\* At an hour in which a day is due, the pass takes that day and no other.
LEMMA DueDayIsTaken ==
  ASSUME NEW id \in Ids, NEW day \in Days, NEW t \in 0..Horizon,
         SlotOf(id[1], day) <= t, t <= SlotOf(id[1], day) + CatchUp
  PROVE  DayOfSlot(id, t) = day /\ ~TooLate(id, t)
<1> DEFINE c == id[1]
           e == DayOfSlot(id, t)
           z == Zone[c]
           m == ((t + z) - DigestHour[c]) % DayLength
<1>1. /\ c \in Chats /\ z \in Int /\ DigestHour[c] \in Int /\ DayLength \in Nat \ {0}
      /\ Horizon \in Nat /\ t \in Int
  BY DigestAssumption DEF Ids
<1>2. e \in Days /\ SlotOf(c, e) = Slot(id, t) - z
  BY SlotOfDay
<1>3. m \in 0..(DayLength - 1)
  <2>1. (t + z) - DigestHour[c] \in Int
    BY <1>1
  <2> QED
    BY <1>1, <2>1, DivMod
<1>4. Slot(id, t) = (t + z) - m /\ LocalTime(c, t) = t + z
  BY DEF Slot, LastOccurrence, LocalTime
<1>5. SlotOf(c, day) \in Int /\ CatchUp \in Nat /\ CatchUp < DayLength
  BY <1>1, SlotsAreHours
<1> HIDE DEF c, e, z, m
<1>6. SlotOf(c, e) = t - m /\ m \in Nat /\ m < DayLength
  BY <1>1, <1>2, <1>3, <1>4
<1>7. SlotOf(c, day) <= t /\ t <= SlotOf(c, day) + CatchUp
  BY DEF c
<1>8. day \in Int /\ e \in Int
  BY <1>2, DigestAssumption DEF Days
<1>9. ~(day < e) /\ ~(e < day)
  <2>1. ASSUME day < e
        PROVE  FALSE
    BY <1>1, <1>2, <1>5, <1>6, <1>7, <2>1, SlotsAreApart
  <2>2. ASSUME e < day
        PROVE  FALSE
    BY <1>1, <1>2, <1>5, <1>6, <1>7, <2>2, SlotsAreApart
  <2> QED
    BY <2>1, <2>2
<1>10. e = day
  BY <1>8, <1>9
<1>11. ~TooLate(id, t)
  <2>1. t - m = SlotOf(c, day)
    BY <1>6, <1>10
  <2>2. LocalTime(c, t) - Slot(id, t) = m
    BY <1>1, <1>4, <1>6
  <2>3. ~(LocalTime(c, t) - Slot(id, t) > CatchUp)
    BY <1>1, <1>5, <1>6, <1>7, <2>1, <2>2
  <2> QED
    BY <2>3 DEF TooLate, c
<1> QED
  BY <1>10, <1>11 DEF e

\* A step within an hour keeps a day on schedule, if a pass gives up a subscriber only
\* for a closed day or at the cost of a failed call.
LEMMA WithinTheHour ==
  ASSUME NEW c \in Chats, NEW day \in Days, OnSchedule(c, day), UNCHANGED now,
         now \in Nat, faults \in Nat, faults' \in Nat, faults <= faults',
         Closed(<<c, 1>>, day) => Closed(<<c, 1>>, day)',
         Open(c, day) /\ (onTime \/ PassedBy(<<c, 1>>))' =>
           \/ onTime \/ PassedBy(<<c, 1>>)
           \/ faults' = faults + 1
           \/ Closed(<<c, 1>>, day)'
  PROVE  OnSchedule(c, day)'
<1> DEFINE s == SlotOf(c, day)
<1>1. s \in Int /\ CatchUp \in Nat
  BY SlotsAreHours
<1>2. s' = s /\ Open(c, day)' = Open(c, day)
  BY DEF SlotOf, Open
<1>3. /\ Open(c, day) => Closed(<<c, 1>>, day) \/ now - s <= faults
      /\ Open(c, day) /\ (onTime \/ PassedBy(<<c, 1>>)) =>
           Closed(<<c, 1>>, day) \/ (now - s) + 1 <= faults
      /\ s + CatchUp < now => Closed(<<c, 1>>, day) \/ CatchUp + 1 <= faults
  BY DEF OnSchedule
<1> HIDE DEF s
<1>4. Open(c, day) => Closed(<<c, 1>>, day)' \/ now - s <= faults'
  BY <1>1, <1>3
<1>5. Open(c, day) /\ (onTime \/ PassedBy(<<c, 1>>))' =>
        Closed(<<c, 1>>, day)' \/ (now - s) + 1 <= faults'
  <2>1. ASSUME Open(c, day), faults' = faults + 1
        PROVE  Closed(<<c, 1>>, day)' \/ (now - s) + 1 <= faults'
    BY <1>1, <1>3, <2>1
  <2>2. ASSUME Open(c, day), onTime \/ PassedBy(<<c, 1>>)
        PROVE  Closed(<<c, 1>>, day)' \/ (now - s) + 1 <= faults'
    BY <1>1, <1>3, <2>2
  <2> QED
    BY <2>1, <2>2
<1>6. s + CatchUp < now => Closed(<<c, 1>>, day)' \/ CatchUp + 1 <= faults'
  BY <1>1, <1>3
<1> QED
  BY <1>2, <1>4, <1>5, <1>6 DEF OnSchedule, s

\* One subscriber's row of digest_runs stays, as long as it is in subscribers.
LEMMA ClosedStays ==
  ASSUME NEW id \in Ids, NEW day \in Days,
         \A s \in BOOLEAN : <<id, day, s>> \in runs => <<id, day, s>> \in runs',
         Closed(id, day)
  PROVE  Closed(id, day)'
BY DEF Closed

\* The chats whose digest is owed, after a step, were owed it before, and kept
\* the days that were closed.
LEMMA StayingStays ==
  ASSUME TypeInv, [Next]_vars, NEW c \in Chats, Stays(c)'
  PROVE  /\ Stays(c)
         /\ \A day \in Days : Closed(<<c, 1>>, day) => Closed(<<c, 1>>, day)'
<1>0. TypeOK /\ <<c, 1>> \in Ids /\ joined[c] \in Nat
  BY DigestAssumption DEF TypeInv, TypeOK, Ids
<1>1. ASSUME runs \subseteq runs'
      PROVE  \A day \in Days : Closed(<<c, 1>>, day) => Closed(<<c, 1>>, day)'
  BY <1>1 DEF Closed
<1>2. ASSUME UNCHANGED <<member, joined>>
      PROVE  Stays(c)
  BY <1>2 DEF Stays
<1>3. ASSUME NEW x \in Chats, DeleteSubscriber(x)
      PROVE  /\ Stays(c)
             /\ \A day \in Days : Closed(<<c, 1>>, day) => Closed(<<c, 1>>, day)'
  <2>1. c # x /\ Stays(c)
    BY <1>3 DEF DeleteSubscriber, Stays
  <2>2. \A day \in Days, s \in BOOLEAN :
          <<<<c, 1>>, day, s>> \in runs => <<<<c, 1>>, day, s>> \in runs'
    BY <1>3, <2>1 DEF DeleteSubscriber
  <2> QED
    BY <1>0, <2>1, <2>2, ClosedStays
<1>4. ASSUME NEW x \in Chats, EnsureSubscriber(x)
      PROVE  Stays(c) /\ runs' = runs
  <2>1. joined' = [joined EXCEPT ![x] = @ + 1] /\ member' = member \cup {x} /\ runs' = runs
    BY <1>4 DEF EnsureSubscriber
  <2>2. c # x
    <3>1. SUFFICES ASSUME c = x
                   PROVE  FALSE
      OBVIOUS
    <3>2. joined'[c] = joined[c] + 1 /\ joined[c] \in 1..MaxIds
      BY <1>0, <2>1, <3>1 DEF TypeOK
    <3> QED
      BY <3>2 DEF Stays
  <2>3. joined'[c] = joined[c] /\ c \in member
    BY <1>0, <2>1, <2>2 DEF TypeOK, Stays
  <2> QED
    BY <2>1, <2>3 DEF Stays
<1>5. ASSUME MarkDigestProcessed
      PROVE  UNCHANGED <<member, joined>> /\ runs \subseteq runs'
  BY <1>5 DEF MarkDigestProcessed
<1>6. ASSUME UNCHANGED tables \/ (\E g \in Games : GameEnds(g))
      PROVE  UNCHANGED <<member, joined>> /\ runs \subseteq runs'
  BY <1>6 DEF tables, GameEnds
<1>7. \/ UNCHANGED tables
      \/ \E g \in Games : GameEnds(g)
      \/ \E x \in Fickle : DeleteSubscriber(x) \/ EnsureSubscriber(x)
      \/ MarkDigestProcessed
  BY DEF Next, Scheduler, Deliver, Clock, Tick, EndPass, Visit, Compose, SendPart,
         SendRefused, SendFails, Stop, Start, vars
<1> QED
  BY DigestAssumption, <1>1, <1>2, <1>3, <1>4, <1>5, <1>6, <1>7

LEMMA DeliverInUse ==
  ASSUME TypeInv, Deliver
  PROVE  /\ pass \in Passes /\ pass.pc \in Delivering /\ pass.hand \in Hands
         /\ pass.at \in 0..Horizon
<1>1. pass.pc \in Delivering
  BY DEF Deliver, Compose, SendPart, SendRefused, SendFails, MarkDigestProcessed,
         Running, Delivering
<1> QED
  BY <1>1, HandInUse DEF Passes

\* What becomes of the pass: it ends, takes a subscriber off its list, or goes on
\* with the delivery at hand or puts it away.
LEMMA PassGoesOn ==
  ASSUME TypeInv, Deliver
  PROVE  /\ pass'.at = pass.at /\ pass'.todo = pass.todo /\ pass'.done = pass.done
         /\ pass'.read = pass.read /\ pass'.pc # "tick"
         /\ \/ pass'.hand.id = pass.hand.id /\ pass'.pc \in Delivering /\ UNCHANGED runs
            \/ pass'.pc = "loop" /\ (Fault \/ SendFails \/ MarkDigestProcessed)
<1>0. pass \in Passes /\ pass.hand \in Hands
  BY DeliverInUse
<1>1. ASSUME Return
      PROVE  /\ pass'.at = pass.at /\ pass'.todo = pass.todo /\ pass'.done = pass.done
             /\ pass'.read = pass.read /\ pass'.pc = "loop"
  BY <1>0, <1>1 DEF Return, Passes
<1> DEFINE Same ==
      /\ pass'.at = pass.at /\ pass'.todo = pass.todo /\ pass'.done = pass.done
      /\ pass'.read = pass.read /\ pass'.pc # "tick" /\ pass'.hand.id = pass.hand.id
      /\ pass'.pc \in Delivering /\ UNCHANGED runs
<1>2. ASSUME Compose
      PROVE  (Return /\ Fault) \/ Same
  <2> DEFINE games == GamesWithin(pass.hand.id, pass.at) \cap final
             pc == IF games = {} THEN "mark" ELSE "send"
  <2>1. \/ Return /\ Fault
        \/ pass' = [pass EXCEPT !.pc = pc, !.hand.games = games] /\ UNCHANGED runs
    BY <1>2 DEF Compose, Err, tables
  <2>2. pc # "tick" /\ pc \in Delivering
    BY DEF Delivering
  <2> HIDE DEF games, pc
  <2>3. CASE pass' = [pass EXCEPT !.pc = pc, !.hand.games = games] /\ UNCHANGED runs
    BY <1>0, <2>2, <2>3 DEF Passes, Hands
  <2> QED
    BY <2>1, <2>3
<1>3. ASSUME SendPart
      PROVE  Same
  BY <1>0, <1>3 DEF SendPart, Running, Passes, Hands, Delivering, tables
<1>4. ASSUME SendRefused
      PROVE  Same
  BY <1>0, <1>4 DEF SendRefused, Passes, Delivering, tables
<1>5. ASSUME SendFails \/ MarkDigestProcessed
      PROVE  Return
  BY <1>5 DEF SendFails, MarkDigestProcessed, Err
<1> QED
  BY <1>1, <1>2, <1>3, <1>4, <1>5 DEF Deliver

\* The pass keeps to days that are closed, whatever it goes on with.
LEMMA KnownStays ==
  ASSUME TypeInv, [Next]_vars, KnownIsClosed,
         \A k \in pass'.done : k \in pass.done \/ Closed(k[1], k[2])',
         pass'.done \subseteq Ids \X Days
  PROVE  KnownIsClosed'
<1> SUFFICES ASSUME NEW k \in pass'.done, k[1][2] = 1, Stays(k[1][1])'
             PROVE  Closed(k[1], k[2])'
  BY DEF KnownIsClosed
<1>1. k[1] = <<k[1][1], 1>> /\ k[1][1] \in Chats /\ k[2] \in Days
  BY DEF Ids
<1>2. CASE k \in pass.done
  BY <1>1, <1>2, StayingStays DEF KnownIsClosed
<1> QED
  BY <1>2

\* The counts of calls that fail.
LEMMA FaultsGrow ==
  ASSUME TypeInv, [Next]_vars
  PROVE  faults \in Nat /\ faults' \in Nat /\ faults <= faults' /\ now \in Nat
<1>1. TypeInv'
  BY StepKeepsTypes
<1>2. faults \in Nat /\ faults' \in Nat /\ now \in Nat
  BY <1>1, DigestAssumption DEF TypeInv, TypeOK
<1>3. faults' = faults \/ faults' = faults + 1
  BY DEF Next, Scheduler, Deliver, Clock, GameEnds, DeleteSubscriber, EnsureSubscriber,
         Tick, EndPass, Visit, Compose, SendPart, SendRefused, SendFails,
         MarkDigestProcessed, Stop, Start, Fault, bounds, vars
<1> QED
  BY <1>2, <1>3

\* A step within an hour keeps the schedule, if a pass gives up a subscriber only
\* for a closed day or at the cost of a failed call.
LEMMA ScheduleStays ==
  ASSUME TypeInv, [Next]_vars, ScheduleInv, UNCHANGED now, UNCHANGED late,
         NEW c \in Chats, NEW day \in Days, ~late', Stays(c)', 0 <= SlotOf(c, day),
         Open(c, day) /\ (onTime \/ PassedBy(<<c, 1>>))' =>
           \/ onTime \/ PassedBy(<<c, 1>>)
           \/ faults' = faults + 1
           \/ Closed(<<c, 1>>, day)'
  PROVE  OnSchedule(c, day)'
<1>1. Stays(c) /\ (Closed(<<c, 1>>, day) => Closed(<<c, 1>>, day)')
  BY StayingStays
<1>2. OnSchedule(c, day)
  BY <1>1 DEF ScheduleInv, AllOnSchedule
<1> QED
  BY <1>1, <1>2, FaultsGrow, WithinTheHour

LEMMA ClockKeepsSchedule ==
  ASSUME TypeInv, ScheduleInv, Clock
  PROVE  ScheduleInv'
<1>1. /\ now' = now + 1 /\ onTime' = FALSE /\ late' = (late \/ ~onTime)
      /\ UNCHANGED <<final, member, joined, runs, pass, faults>>
  BY DEF Clock, tables, bounds
<1>2. now \in Nat /\ faults \in Nat /\ pass.at \in Nat
  BY DigestAssumption DEF TypeInv, TypeOK
<1>3. pass'.at <= now' /\ pass'.at # now'
  BY <1>1, <1>2 DEF ScheduleInv
<1>4. KnownIsClosed'
  BY <1>1 DEF ScheduleInv, KnownIsClosed, Closed, Stays
<1>5. ASSUME NEW c \in Chats, NEW day \in Days, ~late', Stays(c)', 0 <= SlotOf(c, day)
      PROVE  OnSchedule(c, day)'
  <2> DEFINE s == SlotOf(c, day)
  <2>1. s \in Int /\ CatchUp \in Nat /\ 0 <= s
    BY <1>5, SlotsAreHours
  <2>2. ~late /\ onTime
    BY <1>1, <1>5
  <2>3. OnSchedule(c, day)
    BY <1>1, <1>5, <2>2 DEF ScheduleInv, AllOnSchedule, Stays
  <2>4. ~PassedBy(<<c, 1>>)' /\ ~onTime'
    BY <1>1, <1>3 DEF PassedBy
  <2>5. s' = s /\ Closed(<<c, 1>>, day)' = Closed(<<c, 1>>, day)
    BY <1>1 DEF SlotOf, Closed
  <2>6. /\ s <= now /\ now <= s + CatchUp => Closed(<<c, 1>>, day) \/ (now - s) + 1 <= faults
        /\ s + CatchUp < now => Closed(<<c, 1>>, day) \/ CatchUp + 1 <= faults
    BY <2>2, <2>3 DEF OnSchedule, Open
  <2> HIDE DEF s
  <2>7. s <= now' /\ now' <= s + CatchUp => Closed(<<c, 1>>, day) \/ now' - s <= faults
    BY <1>1, <1>2, <2>1, <2>6
  <2>8. s + CatchUp < now' => Closed(<<c, 1>>, day) \/ CatchUp + 1 <= faults
    BY <1>1, <1>2, <2>1, <2>6
  <2> QED
    BY <1>1, <2>4, <2>5, <2>7, <2>8 DEF OnSchedule, Open, s
<1>6. AllOnSchedule'
  BY <1>5 DEF AllOnSchedule, SlotOf
<1> QED
  BY <1>3, <1>4, <1>6 DEF ScheduleInv

\* What a step within an hour must keep to.
LEMMA StepWithinTheHour ==
  ASSUME TypeInv, [Next]_vars, ScheduleInv, UNCHANGED now, UNCHANGED late,
         pass'.at <= now,
         \A k \in pass'.done : k \in pass.done \/ Closed(k[1], k[2])',
         \A c \in Chats, day \in Days :
           Stays(c)' /\ Open(c, day) /\ (onTime \/ PassedBy(<<c, 1>>))' =>
             \/ onTime \/ PassedBy(<<c, 1>>)
             \/ faults' = faults + 1
             \/ Closed(<<c, 1>>, day)'
  PROVE  ScheduleInv'
<1>1. pass'.done \subseteq Ids \X Days
  BY StepKeepsTypes DEF TypeInv, TypeOK
<1>2. KnownIsClosed'
  BY <1>1, KnownStays DEF ScheduleInv
<1>3. ASSUME NEW c \in Chats, NEW day \in Days, ~late', Stays(c)', 0 <= SlotOf(c, day)
      PROVE  OnSchedule(c, day)'
  BY <1>3, ScheduleStays
<1>4. AllOnSchedule'
  BY <1>3 DEF AllOnSchedule, SlotOf
<1> QED
  BY <1>2, <1>4 DEF ScheduleInv

LEMMA TickKeepsSchedule ==
  ASSUME TypeInv, ScheduleInv, [Next]_vars, Tick \/ EndPass \/ Stop
  PROVE  ScheduleInv'
<1>0. pass \in Passes /\ now \in Nat
  BY DigestAssumption DEF TypeInv, TypeOK, Passes
<1>1. UNCHANGED <<now, late, member, joined>>
  BY DEF Tick, EndPass, Stop, history, tables
<1>2. Idle.pc = "tick" /\ Idle.at = 0 /\ Idle.done = {}
  BY DEF Idle
<1>3. \/ pass' = Idle
      \/ pass' = [Idle EXCEPT !.pc = "loop", !.at = now, !.todo = Rows] /\ onTime' = onTime
  BY DEF Tick, EndPass, Stop, Over
<1>4. CASE pass' = Idle
  <2>1. pass'.at <= now /\ pass'.done = {} /\ pass'.pc = "tick"
    BY <1>0, <1>2, <1>4
  <2>2. ASSUME NEW c \in Chats, NEW day \in Days, (onTime \/ PassedBy(<<c, 1>>))'
        PROVE  onTime \/ PassedBy(<<c, 1>>) \/ faults' = faults + 1
    <3>1. onTime'
      BY <2>1, <2>2 DEF PassedBy
    <3>2. onTime \/ faults' = faults + 1 \/ (EndPass /\ pass.at = now)
      BY <3>1 DEF Tick, EndPass, Stop, Over, Fault
    <3>3. CASE EndPass /\ pass.at = now
      BY <3>3 DEF EndPass, Running, PassedBy, Delivering
    <3> QED
      BY <3>2, <3>3
  <2> QED
    BY <1>1, <2>1, <2>2, StepWithinTheHour
<1>5. CASE /\ pass' = [Idle EXCEPT !.pc = "loop", !.at = now, !.todo = Rows]
           /\ onTime' = onTime
  <2>1. pass'.at = now /\ pass'.done = {} /\ pass'.todo = Rows
    BY <1>5 DEF Idle
  <2>2. ASSUME NEW c \in Chats, NEW day \in Days, Stays(c)', (onTime \/ PassedBy(<<c, 1>>))'
        PROVE  onTime
    <3>1. <<c, 1>> \in Rows
      BY <1>1, <2>2 DEF Stays, Rows
    <3> QED
      BY <1>5, <2>1, <2>2, <3>1 DEF PassedBy
  <2> QED
    BY <1>0, <1>1, <2>1, <2>2, StepWithinTheHour
<1> QED
  BY <1>3, <1>4, <1>5

LEMMA VisitKeepsSchedule ==
  ASSUME TypeInv, ScheduleInv, [Next]_vars, NEW id \in Ids, Visit(id)
  PROVE  ScheduleInv'
<1> DEFINE d == DayOfSlot(id, pass.at)
           next == [Take(id) EXCEPT !.read = @ \cup {d}, !.done = Known(d)]
<1>0. /\ pass \in Passes /\ now \in Nat /\ pass.at \in 0..Horizon /\ pass.at <= now
      /\ pass.pc = "loop" /\ 0 <= now
  BY DigestAssumption DEF TypeInv, TypeOK, Passes, ScheduleInv, Visit, Running
<1>1. UNCHANGED <<now, late, member, joined, runs>>
  BY DEF Visit, history, tables
<1>2. \A c \in Chats, day \in Days : Closed(<<c, 1>>, day)' = Closed(<<c, 1>>, day)
  BY <1>1 DEF Closed
<1>3. /\ Take(id).at = pass.at /\ Take(id).pc = "loop" /\ Take(id).todo = pass.todo \ {id}
      /\ Take(id).done = pass.done /\ Take(id) \in Passes
  BY <1>0 DEF Take, Passes
<1>4. /\ next.at = pass.at /\ next.pc = "loop" /\ next.todo = pass.todo \ {id}
      /\ next.done = Known(d) /\ DOMAIN next = DOMAIN pass
  BY <1>0 DEF Take, Passes
<1>5. \A k \in Known(d) : k \in pass.done \/ Closed(k[1], k[2])'
  BY <1>1 DEF Known, Processed, Closed
<1>6. ASSUME NEW c \in Chats, NEW day \in Days, Open(c, day), pass.at = now, id = <<c, 1>>
      PROVE  d = day /\ ~TooLate(id, pass.at)
  BY <1>0, <1>6, DueDayIsTaken DEF Open
<1>7. ASSUME NEW p, p.at = pass.at, p.pc = "loop", p.todo = pass.todo \ {id}, pass' = p,
             onTime' = onTime, NEW c \in Chats, (onTime \/ PassedBy(<<c, 1>>))',
             id # <<c, 1>>
      PROVE  onTime \/ PassedBy(<<c, 1>>)
  BY <1>0, <1>1, <1>7 DEF PassedBy, Delivering
<1>8. CASE Fault /\ Over
  <2>1. pass'.at <= now /\ pass'.done = {} /\ faults' = faults + 1
    BY <1>0, <1>8 DEF Over, Idle, Fault
  <2> QED
    BY <1>1, <2>1, StepWithinTheHour
<1>9. CASE TooLate(id, pass.at) /\ pass' = Take(id) /\ UNCHANGED <<onTime, bounds>>
  <2>1. ASSUME NEW c \in Chats, NEW day \in Days, Open(c, day), (onTime \/ PassedBy(<<c, 1>>))'
        PROVE  onTime \/ PassedBy(<<c, 1>>)
    <3>1. CASE id = <<c, 1>>
      BY <1>1, <1>3, <1>6, <1>9, <2>1, <3>1 DEF PassedBy
    <3>2. CASE id # <<c, 1>>
      BY <1>3, <1>7, <1>9, <2>1, <3>2
    <3> QED
      BY <3>1, <3>2
  <2> QED
    BY <1>0, <1>1, <1>3, <1>9, <2>1, StepWithinTheHour
<1> HIDE DEF next
<1>10. CASE <<id, d>> \in Known(d) /\ pass' = next /\ UNCHANGED <<onTime, bounds>>
  <2>1. ASSUME NEW c \in Chats, NEW day \in Days, Stays(c)', Open(c, day),
               (onTime \/ PassedBy(<<c, 1>>))'
        PROVE  onTime \/ PassedBy(<<c, 1>>) \/ Closed(<<c, 1>>, day)'
    <3>1. CASE id = <<c, 1>> /\ ~onTime
      <4>1. pass.at = now
        BY <1>1, <1>4, <1>10, <2>1, <3>1 DEF PassedBy
      <4>2. d = day
        BY <1>6, <2>1, <3>1, <4>1
      <4>3. <<id, day>> \in pass.done \/ Closed(id, day)'
        BY <1>5, <1>10, <4>2
      <4>4. CASE <<id, day>> \in pass.done
        BY <1>1, <1>2, <2>1, <3>1, <4>4 DEF ScheduleInv, KnownIsClosed, Stays
      <4> QED
        BY <3>1, <4>3, <4>4
    <3>2. CASE id # <<c, 1>>
      BY <1>4, <1>7, <1>10, <2>1, <3>2
    <3> QED
      BY <3>1, <3>2
  <2> QED
    BY <1>0, <1>1, <1>4, <1>5, <1>10, <2>1, StepWithinTheHour
<1>11. CASE /\ pass' = [next EXCEPT !.pc = "compose", !.hand = DeliveryTo(id)]
            /\ UNCHANGED <<onTime, bounds>>
  <2>1. /\ pass'.at = pass.at /\ pass'.pc = "compose" /\ pass'.todo = pass.todo \ {id}
        /\ pass'.done = Known(d) /\ pass'.hand = DeliveryTo(id) /\ pass'.hand.id = id
    <3>1. "pc" \in DOMAIN next /\ "hand" \in DOMAIN next
      BY <1>0, <1>4 DEF Passes
    <3>2. DeliveryTo(id).id = id
      BY DEF DeliveryTo
    <3> QED
      BY <1>4, <1>11, <3>1, <3>2
  <2>2. ASSUME NEW c \in Chats, (onTime \/ PassedBy(<<c, 1>>))'
        PROVE  onTime \/ PassedBy(<<c, 1>>)
    BY <1>0, <1>1, <1>11, <2>1, <2>2 DEF PassedBy, Delivering
  <2> QED
    BY <1>0, <1>1, <1>5, <2>1, <2>2, StepWithinTheHour
<1> QED
  BY <1>8, <1>9, <1>10, <1>11 DEF Visit, next

LEMMA DeliverKeepsSchedule ==
  ASSUME TypeInv, ScheduleInv, [Next]_vars, Deliver
  PROVE  ScheduleInv'
<1>0. /\ pass \in Passes /\ pass.pc \in Delivering /\ pass.hand \in Hands
      /\ pass.at \in 0..Horizon /\ pass.at <= now
  BY DeliverInUse DEF ScheduleInv
<1>1. UNCHANGED <<now, late, member, joined, onTime>>
  BY DEF Deliver, Compose, SendPart, SendRefused, SendFails, MarkDigestProcessed,
         Arrives, history, tables
<1>2. /\ pass'.at = pass.at /\ pass'.todo = pass.todo /\ pass'.done = pass.done
      /\ pass'.pc # "tick"
      /\ \/ pass'.hand.id = pass.hand.id /\ pass'.pc \in Delivering
         \/ Fault \/ SendFails \/ MarkDigestProcessed
  BY PassGoesOn
<1>3. ASSUME NEW c \in Chats, NEW day \in Days, Stays(c)', Open(c, day), PassedBy(<<c, 1>>)'
      PROVE  PassedBy(<<c, 1>>) \/ faults' = faults + 1 \/ Closed(<<c, 1>>, day)'
  <2>1. pass.at = now /\ <<c, 1>> \notin pass.todo /\ pass.pc # "tick"
    BY <1>0, <1>1, <1>2, <1>3 DEF PassedBy, Delivering
  <2>2. CASE pass.hand.id # <<c, 1>>
    BY <2>1, <2>2 DEF PassedBy
  <2>3. CASE pass.hand.id = <<c, 1>>
    <3>1. pass.hand.id \in Ids /\ pass.hand.id[1] = c /\ c \notin Flaky
      BY <1>0, <1>3, <2>3 DEF Hands, Stays
    <3>2. Day = day
      BY <1>0, <1>3, <2>1, <3>1, DueDayIsTaken DEF Open, Day
    <3>3. Exists(pass.hand.id)
      BY <1>1, <1>3, <2>3 DEF Exists, Stays
    <3>4. CASE Fault
      BY <3>4 DEF Fault
    <3>5. CASE SendFails
      BY <3>1, <3>4, <3>5 DEF SendFails
    <3>6. CASE MarkDigestProcessed /\ ~Fault
      <4>1. \/ Key \in Processed(Day) /\ runs' = runs
            \/ runs' = runs \cup {<<pass.hand.id, Day, pass.hand.sent>>}
        BY <3>3, <3>6 DEF MarkDigestProcessed
      <4>2. CASE Key \in Processed(Day) /\ runs' = runs
        BY <2>3, <3>2, <4>2 DEF Processed, Key, Closed
      <4>3. CASE runs' = runs \cup {<<pass.hand.id, Day, pass.hand.sent>>}
        BY <1>0, <2>3, <3>2, <4>3 DEF Closed, Hands
      <4> QED
        BY <4>1, <4>2, <4>3
    <3>7. ~(pass'.hand.id = pass.hand.id /\ pass'.pc \in Delivering)
      BY <1>3, <2>3 DEF PassedBy
    <3> QED
      BY <1>2, <3>4, <3>5, <3>6, <3>7
  <2> QED
    BY <2>2, <2>3
<1> QED
  BY <1>0, <1>1, <1>2, <1>3, StepWithinTheHour

LEMMA StepKeepsSchedule == TypeInv /\ ScheduleInv /\ [Next]_vars => ScheduleInv'
<1> SUFFICES ASSUME TypeInv, ScheduleInv, [Next]_vars
             PROVE  ScheduleInv'
  OBVIOUS
<1>1. ASSUME UNCHANGED <<pass, onTime, now, late>>
      PROVE  ScheduleInv'
  <2>1. \A id \in Ids : PassedBy(id)' = PassedBy(id)
    BY <1>1 DEF PassedBy
  <2>2. \A c \in Chats : <<c, 1>> \in Ids
    BY DigestAssumption DEF Ids
  <2>3. pass'.at <= now /\ pass'.done = pass.done
    BY <1>1 DEF ScheduleInv
  <2> QED
    BY <1>1, <2>1, <2>2, <2>3, StepWithinTheHour
<1>2. \/ UNCHANGED <<pass, onTime, now, late>>
      \/ Clock \/ Tick \/ EndPass \/ Stop \/ Deliver
      \/ \E id \in Ids : Visit(id)
  BY DEF Next, Scheduler, GameEnds, DeleteSubscriber, EnsureSubscriber, Start, vars, history
<1> QED
  BY <1>1, <1>2, ClockKeepsSchedule, TickKeepsSchedule, VisitKeepsSchedule,
     DeliverKeepsSchedule

LEMMA InitIsOnSchedule == Init => ScheduleInv
<1> SUFFICES ASSUME Init
             PROVE  ScheduleInv
  OBVIOUS
<1>1. pass.at = 0 /\ pass.done = {} /\ pass.pc = "tick" /\ now = 0 /\ ~onTime /\ faults = 0
  BY DEF Init, Idle
<1>2. ASSUME NEW c \in Chats, NEW day \in Days, 0 <= SlotOf(c, day)
      PROVE  OnSchedule(c, day)
  <2>1. SlotOf(c, day) \in Int /\ CatchUp \in Nat
    BY SlotsAreHours
  <2> QED
    BY <1>1, <1>2, <2>1 DEF OnSchedule, Open, PassedBy
<1> QED
  BY <1>1, <1>2 DEF ScheduleInv, KnownIsClosed, AllOnSchedule

\* A slot whose window is over has been processed, for everyone who was there before it
\* and whom Telegram does not fail, if every hour has seen a whole pass and no more
\* calls failed than the window has hours after its first (Scheduler.Tick).
THEOREM DigestsAreNotMissed == Spec => []NoDigestMissed
<1>1. TypeInv /\ ScheduleInv => NoDigestMissed
  <2> SUFFICES ASSUME TypeInv, ScheduleInv, ~late, faults <= CatchUp,
                      NEW c \in member \ Flaky, NEW day \in Days, joined[c] = 1,
                      0 <= SlotOf(c, day), SlotOf(c, day) + CatchUp < now
               PROVE  Closed(<<c, 1>>, day)
    BY DEF NoDigestMissed
  <2>1. c \in Chats /\ faults \in Nat /\ CatchUp \in Nat
    BY DigestAssumption DEF TypeInv, TypeOK
  <2>2. OnSchedule(c, day)
    BY <2>1 DEF ScheduleInv, AllOnSchedule, Stays
  <2> QED
    BY <2>1, <2>2 DEF OnSchedule
<1> QED
  BY <1>1, InitIsOnSchedule, StepKeepsSchedule, TypesHold, PTL DEF Spec

(************************* Copies are accounted for **********************)

\* The pass has yet to send the digest of a subscriber.
InPass(id) == id \in pass.todo \/ (pass.pc \in Delivering /\ pass.hand.id = id)

\* A pass sends to rows it has read and for days that it has found open, once.
HandIsOpen ==
  pass.pc \in Delivering => pass.hand.id \notin pass.todo /\ ~Closed(pass.hand.id, Day)

PassInv ==
  /\ HandIsOpen
  /\ \A id \in Ids : InPass(id) => id[2] <= joined[id[1]]
  /\ \A k \in Ids \X Days : begun[k] > 0 => k[1][2] <= joined[k[1][1]]
  /\ \A id \in pass.todo :
       DayOfSlot(id, pass.at) \in pass.read /\ Closed(id, DayOfSlot(id, pass.at)) =>
         <<id, DayOfSlot(id, pass.at)>> \in pass.done

LEMMA VisitGoesOn ==
  ASSUME TypeInv, NEW id \in Ids, Visit(id)
  PROVE  /\ pass.pc = "loop" /\ id \in pass.todo
         /\ \/ pass' = Idle /\ Fault
            \/ /\ pass'.at = pass.at /\ pass'.todo = pass.todo \ {id}
               /\ \/ pass'.read = pass.read /\ pass'.done = pass.done
                  \/ /\ pass'.read = pass.read \cup {DayOfSlot(id, pass.at)}
                     /\ pass'.done = Known(DayOfSlot(id, pass.at))
               /\ \/ pass'.pc = "loop"
                  \/ /\ pass'.pc = "compose" /\ pass'.hand = DeliveryTo(id)
                     /\ <<id, DayOfSlot(id, pass.at)>> \notin Known(DayOfSlot(id, pass.at))
<1> DEFINE d == DayOfSlot(id, pass.at)
           next == [Take(id) EXCEPT !.read = @ \cup {d}, !.done = Known(d)]
<1>0. pass \in Passes /\ pass.pc = "loop" /\ id \in pass.todo
  BY DEF TypeInv, TypeOK, Passes, Visit, Running
<1>1. /\ Take(id).at = pass.at /\ Take(id).pc = "loop" /\ Take(id).todo = pass.todo \ {id}
      /\ Take(id).done = pass.done /\ Take(id).read = pass.read
  BY <1>0 DEF Take, Passes
<1>2. /\ next.at = pass.at /\ next.pc = "loop" /\ next.todo = pass.todo \ {id}
      /\ next.done = Known(d) /\ next.read = pass.read \cup {d} /\ DOMAIN next = DOMAIN pass
  BY <1>0 DEF Take, Passes
<1>3. \/ pass' = Idle /\ Fault
      \/ pass' = Take(id)
      \/ pass' = next
      \/ /\ pass' = [next EXCEPT !.pc = "compose", !.hand = DeliveryTo(id)]
         /\ <<id, d>> \notin Known(d)
  BY DEF Visit, Over
<1> HIDE DEF next, d
<1>4. CASE /\ pass' = [next EXCEPT !.pc = "compose", !.hand = DeliveryTo(id)]
           /\ <<id, d>> \notin Known(d)
  <2>1. "pc" \in DOMAIN next /\ "hand" \in DOMAIN next
    BY <1>0, <1>2 DEF Passes
  <2> QED
    BY <1>0, <1>2, <1>4, <2>1 DEF d
<1> QED
  BY <1>0, <1>1, <1>2, <1>3, <1>4 DEF d

LEMMA OutsideKeepsPass ==
  ASSUME TypeInv, PassInv, UNCHANGED pass, UNCHANGED begun,
         \/ UNCHANGED <<member, joined, runs>>
         \/ \E c \in Chats : DeleteSubscriber(c) \/ EnsureSubscriber(c)
  PROVE  PassInv'
<1>0. joined \in [Chats -> 1..MaxIds]
  BY DEF TypeInv, TypeOK
<1>1. runs' \subseteq runs /\ \A c \in Chats : joined[c] <= joined'[c]
  <2>1. ASSUME NEW c \in Chats, EnsureSubscriber(c)
        PROVE  runs' = runs /\ \A x \in Chats : joined[x] <= joined'[x]
    <3>1. runs' = runs /\ joined' = [joined EXCEPT ![c] = joined[c] + 1]
      BY <2>1 DEF EnsureSubscriber
    <3>2. ASSUME NEW x \in Chats
          PROVE  joined[x] <= joined'[x]
      BY <1>0, <3>1, DigestAssumption
    <3> QED
      BY <3>1, <3>2
  <2>2. ASSUME NEW c \in Chats, DeleteSubscriber(c)
        PROVE  runs' \subseteq runs /\ joined' = joined
    BY <2>2 DEF DeleteSubscriber
  <2> QED
    BY <1>0, <2>1, <2>2, DigestAssumption
<1>2. \A id, d : Closed(id, d)' => Closed(id, d)
  BY <1>1 DEF Closed
<1>3. \A id \in Ids : InPass(id)' => InPass(id)
  BY DEF InPass
<1>4. \A id \in Ids : id[2] <= joined[id[1]] => id[2] <= joined'[id[1]]
  <2> SUFFICES ASSUME NEW id \in Ids, id[2] <= joined[id[1]]
               PROVE  id[2] <= joined'[id[1]]
    OBVIOUS
  <2>0. TypeInv' \/ TRUE
    OBVIOUS
  <2>1. id[1] \in Chats /\ id[2] \in Nat /\ joined[id[1]] \in Nat
    BY <1>0, DigestAssumption DEF Ids
  <2>2. joined'[id[1]] \in Nat
    <3>1. ASSUME NEW c \in Chats, EnsureSubscriber(c)
          PROVE  joined'[id[1]] \in Nat
      BY <1>0, <2>1, <3>1 DEF EnsureSubscriber
    <3> QED
      BY <2>1, <3>1 DEF DeleteSubscriber
  <2> QED
    BY <1>1, <2>1, <2>2
<1>5. \A k \in Ids \X Days : k[1] \in Ids
  OBVIOUS
<1>6. Day' = Day
  BY DEF Day
<1> QED
  BY <1>2, <1>3, <1>4, <1>5, <1>6 DEF PassInv, HandIsOpen

LEMMA TickKeepsPass ==
  ASSUME TypeInv, PassInv, Tick \/ EndPass \/ Stop
  PROVE  PassInv'
<1>1. UNCHANGED <<member, joined, runs, begun>>
  BY DEF Tick, EndPass, Stop, tables, history
<1>2. /\ pass'.pc \notin Delivering /\ pass'.read = {}
      /\ \A id \in pass'.todo : id \in Rows
  <2>1. \/ pass' = Idle
        \/ pass' = [Idle EXCEPT !.pc = "loop", !.at = now, !.todo = Rows]
    BY DEF Tick, EndPass, Stop, Over
  <2> QED
    <3>1. CASE pass' = Idle
      BY <3>1 DEF Idle, Delivering
    <3>2. CASE pass' = [Idle EXCEPT !.pc = "loop", !.at = now, !.todo = Rows]
      <4>1. pass'.pc = "loop" /\ pass'.read = {} /\ pass'.todo = Rows
        BY <3>2 DEF Idle
      <4> QED
        BY <4>1 DEF Delivering
    <3> QED
      BY <2>1, <3>1, <3>2
<1>3. \A id \in Rows : id[2] = joined[id[1]]
  BY DEF Rows
<1>4. \A id \in Ids : InPass(id)' => id[2] <= joined[id[1]]
  <2> SUFFICES ASSUME NEW id \in Ids, InPass(id)'
               PROVE  id[2] <= joined[id[1]]
    OBVIOUS
  <2>1. id[2] = joined[id[1]] /\ id[2] \in Nat
    BY <1>2, <1>3, DigestAssumption DEF InPass, Ids
  <2> QED
    BY <2>1
<1> QED
  BY <1>1, <1>2, <1>4 DEF PassInv, HandIsOpen

LEMMA VisitKeepsPass ==
  ASSUME TypeInv, PassInv, NEW id \in Ids, Visit(id)
  PROVE  PassInv'
<1> DEFINE d == DayOfSlot(id, pass.at)
<1>0. pass \in Passes /\ pass.todo \subseteq Ids
  BY DEF TypeInv, TypeOK, Passes
<1>1. UNCHANGED <<member, joined, runs, begun>>
  BY DEF Visit, tables, history
<1>2. \A i, e : Closed(i, e)' = Closed(i, e)
  BY <1>1 DEF Closed
<1>3. /\ pass.pc = "loop" /\ id \in pass.todo
      /\ \/ pass' = Idle /\ Fault
         \/ /\ pass'.at = pass.at /\ pass'.todo = pass.todo \ {id}
            /\ \/ pass'.read = pass.read /\ pass'.done = pass.done
               \/ pass'.read = pass.read \cup {d} /\ pass'.done = Known(d)
            /\ \/ pass'.pc = "loop"
               \/ /\ pass'.pc = "compose" /\ pass'.hand = DeliveryTo(id)
                  /\ <<id, d>> \notin Known(d)
  BY VisitGoesOn
<1>4. \A k \in Ids \X Days : begun'[k] > 0 => k[1][2] <= joined'[k[1][1]]
  BY <1>1 DEF PassInv
<1>5. CASE pass' = Idle
  <2>1. pass'.pc \notin Delivering /\ pass'.todo = {}
    BY <1>5 DEF Idle, Delivering
  <2> QED
    BY <1>4, <2>1 DEF PassInv, InPass, HandIsOpen
<1>6. CASE pass'.at = pass.at /\ pass'.todo = pass.todo \ {id}
  <2>1. ASSUME pass'.pc \in Delivering
        PROVE  /\ pass'.hand = DeliveryTo(id) /\ <<id, d>> \notin Known(d)
    BY <1>3, <2>1, IdleIsIdle DEF Delivering
  <2>2. DeliveryTo(id).id = id
    BY DEF DeliveryTo
  <2>3. d \in Days
    BY <1>0, SlotOfDay DEF Passes
  <2>4. Closed(id, d) => <<id, d>> \in Known(d)
    <3>1. d \in pass.read /\ Closed(id, d) => <<id, d>> \in pass.done
      BY <1>3 DEF PassInv
    <3>2. Closed(id, d) => <<id, d>> \in Processed(d)
      BY DEF Closed, Processed
    <3> QED
      BY <3>1, <3>2 DEF Known
  <2>5. HandIsOpen'
    <3> SUFFICES ASSUME pass'.pc \in Delivering
                 PROVE  pass'.hand.id \notin pass'.todo /\ ~Closed(pass.hand.id, Day)'
      BY DEF HandIsOpen
    <3>1. pass'.hand.id = id /\ Day' = d
      BY <1>6, <2>1, <2>2 DEF Day
    <3>2. ~Closed(id, d)
      BY <2>1, <2>4
    <3>3. ~Closed(pass.hand.id, Day)'
      BY <1>1, <3>1, <3>2 DEF Closed
    <3> QED
      BY <1>6, <3>1, <3>3
  <2>6. \A i \in Ids : InPass(i)' => i[2] <= joined'[i[1]]
    <3>1. \A i \in Ids : InPass(i)' => InPass(i)
      BY <1>3, <1>6, <2>1, <2>2 DEF InPass
    <3> QED
      BY <1>1, <3>1 DEF PassInv
  <2>7. ASSUME NEW i \in pass'.todo, DayOfSlot(i, pass.at) \in pass'.read,
               Closed(i, DayOfSlot(i, pass.at))'
        PROVE  <<i, DayOfSlot(i, pass.at)>> \in pass'.done
    <3> DEFINE e == DayOfSlot(i, pass.at)
    <3>0. Closed(i, e)
      BY <1>1, <1>6, <2>7 DEF Closed
    <3>1. i \in pass.todo /\ i \in Ids /\ (e \in pass.read => <<i, e>> \in pass.done)
      BY <1>0, <1>6, <3>0 DEF PassInv
    <3>2. <<i, d>> \in Processed(d) \/ e # d
      BY <3>0, <3>1 DEF Closed, Processed
    <3> HIDE DEF e
    <3>3. e \in pass'.read
      BY <2>7 DEF e
    <3>4. \/ pass'.read = pass.read /\ pass'.done = pass.done
          \/ pass'.read = pass.read \cup {d} /\ pass'.done = Known(d)
      <4>1. pass'.todo # {}
        BY <2>7
      <4> QED
        BY <1>3, <4>1 DEF Idle
    <3>5. <<i, e>> \in pass'.done
      BY <3>1, <3>2, <3>3, <3>4 DEF Known
    <3> QED
      BY <3>5 DEF e
  <2> QED
    <3>1. \A i \in pass'.todo :
             DayOfSlot(i, pass'.at) \in pass'.read /\ Closed(i, DayOfSlot(i, pass.at))' =>
               <<i, DayOfSlot(i, pass'.at)>> \in pass'.done
      BY <1>6, <2>7
    <3> QED
      BY <1>4, <2>5, <2>6, <3>1 DEF PassInv
<1> QED
  BY <1>3, <1>5, <1>6

LEMMA DeliverKeepsPass ==
  ASSUME TypeInv, PassInv, Deliver
  PROVE  PassInv'
<1>0. /\ pass \in Passes /\ pass.pc \in Delivering /\ pass.hand \in Hands
      /\ pass.at \in 0..Horizon /\ pass.hand.id \in Ids /\ pass.todo \subseteq Ids
      /\ Key \in Ids \X Days
  BY DeliverInUse, HandInUse DEF Hands, Passes
<1>1. UNCHANGED <<member, joined>>
  BY DEF Deliver, Compose, SendPart, SendRefused, SendFails, MarkDigestProcessed, tables
<1>2. /\ pass'.at = pass.at /\ pass'.todo = pass.todo /\ pass'.done = pass.done
      /\ pass'.read = pass.read
      /\ \/ pass'.hand.id = pass.hand.id /\ pass'.pc \in Delivering /\ UNCHANGED runs
         \/ pass'.pc = "loop"
  BY PassGoesOn
<1>3. \A i \in Ids : InPass(i)' => InPass(i)
  BY <1>0, <1>2 DEF InPass, Delivering
<1>4. ASSUME NEW i \in pass.todo, NEW e \in Days, NEW b \in BOOLEAN, <<i, e, b>> \in runs'
      PROVE  <<i, e, b>> \in runs
  <2>1. i # pass.hand.id
    BY <1>0 DEF PassInv, HandIsOpen
  <2>2. runs' = runs \/ runs' = runs \cup {<<pass.hand.id, Day, pass.hand.sent>>}
    BY DEF Deliver, Compose, SendPart, SendRefused, SendFails, MarkDigestProcessed, tables
  <2> QED
    BY <1>4, <2>1, <2>2
<1>5. ASSUME NEW k \in Ids \X Days, begun'[k] > 0
      PROVE  k[1][2] <= joined[k[1][1]]
  <2>1. begun' = begun \/ begun' = [begun EXCEPT ![Key] = @ + 1]
    BY DEF Deliver, Compose, SendPart, SendRefused, SendFails, MarkDigestProcessed,
           Arrives, history
  <2>2. CASE k = Key
    <3>1. k[1] = pass.hand.id /\ InPass(pass.hand.id)
      BY <1>0, <2>2 DEF Key, InPass
    <3> QED
      BY <1>0, <3>1 DEF PassInv
  <2>3. CASE k # Key
    <3>1. begun'[k] = begun[k]
      BY <2>1, <2>3 DEF TypeInv, TypeOK
    <3> QED
      BY <1>5, <3>1 DEF PassInv
  <2> QED
    BY <2>2, <2>3
<1>6. HandIsOpen'
  <2>1. ASSUME pass'.hand.id = pass.hand.id, UNCHANGED runs
        PROVE  HandIsOpen'
    <3>1. Day' = Day
      BY <1>2, <2>1 DEF Day
    <3> QED
      BY <1>0, <1>2, <2>1, <3>1 DEF PassInv, HandIsOpen, Closed
  <2>2. CASE pass'.pc = "loop"
    BY <2>2 DEF HandIsOpen, Delivering
  <2> QED
    BY <1>2, <2>1, <2>2
<1>7. ASSUME NEW i \in pass'.todo, DayOfSlot(i, pass'.at) \in pass'.read,
             Closed(i, DayOfSlot(i, pass.at))'
      PROVE  <<i, DayOfSlot(i, pass'.at)>> \in pass'.done
  <2> DEFINE e == DayOfSlot(i, pass.at)
  <2>1. i \in pass.todo /\ e \in Days /\ DayOfSlot(i, pass'.at) = e
    BY <1>0, <1>2, <1>7, SlotOfDay
  <2>2. \E b \in BOOLEAN : <<i, e, b>> \in runs'
    BY <1>2, <1>7 DEF Closed
  <2>3. Closed(i, e)
    BY <1>4, <2>1, <2>2 DEF Closed
  <2>4. e \in pass.read => <<i, e>> \in pass.done
    BY <2>1, <2>3 DEF PassInv
  <2> QED
    BY <1>2, <1>7, <2>1, <2>4
<1> QED
  BY <1>1, <1>3, <1>5, <1>6, <1>7 DEF PassInv

LEMMA StepKeepsPass == TypeInv /\ PassInv /\ [Next]_vars => PassInv'
<1> SUFFICES ASSUME TypeInv, PassInv, [Next]_vars
             PROVE  PassInv'
  OBVIOUS
<1>1. \/ /\ UNCHANGED pass /\ UNCHANGED begun
         /\ \/ UNCHANGED <<member, joined, runs>>
            \/ \E c \in Chats : DeleteSubscriber(c) \/ EnsureSubscriber(c)
      \/ Tick \/ EndPass \/ Stop \/ Deliver
      \/ \E id \in Ids : Visit(id)
  <2>1. ASSUME NEW c \in Chats, DeleteSubscriber(c) \/ EnsureSubscriber(c)
        PROVE  UNCHANGED pass /\ UNCHANGED begun
    BY <2>1 DEF DeleteSubscriber, EnsureSubscriber, history
  <2>2. ASSUME Clock \/ Start \/ UNCHANGED vars \/ \E g \in Games : GameEnds(g)
        PROVE  UNCHANGED <<pass, begun, member, joined, runs>>
    BY <2>2 DEF Clock, GameEnds, Start, vars, tables, history
  <2> QED
    BY <2>1, <2>2, DigestAssumption DEF Next, Scheduler
<1> QED
  BY <1>1, OutsideKeepsPass, TickKeepsPass, VisitKeepsPass, DeliverKeepsPass

\* Digests that chats Telegram does not fail may get.
Keys == Steady \X Days

\* Part of the digest has arrived in the delivery at hand.
OnTheWay(k) ==
  pass.pc \in Delivering /\ Key = k /\ (pass.hand.part > 1 \/ pass.hand.sent)

\* The digest may yet be begun: now by the pass, or by a later one for a row that is there.
Sendable(k) ==
  /\ ~Closed(k[1], k[2]) /\ ~OnTheWay(k)
  /\ Exists(k[1]) \/ (InPass(k[1]) /\ k[2] = DayOfSlot(k[1], pass.at))

\* How often the digest has been begun, with the time it may yet be.
Level(k) == begun[k] + (IF Sendable(k) THEN 1 ELSE 0)

\* The copies beyond the first, those that may yet be sent included, are paid for.
Spent  == {x \in Keys \X (Nat \ {0, 1}) : x[2] <= Level(x[1])}
Budget == faults + restarts + Cardinality(Departed)

CopiesPaid == IsFiniteSet(Spent) /\ Cardinality(Spent) <= Budget

LEMMA LevelType ==
  ASSUME TypeInv, NEW k \in Keys
  PROVE  Level(k) \in Nat /\ begun[k] \in Nat /\ k[1] \in Ids /\ k[2] \in Days
BY DEF TypeInv, TypeOK, Level, Keys, Steady

LEMMA IdsAreFinite == IsFiniteSet(Ids)
<1>1. IsFiniteSet(Chats) /\ 1 \in Int /\ MaxIds \in Int
  BY DigestAssumption
<1>2. IsFiniteSet(1..MaxIds)
  BY <1>1, FS_Interval
<1> QED
  BY ONLY <1>1, <1>2, FS_Product DEF Ids

LEMMA DepartedIsFinite == IsFiniteSet(Departed) /\ Cardinality(Departed) \in Nat
<1>1. IsFiniteSet(Ids)
  BY IdsAreFinite
<1>2. Departed \in SUBSET Ids
  BY DEF Departed
<1> QED
  BY <1>1, <1>2, FS_Subset, FS_CardinalityType

\* Who has left does not come back with the same id.
LEMMA DepartedStays ==
  ASSUME TypeInv, [Next]_vars
  PROVE  Departed \subseteq Departed'
<1>0. joined \in [Chats -> 1..MaxIds]
  BY DEF TypeInv, TypeOK
<1> SUFFICES ASSUME NEW id \in Ids, id[2] <= joined[id[1]], ~Exists(id)
             PROVE  id[2] <= joined'[id[1]] /\ ~Exists(id)'
  BY DEF Departed
<1>1. id[1] \in Chats /\ id[2] \in Nat /\ joined[id[1]] \in Nat
  BY <1>0, DigestAssumption DEF Ids
<1>2. ASSUME UNCHANGED <<member, joined>>
      PROVE  id[2] <= joined'[id[1]] /\ ~Exists(id)'
  BY <1>2 DEF Exists
<1>3. ASSUME NEW c \in Chats, DeleteSubscriber(c)
      PROVE  id[2] <= joined'[id[1]] /\ ~Exists(id)'
  BY <1>3 DEF DeleteSubscriber, Exists
<1>4. ASSUME NEW c \in Chats, EnsureSubscriber(c)
      PROVE  id[2] <= joined'[id[1]] /\ ~Exists(id)'
  <2>1. c \notin member /\ member' = member \cup {c} /\ joined' = [joined EXCEPT ![c] = joined[c] + 1]
    BY <1>4 DEF EnsureSubscriber
  <2>2. CASE id[1] = c
    <3>1. joined'[id[1]] = joined[id[1]] + 1
      BY <1>0, <2>1, <2>2
    <3> QED
      BY <1>1, <3>1 DEF Exists
  <2>3. CASE id[1] # c
    <3>1. joined'[id[1]] = joined[id[1]] /\ (id[1] \in member' <=> id[1] \in member)
      BY <1>0, <1>1, <2>1, <2>3
    <3> QED
      BY <3>1 DEF Exists
  <2> QED
    BY <2>2, <2>3
<1>5. \/ UNCHANGED <<member, joined>>
      \/ \E c \in Chats : DeleteSubscriber(c) \/ EnsureSubscriber(c)
  BY DigestAssumption DEF Next, Scheduler, Deliver, Clock, GameEnds, Tick, EndPass, Visit,
     Compose, SendPart, SendRefused, SendFails, MarkDigestProcessed, Stop, Start, vars, tables
<1> QED
  BY <1>2, <1>3, <1>4, <1>5

\* The budget grows by every failed call, restart and leaving.
LEMMA BudgetGrows ==
  ASSUME TypeInv, [Next]_vars
  PROVE  /\ Budget \in Nat /\ Budget' \in Nat /\ Budget <= Budget'
         /\ Fault => Budget + 1 <= Budget'
         /\ restarts' = restarts + 1 => Budget + 1 <= Budget'
         /\ \A id \in Departed' : id \notin Departed => Budget + 1 <= Budget'
<1>1. /\ IsFiniteSet(Departed) /\ Cardinality(Departed) \in Nat
      /\ IsFiniteSet(Departed') /\ Cardinality(Departed') \in Nat
  <2>1. IsFiniteSet(Ids)
    BY IdsAreFinite
  <2>2. Departed' \in SUBSET Ids
    BY DEF Departed
  <2> QED
    BY <2>1, <2>2, DepartedIsFinite, FS_Subset, FS_CardinalityType
<1>2. Departed \subseteq Departed'
  BY DepartedStays
<1>3. Cardinality(Departed) <= Cardinality(Departed')
  BY <1>1, <1>2, FS_Subset
<1>4. ASSUME NEW id \in Departed', id \notin Departed
      PROVE  Cardinality(Departed) + 1 <= Cardinality(Departed')
  <2>1. Cardinality(Departed) # Cardinality(Departed')
    BY <1>1, <1>2, <1>4, FS_Subset
  <2> QED
    BY <1>1, <1>3, <2>1
<1>5. /\ faults \in Nat /\ restarts \in Nat /\ faults' \in Nat /\ restarts' \in Nat
  <2>1. TypeInv'
    BY StepKeepsTypes
  <2> QED
    BY <2>1, DigestAssumption DEF TypeInv, TypeOK
<1>6. faults <= faults' /\ restarts <= restarts'
  <2>1. \/ UNCHANGED bounds
        \/ Fault
        \/ UNCHANGED faults /\ restarts' = restarts + 1
    BY DEF Next, Scheduler, Deliver, Clock, GameEnds, DeleteSubscriber, EnsureSubscriber,
           Tick, EndPass, Visit, Compose, SendPart, SendRefused, SendFails,
           MarkDigestProcessed, Stop, Start, vars
  <2> QED
    BY <1>5, <2>1 DEF bounds, Fault
<1>7. Fault => faults' = faults + 1
  BY DEF Fault
<1> QED
  BY <1>1, <1>3, <1>4, <1>5, <1>6, <1>7 DEF Budget

\* A step after which nothing more may be sent costs nothing.
LEMMA FreeStep ==
  ASSUME TypeInv, [Next]_vars, CopiesPaid,
         \A k \in Keys : Level(k)' <= Level(k) \/ Level(k)' <= 1
  PROVE  CopiesPaid'
<1>1. Spent' \in SUBSET Spent
  <2> SUFFICES ASSUME NEW x \in Keys \X (Nat \ {0, 1}), x[2] <= Level(x[1])'
               PROVE  x[2] <= Level(x[1])
    BY DEF Spent
  <2>1. x[1] \in Keys /\ x[2] \in Nat /\ x[2] # 0 /\ x[2] # 1
    OBVIOUS
  <2>2. Level(x[1]) \in Nat
    BY <2>1, LevelType
  <2>3. Level(x[1])' \in Nat
    <3>1. begun'[x[1]] \in Nat
      BY <2>1, StepKeepsTypes DEF TypeInv, TypeOK, Keys, Steady
    <3> QED
      BY <3>1 DEF Level
  <2> QED
    BY <2>1, <2>2, <2>3
<1>2. IsFiniteSet(Spent') /\ Cardinality(Spent') <= Cardinality(Spent)
  BY <1>1, FS_Subset DEF CopiesPaid
<1>3. Cardinality(Spent) \in Nat /\ Cardinality(Spent') \in Nat
  BY <1>2, FS_CardinalityType DEF CopiesPaid
<1> QED
  BY <1>2, <1>3, BudgetGrows DEF CopiesPaid

\* A step after which one digest may be sent once more has its price.
LEMMA PaidStep ==
  ASSUME TypeInv, [Next]_vars, CopiesPaid, NEW one,
         \A k \in Keys : k # one => Level(k)' <= Level(k),
         one \in Keys => Level(one)' <= Level(one) + 1,
         Budget + 1 <= Budget'
  PROVE  CopiesPaid'
<1> DEFINE more == <<one, Level(one) + 1>>
<1>1. Spent' \in SUBSET (Spent \cup {more})
  <2> SUFFICES ASSUME NEW x \in Keys \X (Nat \ {0, 1}), x[2] <= Level(x[1])', x # more
               PROVE  x[2] <= Level(x[1])
    BY DEF Spent
  <2>1. x[1] \in Keys /\ x[2] \in Nat /\ x = <<x[1], x[2]>>
    OBVIOUS
  <2>2. Level(x[1]) \in Nat
    BY <2>1, LevelType
  <2>3. Level(x[1])' \in Nat
    <3>1. begun'[x[1]] \in Nat
      BY <2>1, StepKeepsTypes DEF TypeInv, TypeOK, Keys, Steady
    <3> QED
      BY <3>1 DEF Level
  <2>4. CASE x[1] # one
    BY <2>1, <2>2, <2>3, <2>4
  <2>5. CASE x[1] = one
    <3>1. x[2] # Level(x[1]) + 1
      BY <2>1, <2>5
    <3>2. Level(x[1])' <= Level(x[1]) + 1
      BY <2>1, <2>5
    <3> QED
      BY <2>1, <2>2, <2>3, <3>1, <3>2
  <2> QED
    BY <2>4, <2>5
<1> HIDE DEF more
<1>2. /\ IsFiniteSet(Spent \cup {more})
      /\ Cardinality(Spent \cup {more}) <= Cardinality(Spent) + 1
  <2>1. IsFiniteSet(Spent) /\ Cardinality(Spent) \in Nat
    BY FS_CardinalityType DEF CopiesPaid
  <2> QED
    BY <2>1, FS_AddElement
<1>3. IsFiniteSet(Spent') /\ Cardinality(Spent') <= Cardinality(Spent \cup {more})
  BY <1>1, <1>2, FS_Subset
<1>4. /\ Cardinality(Spent) \in Nat /\ Cardinality(Spent') \in Nat
      /\ Cardinality(Spent \cup {more}) \in Nat
  BY <1>2, <1>3, FS_CardinalityType DEF CopiesPaid
<1> QED
  BY <1>2, <1>3, <1>4, BudgetGrows DEF CopiesPaid

\* What a step outside of the pass costs: a leaving may owe the digest of the day that
\* the pass is at, once more.
LEMMA OutsideIsPaid ==
  ASSUME TypeInv, PassInv, CopiesPaid, [Next]_vars, UNCHANGED pass, UNCHANGED begun,
         \/ UNCHANGED <<member, joined, runs>>
         \/ \E c \in Chats : DeleteSubscriber(c) \/ EnsureSubscriber(c)
  PROVE  CopiesPaid'
<1>0. joined \in [Chats -> 1..MaxIds] /\ \A k \in Keys : begun[k] \in Nat
  BY LevelType DEF TypeInv, TypeOK
<1>1. \A k \in Keys : /\ OnTheWay(k)' = OnTheWay(k) /\ InPass(k[1])' = InPass(k[1])
                      /\ begun'[k] = begun[k]
  BY DEF OnTheWay, InPass, Key, Day
<1>2. ASSUME NEW k \in Keys, Sendable(k)' => Sendable(k)
      PROVE  Level(k)' <= Level(k)
  BY <1>0, <1>1, <1>2 DEF Level
<1>3. CASE UNCHANGED <<member, joined, runs>>
  <2>1. \A k \in Keys : Sendable(k)' = Sendable(k)
    BY <1>1, <1>3 DEF Sendable, Closed, Exists
  <2> QED
    BY <1>2, <2>1, FreeStep
<1>4. ASSUME NEW c \in Chats, DeleteSubscriber(c)
      PROVE  CopiesPaid'
  <2>0. PICK id : id = <<c, joined[c]>>
    OBVIOUS
  <2> PICK one : one = <<id, DayOfSlot(id, pass.at)>>
    OBVIOUS
  <2>1. /\ c \in member /\ member' = member \ {c} /\ joined' = joined
        /\ runs' = {r \in runs : r[1] # id}
    BY <1>4, <2>0 DEF DeleteSubscriber
  <2>2. id \in Departed' /\ id \notin Departed
    BY <1>0, <2>0, <2>1, DigestAssumption DEF Departed, Exists, Ids
  <2>3. ASSUME NEW k \in Keys, k # one
        PROVE  Sendable(k)' => Sendable(k)
    <3>1. CASE k[1] = id
      <4>1. ~Exists(k[1])'
        BY <2>0, <2>1, <3>1 DEF Exists
      <4>2. k[2] # DayOfSlot(k[1], pass.at)
        BY <2>3, <3>1 DEF Keys
      <4> QED
        BY <4>1, <4>2 DEF Sendable
    <3>2. CASE k[1] # id
      <4>1. Closed(k[1], k[2])' = Closed(k[1], k[2])
        BY <2>1, <3>2 DEF Closed
      <4>2. Exists(k[1])' => Exists(k[1])
        BY <2>1 DEF Exists
      <4>3. DayOfSlot(k[1], pass'.at) = DayOfSlot(k[1], pass.at)
        OBVIOUS
      <4> QED
        BY <1>1, <4>1, <4>2, <4>3 DEF Sendable
    <3> QED
      BY <3>1, <3>2
  <2>4. one \in Keys => Level(one)' <= Level(one) + 1
    <3> SUFFICES ASSUME one \in Keys
                 PROVE  Level(one)' <= Level(one) + 1
      OBVIOUS
    <3>1. begun'[one] = begun[one] /\ begun[one] \in Nat
      BY <1>0
    <3> QED
      BY <3>1 DEF Level
  <2> QED
    BY <1>2, <2>2, <2>3, <2>4, BudgetGrows, PaidStep
<1>5. ASSUME NEW c \in Chats, EnsureSubscriber(c)
      PROVE  CopiesPaid'
  <2> DEFINE id == <<c, joined[c] + 1>>
  <2>1. /\ c \notin member /\ member' = member \cup {c} /\ runs' = runs
        /\ joined' = [joined EXCEPT ![c] = joined[c] + 1]
    BY <1>5 DEF EnsureSubscriber
  <2>2. ASSUME NEW k \in Keys
        PROVE  Level(k)' <= Level(k) \/ Level(k)' <= 1
    <3>0. k \in Ids \X Days /\ k[1] \in Ids /\ begun[k] \in Nat /\ joined[c] \in Nat
      BY <1>0, LevelType, DigestAssumption DEF Keys, Steady
    <3>1. CASE k[1] = id
      <4>1. ~(begun[k] > 0)
        <5>1. k[1][2] = joined[c] + 1 /\ k[1][1] = c
          BY <3>1
        <5> QED
          BY <3>0, <5>1 DEF PassInv
      <4> QED
        BY <1>1, <3>0, <4>1 DEF Level
    <3>2. CASE k[1] # id
      <4>1. Exists(k[1])' => Exists(k[1])
        <5>1. CASE k[1][1] = c
          BY <1>0, <2>1, <3>0, <3>2, <5>1 DEF Exists, Ids
        <5>2. CASE k[1][1] # c
          BY <1>0, <2>1, <3>0, <5>2 DEF Exists, Ids
        <5> QED
          BY <5>1, <5>2
      <4>2. Closed(k[1], k[2])' = Closed(k[1], k[2])
        BY <2>1 DEF Closed
      <4>3. DayOfSlot(k[1], pass'.at) = DayOfSlot(k[1], pass.at)
        OBVIOUS
      <4>4. Sendable(k)' => Sendable(k)
        BY <1>1, <4>1, <4>2, <4>3 DEF Sendable
      <4> QED
        BY <1>2, <4>4
    <3> QED
      BY <3>1, <3>2
  <2> QED
    BY <2>2, FreeStep
<1> QED
  BY <1>3, <1>4, <1>5

LEMMA TickIsPaid ==
  ASSUME TypeInv, PassInv, CopiesPaid, [Next]_vars, Tick \/ EndPass \/ Stop
  PROVE  CopiesPaid'
<1>0. \A k \in Keys : begun[k] \in Nat
  BY LevelType
<1>1. UNCHANGED <<member, joined, runs, begun>>
  BY DEF Tick, EndPass, Stop, tables, history
<1>2. pass'.pc \notin Delivering /\ \A id \in pass'.todo : id \in Rows
  <2>1. CASE pass' = Idle
    BY <2>1 DEF Idle, Delivering
  <2>2. CASE pass' = [Idle EXCEPT !.pc = "loop", !.at = now, !.todo = Rows]
    <3>1. pass'.pc = "loop" /\ pass'.todo = Rows
      BY <2>2 DEF Idle
    <3> QED
      BY <3>1 DEF Delivering
  <2> QED
    BY <2>1, <2>2 DEF Tick, EndPass, Stop, Over
<1>3. \A id \in Rows : Exists(id)
  BY DEF Rows, Exists
<1>4. ASSUME NEW k \in Keys, Sendable(k)', ~OnTheWay(k)
      PROVE  Sendable(k)
  <2>1. Exists(k[1])' = Exists(k[1]) /\ Closed(k[1], k[2])' = Closed(k[1], k[2])
    BY <1>1 DEF Exists, Closed
  <2>2. Exists(k[1])
    BY <1>2, <1>3, <1>4, <2>1 DEF Sendable, InPass
  <2> QED
    BY <1>4, <2>1, <2>2 DEF Sendable
<1>5. ASSUME NEW k \in Keys, ~OnTheWay(k)
      PROVE  Level(k)' <= Level(k)
  BY <1>0, <1>1, <1>4, <1>5 DEF Level
<1>6. CASE Tick \/ EndPass
  <2>1. \A k \in Keys : ~OnTheWay(k)
    BY <1>6 DEF Tick, EndPass, Running, OnTheWay, Delivering
  <2> QED
    BY <1>5, <2>1, FreeStep
<1>7. CASE Stop
  <2> PICK one : one = Key
    OBVIOUS
  <2>1. \A k \in Keys : k # one => ~OnTheWay(k)
    BY DEF OnTheWay
  <2>2. one \in Keys => Level(one)' <= Level(one) + 1
    <3> SUFFICES ASSUME one \in Keys
                 PROVE  Level(one)' <= Level(one) + 1
      OBVIOUS
    <3>1. begun'[one] = begun[one] /\ begun[one] \in Nat
      BY <1>0, <1>1
    <3> QED
      BY <3>1 DEF Level
  <2>3. Budget + 1 <= Budget'
    BY <1>7, BudgetGrows DEF Stop
  <2> QED
    BY <1>5, <2>1, <2>2, <2>3, PaidStep
<1> QED
  BY <1>6, <1>7

LEMMA VisitIsPaid ==
  ASSUME TypeInv, PassInv, CopiesPaid, [Next]_vars, NEW id \in Ids, Visit(id)
  PROVE  CopiesPaid'
<1>0. \A k \in Keys : begun[k] \in Nat
  BY LevelType
<1>1. UNCHANGED <<member, joined, runs, begun>>
  BY DEF Visit, tables, history
<1>2. /\ pass.pc = "loop" /\ id \in pass.todo
      /\ \/ pass' = Idle
         \/ /\ pass'.at = pass.at /\ pass'.todo = pass.todo \ {id}
            /\ pass'.pc = "loop" \/ (pass'.pc = "compose" /\ pass'.hand = DeliveryTo(id))
  BY VisitGoesOn
<1>3. DeliveryTo(id).id = id /\ Idle.pc = "tick" /\ Idle.todo = {}
  BY DEF DeliveryTo, Idle
<1>4. ASSUME NEW k \in Keys, Sendable(k)'
      PROVE  Sendable(k)
  <2>1. Exists(k[1])' = Exists(k[1]) /\ Closed(k[1], k[2])' = Closed(k[1], k[2])
    BY <1>1 DEF Exists, Closed
  <2>2. ~OnTheWay(k)
    BY <1>2 DEF OnTheWay, Delivering
  <2>3. Exists(k[1]) \/ (InPass(k[1])' /\ k[2] = DayOfSlot(k[1], pass'.at))
    BY <1>4, <2>1 DEF Sendable
  <2>4. InPass(k[1])' => InPass(k[1]) /\ pass'.at = pass.at
    BY <1>2, <1>3 DEF InPass, Delivering
  <2> QED
    BY <1>4, <2>1, <2>2, <2>3, <2>4 DEF Sendable
<1>5. \A k \in Keys : Level(k)' <= Level(k)
  BY <1>0, <1>1, <1>4 DEF Level
<1> QED
  BY <1>5, FreeStep

LEMMA DeliverIsPaid ==
  ASSUME TypeInv, PassInv, SentInv, CopiesPaid, [Next]_vars, Deliver
  PROVE  CopiesPaid'
<1>0. /\ pass \in Passes /\ pass.pc \in Delivering /\ pass.hand \in Hands
      /\ pass.at \in 0..Horizon /\ pass.hand.id \in Ids /\ Key \in Ids \X Days
      /\ pass.hand.part \in 1..Parts /\ Parts \in Nat /\ Day \in Days
      /\ begun \in [Ids \X Days -> Nat] /\ \A k \in Keys : k \in Ids \X Days
  BY DeliverInUse, HandInUse, DigestAssumption
     DEF Hands, TypeInv, TypeOK, Keys, Steady
<1>1. UNCHANGED <<member, joined>>
  BY DEF Deliver, Compose, SendPart, SendRefused, SendFails, MarkDigestProcessed, tables
<1>2. /\ pass'.at = pass.at /\ pass'.todo = pass.todo
      /\ \/ pass'.hand.id = pass.hand.id /\ pass'.pc \in Delivering /\ UNCHANGED runs
         \/ pass'.pc = "loop" /\ (Fault \/ SendFails \/ MarkDigestProcessed)
  BY PassGoesOn
<1>3. pass.hand.id \notin pass.todo /\ ~Closed(pass.hand.id, Day)
  BY <1>0 DEF PassInv, HandIsOpen
<1>4. begun' = begun \/ begun' = [begun EXCEPT ![Key] = @ + 1]
  BY DEF Deliver, Compose, SendPart, SendRefused, SendFails, MarkDigestProcessed,
         Arrives, history
<1>5. runs' = runs \/ runs' = runs \cup {<<pass.hand.id, Day, pass.hand.sent>>}
  BY DEF Deliver, Compose, SendPart, SendRefused, SendFails, MarkDigestProcessed, tables
<1>6. \A k \in Keys : Closed(k[1], k[2]) => Closed(k[1], k[2])'
  BY <1>5 DEF Closed
<1>7. \A k \in Keys : InPass(k[1])' => InPass(k[1])
  BY <1>0, <1>2 DEF InPass, Delivering
<1>8. \A k \in Keys : Exists(k[1])' = Exists(k[1])
  BY <1>1 DEF Exists
<1>9. ASSUME NEW k \in Keys, ~OnTheWay(k), Sendable(k)'
      PROVE  Sendable(k)
  BY <1>2, <1>6, <1>7, <1>8, <1>9 DEF Sendable
<1>10. PICK one : one = Key
  OBVIOUS
<1>11. ASSUME NEW k \in Keys, k # one
       PROVE  Level(k)' <= Level(k)
  <2>1. ~OnTheWay(k)
    BY <1>10, <1>11 DEF OnTheWay
  <2>2. begun'[k] = begun[k] /\ begun[k] \in Nat
    BY <1>0, <1>4, <1>10, <1>11
  <2> QED
    BY <1>9, <2>1, <2>2 DEF Level
<1>12. one \in Ids \X Days /\ one[1] = pass.hand.id /\ one[2] = Day /\ begun[one] \in Nat
  BY <1>0, <1>10 DEF Key
<1>13. begun'[one] = begun[one] \/ begun'[one] = begun[one] + 1
  BY <1>0, <1>4, <1>10
\* A first part is sent of a digest that could yet be begun.
<1>14. ASSUME one \in Keys, begun'[one] # begun[one]
       PROVE  Sendable(one) /\ pass.hand.part = 1
  <2>1. pass.pc = "send" /\ pass.hand.part = 1
    BY <1>14 DEF Deliver, Compose, SendPart, SendRefused, SendFails, MarkDigestProcessed,
       Arrives, history, Running
  <2>2. ~pass.hand.sent
    BY <2>1 DEF SentInv
  <2>3. ~OnTheWay(one)
    BY <2>1, <2>2 DEF OnTheWay
  <2>4. InPass(one[1]) /\ one[2] = DayOfSlot(one[1], pass.at)
    BY <1>0, <1>12 DEF InPass, Day
  <2> QED
    BY <1>3, <1>12, <2>1, <2>3, <2>4 DEF Sendable
<1>15. one \in Keys => Level(one)' <= Level(one) + 1
  <2>1. ASSUME one \in Keys, begun'[one] # begun[one]
        PROVE  Level(one)' <= Level(one) + 1
    BY <1>12, <1>13, <1>14, <2>1 DEF Level
  <2>2. CASE begun'[one] = begun[one]
    BY <1>12, <2>2 DEF Level
  <2> QED
    BY <2>1, <2>2
<1>16. ASSUME Fault
       PROVE  CopiesPaid'
  BY <1>11, <1>15, <1>16, BudgetGrows, PaidStep
<1>17. ASSUME one \in Keys => Level(one)' <= Level(one)
       PROVE  CopiesPaid'
  BY <1>11, <1>17, FreeStep
<1>18. ASSUME pass'.hand.id = pass.hand.id, pass'.hand.part = pass.hand.part,
              pass'.hand.sent = pass.hand.sent, pass'.pc \in Delivering,
              begun'[one] = begun[one], one \in Keys
       PROVE  Level(one)' <= Level(one)
  <2>1. Key' = Key
    BY <1>2, <1>18 DEF Key, Day
  <2>2. OnTheWay(one)' = OnTheWay(one)
    BY <1>0, <1>18, <2>1 DEF OnTheWay
  <2>3. Sendable(one)' => Sendable(one)
    BY <1>9, <1>18, <2>2 DEF Sendable
  <2> QED
    BY <1>12, <1>18, <2>3 DEF Level
<1>19. ASSUME Compose, ~Fault
       PROVE  CopiesPaid'
  <2> DEFINE games == GamesWithin(pass.hand.id, pass.at) \cap final
             pc == IF games = {} THEN "mark" ELSE "send"
  <2>1. pass' = [pass EXCEPT !.pc = pc, !.hand.games = games] /\ begun' = begun
    BY <1>19 DEF Compose, history
  <2>2. pc \in Delivering
    BY DEF Delivering
  <2> HIDE DEF games, pc
  <2>3. /\ pass'.hand.id = pass.hand.id /\ pass'.hand.part = pass.hand.part
        /\ pass'.hand.sent = pass.hand.sent /\ pass'.pc \in Delivering
    BY <1>0, <2>1, <2>2 DEF Passes, Hands
  <2> QED
    BY <1>17, <1>18, <2>1, <2>3
<1>20. ASSUME SendRefused
       PROVE  CopiesPaid'
  <2>1. pass'.hand = pass.hand /\ pass'.pc \in Delivering /\ begun' = begun
    BY <1>0, <1>20 DEF SendRefused, Passes, history, Delivering
  <2> QED
    BY <1>17, <1>18, <2>1
<1>21. ASSUME SendPart
       PROVE  CopiesPaid'
  <2>1. /\ pass'.hand.id = pass.hand.id /\ pass'.pc \in Delivering
        /\ pass'.hand.part > 1 \/ pass'.hand.sent
    <3>1. CASE pass.hand.part = Parts
      BY <1>0, <1>21, <3>1 DEF SendPart, Passes, Hands, Delivering
    <3>2. CASE pass.hand.part # Parts
      <4>1. pass' = [pass EXCEPT !.hand.part = pass.hand.part + 1]
        BY <1>21, <3>2 DEF SendPart
      <4>2. pass'.hand.id = pass.hand.id /\ pass'.hand.part = pass.hand.part + 1
        BY <1>0, <4>1 DEF Passes, Hands
      <4>3. pass'.pc = pass.pc
        BY <1>0, <4>1 DEF Passes
      <4> QED
        BY <1>0, <4>2, <4>3
    <3> QED
      BY <3>1, <3>2
  <2>2. Key' = Key
    BY <1>2, <2>1 DEF Key, Day
  <2>3. ~Sendable(one)'
    BY <1>10, <2>1, <2>2 DEF Sendable, OnTheWay
  <2>4. one \in Keys => Level(one)' <= Level(one)
    <3>1. ASSUME one \in Keys, begun'[one] # begun[one]
          PROVE  Level(one)' <= Level(one)
      BY <1>12, <1>13, <1>14, <2>3, <3>1 DEF Level
    <3>2. CASE begun'[one] = begun[one]
      BY <1>12, <2>3, <3>2 DEF Level
    <3> QED
      BY <3>1, <3>2
  <2> QED
    BY <1>17, <2>4
<1>22. ASSUME SendFails, ~Fault
       PROVE  CopiesPaid'
  <2>1. pass.hand.id[1] \in Flaky
    BY <1>22 DEF SendFails
  <2>2. one \notin Keys
    BY <1>12, <2>1 DEF Keys, Steady
  <2> QED
    BY <1>17, <2>2
<1>23. ASSUME MarkDigestProcessed, ~Fault
       PROVE  CopiesPaid'
  <2>1. begun' = begun /\ pass'.pc = "loop"
    BY <1>0, <1>23 DEF MarkDigestProcessed, history, Return, Err, Passes
  <2>2. CASE Exists(pass.hand.id)
    <3>1. Key \notin Processed(Day)
      BY <1>3 DEF Processed, Closed, Key
    <3>2. runs' = runs \cup {<<pass.hand.id, Day, pass.hand.sent>>}
      BY <1>23, <2>2, <3>1 DEF MarkDigestProcessed
    <3>3. Closed(one[1], one[2])'
      BY <1>0, <1>12, <3>2 DEF Closed, Hands
    <3> QED
      BY <1>12, <1>17, <2>1, <3>3 DEF Level, Sendable
  <2>3. CASE ~Exists(pass.hand.id)
    <3>1. ~Exists(one[1])'
      BY <1>1, <1>12, <2>3 DEF Exists
    <3>2. ~InPass(one[1])'
      BY <1>2, <1>3, <1>12, <2>1 DEF InPass, Delivering
    <3> QED
      BY <1>12, <1>17, <2>1, <3>1, <3>2 DEF Level, Sendable
  <2> QED
    BY <2>2, <2>3
<1> QED
  BY <1>16, <1>19, <1>20, <1>21, <1>22, <1>23 DEF Deliver

LEMMA StepIsPaid ==
  TypeInv /\ PassInv /\ SentInv /\ CopiesPaid /\ [Next]_vars => CopiesPaid'
<1> SUFFICES ASSUME TypeInv, PassInv, SentInv, CopiesPaid, [Next]_vars
             PROVE  CopiesPaid'
  OBVIOUS
<1>1. \/ /\ UNCHANGED pass /\ UNCHANGED begun
         /\ \/ UNCHANGED <<member, joined, runs>>
            \/ \E c \in Chats : DeleteSubscriber(c) \/ EnsureSubscriber(c)
      \/ Tick \/ EndPass \/ Stop \/ Deliver
      \/ \E id \in Ids : Visit(id)
  <2>1. ASSUME NEW c \in Chats, DeleteSubscriber(c) \/ EnsureSubscriber(c)
        PROVE  UNCHANGED pass /\ UNCHANGED begun
    BY <2>1 DEF DeleteSubscriber, EnsureSubscriber, history
  <2>2. ASSUME Clock \/ Start \/ UNCHANGED vars \/ \E g \in Games : GameEnds(g)
        PROVE  UNCHANGED <<pass, begun, member, joined, runs>>
    BY <2>2 DEF Clock, GameEnds, Start, vars, tables, history
  <2> QED
    BY <2>1, <2>2, DigestAssumption DEF Next, Scheduler
<1> QED
  BY <1>1, OutsideIsPaid, TickIsPaid, VisitIsPaid, DeliverIsPaid

LEMMA InitIsPaid == Init => PassInv /\ CopiesPaid
<1> SUFFICES ASSUME Init
             PROVE  PassInv /\ CopiesPaid
  OBVIOUS
<1>1. pass.pc \notin Delivering /\ pass.todo = {}
  BY DEF Init, Idle, Delivering
<1>2. \A k \in Ids \X Days : begun[k] = 0
  BY DEF Init
<1>3. PassInv
  BY <1>1, <1>2 DEF PassInv, HandIsOpen, InPass
<1>4. Spent = {}
  <2> SUFFICES ASSUME NEW x \in Keys \X (Nat \ {0, 1}), x[2] <= Level(x[1])
               PROVE  FALSE
    BY DEF Spent
  <2>1. x[1] \in Ids \X Days
    BY DEF Keys, Steady
  <2>2. Level(x[1]) <= 1
    BY <1>2, <2>1 DEF Level
  <2>3. x[2] \in Nat /\ x[2] # 0 /\ x[2] # 1
    OBVIOUS
  <2>4. Level(x[1]) \in Nat
    BY <1>2, <2>1 DEF Level
  <2> QED
    BY <2>2, <2>3, <2>4
<1>5. Budget \in Nat
  BY DepartedIsFinite DEF Init, Budget
<1> QED
  BY <1>3, <1>4, <1>5, FS_EmptySet DEF CopiesPaid

\* Every copy of a digest beyond the first is owed to a failed call, to the end of the
\* process, or to a subscriber who left (Scheduler.deliver sends, then marks).
THEOREM DigestCopiesAreAccounted == Spec => []CopiesAccounted
<1>1. CopiesPaid /\ TypeInv => CopiesAccounted
  <2> SUFFICES ASSUME CopiesPaid, TypeInv
               PROVE  CopiesAccounted
    OBVIOUS
  <2>1. Again \in SUBSET Spent
    <3> SUFFICES ASSUME NEW k \in Keys, NEW x \in {k} \X (2..begun[k])
                 PROVE  x \in Keys \X (Nat \ {0, 1}) /\ x[2] <= Level(x[1])
      BY DEF Again, Spent, Keys
    <3>1. begun[k] \in Nat
      BY LevelType
    <3>2. x[1] = k /\ x[2] \in Nat /\ x[2] # 0 /\ x[2] # 1 /\ x[2] <= begun[k]
      BY <3>1
    <3>3. x[2] <= Level(x[1])
      BY <3>1, <3>2 DEF Level
    <3> QED
      BY <3>2, <3>3
  <2>2. IsFiniteSet(Again) /\ Cardinality(Again) <= Cardinality(Spent)
    BY <2>1, FS_Subset DEF CopiesPaid
  <2>3. Cardinality(Again) \in Nat /\ Cardinality(Spent) \in Nat
    BY <2>2, FS_CardinalityType DEF CopiesPaid
  <2>4. Budget \in Nat
    BY DepartedIsFinite, DigestAssumption DEF Budget, TypeInv, TypeOK
  <2> QED
    BY <2>2, <2>3, <2>4 DEF CopiesPaid, CopiesAccounted, Budget
<1>2. Init => SentInv
  BY DEF Init, SentInv, SentMeansWhole, Idle, Nobody, DeliveryTo
<1> QED
  BY <1>1, <1>2, InitIsPaid, StepKeepsPass, StepKeepsSent, StepIsPaid, TypesHold,
     PTL DEF Spec
=============================================================================
