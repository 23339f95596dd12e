-------------------------- MODULE LivePollerProofs --------------------------
(***************************************************************************)
(* Proofs about LivePoller for any set of games, any slate, any capacity   *)
(* of the semaphore and of the bus, and any number of faults and restarts. *)
(*                                                                         *)
(* Type correctness is inductive only together with the account of the     *)
(* semaphore (a slot is returned only by a call that holds one) and with   *)
(* the bound of the attempts of finish; the other invariants rest on it.   *)
(***************************************************************************)
EXTENDS LivePoller, FiniteSetTheorems, TLAPS

Polling   == {"off", "poll", "plays", "save", "publish", "wait"}
Finishing == {"box", "boxing", "stats", "backoff"}

\* Watchers with the attempts that their place in the program allows.
Sound ==
  {w \in Watchers : /\ w.pc \in Polling => w.tries = 0
                    /\ w.pc \in Finishing => w.tries < StatsAttempts}

TypeInv == TypeOK /\ watcher \in [Games -> Sound] /\ SlotsAreReturned

LEMMA NoWatcherIsSound == NoWatcher \in Sound
BY LivePollerAssumption DEF NoWatcher, Sound, Watchers, Statuses, Polling, Finishing

LEMMA NewWatcherIsSound ==
  ASSUME NEW status \in Statuses
  PROVE  /\ NewWatcher(status) \in Sound
         /\ NewWatcher(status).pc = "poll" /\ NewWatcher(status).fresh = {}
<1>1. NoWatcher \in Watchers /\ NoWatcher.tries = 0 /\ NoWatcher.fresh = {}
  BY NoWatcherIsSound DEF NoWatcher, Sound
<1> QED
  BY <1>1, LivePollerAssumption
     DEF NewWatcher, Sound, Watchers, Statuses, Polling, Finishing

\* What follows a poll is sound, holds no slot and has nothing left to publish.
LEMMA AfterPollIsSound ==
  ASSUME NEW w \in Sound, w.pc \in Polling, NEW failed \in BOOLEAN
  PROVE  /\ AfterPoll(w, failed) \in Sound
         /\ AfterPoll(w, failed).pc \in {"leaving", "box", "wait"}
         /\ AfterPoll(w, failed).fresh = {}
<1>1. AfterPoll(w, failed) \in Watchers
  <2>1. w \in Watchers /\ {} \in SUBSET (0..MaxPlays + 1)
    BY DEF Sound
  <2> DEFINE pc == AfterPoll(w, failed).pc
  <2>2. AfterPoll(w, failed) = [[[w EXCEPT !.fresh = {}] EXCEPT !.failed = failed] EXCEPT !.pc = pc]
    BY DEF AfterPoll
  <2>3. pc \in {"leaving", "box", "wait"}
    BY <2>1 DEF AfterPoll, Watchers
  <2> QED
    BY <2>1, <2>3 DEF AfterPoll, Watchers
<1>2. AfterPoll(w, failed).tries = 0 /\ 0 < StatsAttempts
  BY LivePollerAssumption DEF AfterPoll, Sound, Watchers
<1>3. /\ AfterPoll(w, failed).pc \in {"leaving", "box", "wait"}
      /\ AfterPoll(w, failed).fresh = {}
  BY DEF AfterPoll, Sound, Watchers
<1> QED
  BY <1>1, <1>2, <1>3 DEF Sound

LEMMA AfterAttemptIsSound ==
  ASSUME NEW w \in Sound, w.pc \in Finishing
  PROVE  /\ AfterAttempt(w) \in Sound
         /\ AfterAttempt(w).pc \in {"leaving", "backoff"}
         /\ AfterAttempt(w).fresh = w.fresh
<1>1. w.tries \in Nat /\ w.tries < StatsAttempts /\ w \in Watchers
  BY LivePollerAssumption DEF Sound, Watchers
<1>2. AfterAttempt(w) \in Watchers
  <2>1. w.tries + 1 \in 0..StatsAttempts
    BY <1>1, LivePollerAssumption
  <2>2. AfterAttempt(w).pc \in {"leaving", "backoff"}
    BY <1>1 DEF AfterAttempt, Watchers
  <2> QED
    BY <1>1, <2>1, <2>2 DEF AfterAttempt, Watchers
<1>3. /\ AfterAttempt(w).tries = w.tries + 1 /\ AfterAttempt(w).fresh = w.fresh
      /\ AfterAttempt(w).pc = IF mode = "stopping" \/ w.tries + 1 = StatsAttempts
                               THEN "leaving" ELSE "backoff"
  BY <1>1 DEF AfterAttempt, Watchers
<1> QED
  BY <1>1, <1>2, <1>3, LivePollerAssumption DEF Sound, Polling, Finishing

LEMMA QuotientIsPositive ==
  ASSUME NEW m \in Nat, NEW p \in Nat \ {0}, m >= p
  PROVE  m \div p \in Nat \ {0}
<1>1. m \div p \in Int /\ m % p \in 0..p - 1
  OBVIOUS
<1>3. m = p * (m \div p) + (m % p)
  OBVIOUS
<1>2. ASSUME NEW q \in Int, NEW r \in 0..p - 1, m = p * q + r
      PROVE  q >= 1
  BY <1>2
<1> QED
  BY <1>1, <1>2, <1>3

\* The page of a cursor is a page.
LEMMA PagesType ==
  ASSUME NEW n \in Nat
  PROVE  Pages(n) \in Nat \ {0}
<1>1. CASE n = 0
  BY <1>1 DEF Pages
<1>2. CASE n # 0
  <2>1. n + PageSize - 1 \in Nat /\ n + PageSize - 1 >= PageSize
    BY <1>2, LivePollerAssumption
  <2>2. (n + PageSize - 1) \div PageSize \in Nat \ {0}
    BY <2>1, LivePollerAssumption, QuotientIsPositive
  <2> QED
    BY <1>2, <2>2 DEF Pages
<1> QED
  BY <1>1, <1>2

(************************ Types and the semaphore ************************)

Out == {"plays", "boxing"}

LEMMA CallsAreFinite == IsFiniteSet(InCall) /\ Cardinality(InCall) \in Nat
BY LivePollerAssumption, FS_Subset, FS_CardinalityType DEF InCall

\* What the step of one watcher does to the account of the semaphore.
LEMMA CallsChange ==
  ASSUME watcher \in [Games -> Sound], NEW g \in Games, NEW w \in Sound, Become(g, w)
  PROVE  /\ watcher' \in [Games -> Sound]
         /\ Cardinality(InCall') \in Nat
         /\ (w.pc \in Out <=> watcher[g].pc \in Out) => InCall' = InCall
         /\ w.pc \in Out /\ watcher[g].pc \notin Out =>
              Cardinality(InCall') = Cardinality(InCall) + 1
         /\ w.pc \notin Out /\ watcher[g].pc \in Out =>
              Cardinality(InCall') = Cardinality(InCall) - 1
<1>1. watcher' \in [Games -> Sound] /\ watcher' = [watcher EXCEPT ![g] = w]
  BY DEF Become
<1>2. Cardinality(InCall') \in Nat
  BY LivePollerAssumption, FS_Subset, FS_CardinalityType DEF InCall
<1>3. InCall' = IF w.pc \in Out THEN InCall \cup {g} ELSE InCall \ {g}
  BY <1>1 DEF InCall, Out
<1>4. g \in InCall <=> watcher[g].pc \in Out
  BY DEF InCall, Out
<1>5. w.pc \in Out /\ watcher[g].pc \notin Out =>
        Cardinality(InCall') = Cardinality(InCall) + 1
  BY <1>3, <1>4, CallsAreFinite, FS_AddElement
<1>6. w.pc \notin Out /\ watcher[g].pc \in Out =>
        Cardinality(InCall') = Cardinality(InCall) - 1
  BY <1>3, <1>4, CallsAreFinite, FS_RemoveElement
<1> QED
  BY <1>1, <1>2, <1>3, <1>4, <1>5, <1>6

\* A watcher keeps, takes or returns a slot.
WatchersSound == watcher \in [Games -> Sound] /\ watcher \in [Games -> Watchers]
SlotsSound == SlotsAreReturned /\ inflight \in 0..MaxInflight

LEMMA KeepSlot ==
  ASSUME TypeInv, NEW g \in Games, NEW w \in Sound, Become(g, w),
         w.pc \in Out <=> watcher[g].pc \in Out, UNCHANGED <<inflight, scan>>
  PROVE  WatchersSound' /\ SlotsSound'
<1>1. watcher' \in [Games -> Sound] /\ InCall' = InCall
  BY CallsChange DEF TypeInv
<1> QED
  BY <1>1 DEF TypeInv, TypeOK, SlotsAreReturned, WatchersSound, SlotsSound, Sound

LEMMA TakeSlot ==
  ASSUME TypeInv, NEW g \in Games, NEW w \in Sound, Become(g, w),
         w.pc \in Out, watcher[g].pc \notin Out, UNCHANGED scan,
         inflight < MaxInflight, inflight' = inflight + 1
  PROVE  WatchersSound' /\ SlotsSound'
<1>1. watcher' \in [Games -> Sound] /\ Cardinality(InCall') = Cardinality(InCall) + 1
  BY CallsChange DEF TypeInv
<1>2. inflight \in Nat /\ inflight' \in 0..MaxInflight
  BY LivePollerAssumption DEF TypeInv, TypeOK
<1>3. SlotsAreReturned'
  BY <1>1, <1>2, CallsAreFinite DEF TypeInv, SlotsAreReturned
<1> QED
  BY <1>1, <1>2, <1>3 DEF WatchersSound, SlotsSound, Sound

LEMMA ReturnSlot ==
  ASSUME TypeInv, NEW g \in Games, NEW w \in Sound, Become(g, w),
         w.pc \notin Out, watcher[g].pc \in Out, UNCHANGED scan, inflight' = inflight - 1
  PROVE  WatchersSound' /\ SlotsSound'
<1>1. /\ watcher' \in [Games -> Sound] /\ Cardinality(InCall') = Cardinality(InCall) - 1
      /\ Cardinality(InCall') \in Nat
  BY CallsChange DEF TypeInv
<1>2. inflight \in Nat /\ inflight <= MaxInflight /\ MaxInflight \in Nat
  BY LivePollerAssumption DEF TypeInv, TypeOK
<1>3. SlotsAreReturned'
  BY <1>1, <1>2, CallsAreFinite DEF TypeInv, SlotsAreReturned
<1>4. inflight' \in Nat
  BY <1>1, <1>3 DEF SlotsAreReturned
<1> QED
  BY <1>1, <1>2, <1>3, <1>4 DEF WatchersSound, SlotsSound, Sound

LEMMA DetectType ==
  ASSUME NEW status \in Statuses, NEW plays \in SUBSET PlayIds
  PROVE  Detect(status, plays) \subseteq 0..MaxPlays + 1
BY LivePollerAssumption DEF Detect, PlayIds, Started, Ending

\* Each step of a watcher keeps the types and the account of the semaphore.
LEMMA WatcherTypes ==
  ASSUME TypeInv, NEW g \in Games, WatcherStep(g)
  PROVE  TypeInv'
<1> DEFINE w == watcher[g]
<1>0. w \in Sound /\ w \in Watchers
  BY DEF TypeInv, Sound
<1> SUFFICES /\ WatchersSound' /\ SlotsSound'
             /\ saved' \subseteq AllEvents
             /\ statistics' \in [Games -> [done: BOOLEAN, plays: SUBSET PlayIds,
                                           failed: BOOLEAN]]
             /\ backlog' \in 0..Buffer /\ published' \in [AllEvents -> Nat]
             /\ faults' \in 0..MaxFaults /\ restarts' \in 0..MaxRestarts
             /\ UNCHANGED <<feed, stored, begun, scan, closed, mode>>
  BY DEF TypeInv, TypeOK, WatchersSound, SlotsSound
<1>1. UNCHANGED bounds \/ CallFails =>
        faults' \in 0..MaxFaults /\ restarts' \in 0..MaxRestarts
  BY LivePollerAssumption DEF CallFails, TypeInv, TypeOK, bounds
<1>2. ASSUME UNCHANGED <<feed, tables, scan, bus, mode, published>>
      PROVE  /\ saved' \subseteq AllEvents
             /\ statistics' \in [Games -> [done: BOOLEAN, plays: SUBSET PlayIds,
                                           failed: BOOLEAN]]
             /\ backlog' \in 0..Buffer /\ published' \in [AllEvents -> Nat]
             /\ UNCHANGED <<feed, stored, begun, scan, closed, mode>>
  BY <1>2 DEF TypeInv, TypeOK, tables, gameRows, bus
<1>3. ASSUME NEW pc \in {"plays", "save", "wait", "poll"}, w.pc \in Polling
      PROVE  [w EXCEPT !.pc = pc] \in Sound /\ [w EXCEPT !.pc = pc].pc = pc
  BY <1>0, <1>3 DEF Sound, Watchers, Polling, Finishing
<1>4. ASSUME NEW pc \in {"box", "boxing", "stats", "leaving"}, w.pc \in Finishing
      PROVE  [w EXCEPT !.pc = pc] \in Sound /\ [w EXCEPT !.pc = pc].pc = pc
  BY <1>0, <1>4 DEF Sound, Watchers, Polling, Finishing
<1>5. ASSUME NEW failed \in BOOLEAN, w.pc \in Polling
      PROVE  AfterPoll(w, failed) \in Sound /\ AfterPoll(w, failed).pc \notin Out
  BY <1>0, <1>5, AfterPollIsSound DEF Out
<1>6. ASSUME w.pc \in Finishing
      PROVE  AfterAttempt(w) \in Sound /\ AfterAttempt(w).pc \notin Out
  BY <1>0, <1>6, AfterAttemptIsSound DEF Out
<1>11. CASE AcquireForPlays(g)
  <2>1. w.pc = "poll" /\ w.pc \in Polling /\ w.pc \notin Out
    BY <1>11 DEF AcquireForPlays, At, Polling, Out
  <2>2. WatchersSound' /\ SlotsSound'
    BY <1>3, <1>5, <1>11, <2>1, TakeSlot, KeepSlot DEF AcquireForPlays, Out
  <2> QED
    BY <1>1, <1>2, <1>11, <2>2 DEF AcquireForPlays
<1>12. CASE Plays(g)
  <2>1. w.pc = "plays" /\ w.pc \in Polling /\ w.pc \in Out
    BY <1>12 DEF Plays, At, Polling, Out
  <2> DEFINE v == [w EXCEPT !.cursor = Pages(feed[g].plays),
                            !.seen = @ \cup PlaysFrom(g, w.cursor)]
  <2>2. v \in Sound /\ v.pc = "plays"
    <3>1. Pages(feed[g].plays) \in Nat \ {0}
      BY PagesType DEF TypeInv, TypeOK
    <3>2. w.seen \cup PlaysFrom(g, w.cursor) \in SUBSET PlayIds
      BY <1>0 DEF PlaysFrom, Watchers
    <3> QED
      BY <1>0, <2>1, <3>1, <3>2 DEF Sound, Watchers
  <2>3. /\ AfterPoll(v, FALSE) \in Sound /\ AfterPoll(v, FALSE).pc \notin Out
        /\ [v EXCEPT !.pc = "save"] \in Sound /\ [v EXCEPT !.pc = "save"].pc \notin Out
    <3>1. AfterPoll(v, FALSE) \in Sound /\ AfterPoll(v, FALSE).pc \notin Out
      <4> HIDE DEF v
      <4> QED
        BY <2>2, AfterPollIsSound DEF Out, Polling
    <3>2. [v EXCEPT !.pc = "save"] \in Sound /\ [v EXCEPT !.pc = "save"].pc \notin Out
      <4> HIDE DEF v
      <4> QED
        BY <2>2 DEF Sound, Watchers, Polling, Finishing, Out
    <3> QED
      BY <3>1, <3>2
  <2>4. WatchersSound' /\ SlotsSound'
    <3>1. \E u \in Sound : u.pc \notin Out /\ Become(g, u)
      BY <1>5, <1>12, <2>1, <2>3 DEF Plays
    <3> QED
      BY <1>12, <2>1, <3>1, ReturnSlot DEF Plays
  <2> QED
    BY <1>1, <1>2, <1>12, <2>4 DEF Plays
<1>13. CASE SaveEvents(g)
  <2>1. w.pc = "save" /\ w.pc \in Polling /\ w.pc \notin Out
    BY <1>13 DEF SaveEvents, At, Polling, Out
  <2> DEFINE ids == Detect(w.game, w.seen)
             v   == [w EXCEPT !.pc = "publish", !.fresh = Unsaved(g, ids)]
  <2>2. ids \subseteq 0..MaxPlays + 1
    BY <1>0, DetectType DEF Watchers
  <2>3. v \in Sound /\ v.pc \notin Out
    <3>1. Unsaved(g, ids) \in SUBSET (0..MaxPlays + 1)
      BY <2>2 DEF Unsaved
    <3> HIDE DEF ids
    <3> QED
      BY <1>0, <2>1, <3>1 DEF Sound, Watchers, Polling, Finishing, Out
  <2>4. WatchersSound' /\ SlotsSound'
    <3>1. \E u \in Sound : u.pc \notin Out /\ Become(g, u)
      BY <1>5, <1>13, <2>1, <2>3 DEF SaveEvents
    <3> QED
      BY <1>13, <2>1, <3>1, KeepSlot DEF SaveEvents
  <2>5. saved' \subseteq AllEvents
    <3>1. {g} \X ids \subseteq AllEvents
      BY <2>2 DEF AllEvents
    <3> QED
      BY <1>13, <3>1 DEF SaveEvents, TypeInv, TypeOK
  <2> QED
    BY <1>1, <1>13, <2>4, <2>5 DEF SaveEvents, TypeInv, TypeOK, gameRows, bus
<1>14. CASE Publish(g)
  <2>1. w.pc = "publish" /\ w.pc \in Polling /\ w.pc \notin Out
    BY <1>14 DEF Publish, At, Polling, Out
  <2>2. ASSUME NEW i \in w.fresh
        PROVE  [w EXCEPT !.fresh = @ \ {i}] \in Sound /\ [w EXCEPT !.fresh = @ \ {i}].pc \notin Out
    BY <1>0, <2>1 DEF Sound, Watchers
  <2>3. WatchersSound' /\ SlotsSound'
    <3>1. \E u \in Sound : u.pc \notin Out /\ Become(g, u)
      BY <1>5, <1>14, <2>1, <2>2 DEF Publish
    <3> QED
      BY <1>14, <2>1, <3>1, KeepSlot DEF Publish
  <2>4. backlog' \in 0..Buffer
    BY <1>14, LivePollerAssumption DEF Publish, TypeInv, TypeOK
  <2>5. published' \in [AllEvents -> Nat]
    <3>1. PICK i \in w.fresh : published' = [published EXCEPT ![<<g, i>>] = @ + 1]
      BY <1>14 DEF Publish
    <3>2. published \in [AllEvents -> Nat]
      BY DEF TypeInv, TypeOK
    <3>3. <<g, i>> \in AllEvents
      BY <1>0 DEF Watchers, AllEvents
    <3>4. published[<<g, i>>] + 1 \in Nat
      BY <3>2, <3>3
    <3> QED
      BY <3>1, <3>2, <3>4
  <2> QED
    BY <1>1, <1>14, <2>3, <2>4, <2>5 DEF Publish, TypeInv, TypeOK, tables, gameRows
<1>15. CASE PublishCancelled(g)
  <2>1. w.pc = "publish" /\ w.pc \in Polling /\ w.pc \notin Out
    BY <1>15 DEF PublishCancelled, At, Polling, Out
  <2> QED
    BY <1>1, <1>2, <1>5, <1>15, <2>1, KeepSlot DEF PublishCancelled
<1>16. CASE Hear(g)
  <2>1. w.pc = "wait" /\ w.mail \in Statuses
    BY <1>0, <1>16 DEF Hear, At, Watchers
  <2>2. /\ [w EXCEPT !.pc = "poll", !.game = w.mail, !.mail = "none"] \in Sound
        /\ [w EXCEPT !.pc = "poll", !.game = w.mail, !.mail = "none"].pc \notin Out
    BY <1>0, <2>1 DEF Sound, Watchers, Polling, Finishing, Out
  <2>3. WatchersSound' /\ SlotsSound'
    BY <1>16, <2>1, <2>2, KeepSlot DEF Hear, Out
  <2> QED
    BY <1>1, <1>2, <1>16, <2>3 DEF Hear
<1>17. CASE PollAgain(g)
  <2>1. w.pc = "wait" /\ w.pc \in Polling
    BY <1>17 DEF PollAgain, At, Polling
  <2>2. WatchersSound' /\ SlotsSound'
    BY <1>3, <1>17, <2>1, KeepSlot DEF PollAgain, Out
  <2> QED
    BY <1>1, <1>2, <1>17, <2>2 DEF PollAgain
<1>18. CASE Cancelled(g)
  <2>1. w.pc \in {"wait", "backoff"}
    BY <1>18 DEF Cancelled, At
  <2>2. [w EXCEPT !.pc = "leaving"] \in Sound /\ [w EXCEPT !.pc = "leaving"].pc \notin Out
    BY <1>0, <2>1 DEF Sound, Watchers, Polling, Finishing, Out
  <2>3. WatchersSound' /\ SlotsSound'
    BY <1>18, <2>1, <2>2, KeepSlot DEF Cancelled, Out
  <2> QED
    BY <1>1, <1>2, <1>18, <2>3 DEF Cancelled
<1>19. CASE AcquireForBox(g)
  <2>1. w.pc = "box" /\ w.pc \in Finishing /\ w.pc \notin Out
    BY <1>19 DEF AcquireForBox, At, Finishing, Out
  <2>2. WatchersSound' /\ SlotsSound'
    BY <1>4, <1>6, <1>19, <2>1, TakeSlot, KeepSlot DEF AcquireForBox, Out
  <2> QED
    BY <1>1, <1>2, <1>19, <2>2 DEF AcquireForBox
<1>20. CASE BoxScore(g)
  <2>1. w.pc = "boxing" /\ w.pc \in Finishing /\ w.pc \in Out
    BY <1>20 DEF BoxScore, At, Finishing, Out
  <2>2. WatchersSound' /\ SlotsSound'
    BY <1>4, <1>6, <1>20, <2>1, ReturnSlot DEF BoxScore, Out
  <2> QED
    BY <1>1, <1>2, <1>20, <2>2 DEF BoxScore
<1>21. CASE SaveGameStats(g)
  <2>1. w.pc = "stats" /\ w.pc \in Finishing /\ w.pc \notin Out
    BY <1>21 DEF SaveGameStats, At, Finishing, Out
  <2>2. WatchersSound' /\ SlotsSound'
    <3>1. \E u \in Sound : u.pc \notin Out /\ Become(g, u)
      BY <1>4, <1>6, <1>21, <2>1 DEF SaveGameStats, Out
    <3> QED
      BY <1>21, <2>1, <3>1, KeepSlot DEF SaveGameStats
  <2>3. [done |-> TRUE, plays |-> w.seen, failed |-> w.failed]
          \in [done: BOOLEAN, plays: SUBSET PlayIds, failed: BOOLEAN]
    BY <1>0 DEF Watchers
  <2>4. statistics' \in [Games -> [done: BOOLEAN, plays: SUBSET PlayIds, failed: BOOLEAN]]
    BY <1>21, <2>3 DEF SaveGameStats, TypeInv, TypeOK
  <2> QED
    BY <1>1, <1>21, <2>2, <2>4 DEF SaveGameStats, TypeInv, TypeOK, gameRows, bus
<1>22. CASE TryAgain(g)
  <2>1. w.pc = "backoff" /\ w.pc \in Finishing
    BY <1>22 DEF TryAgain, At, Finishing
  <2>2. WatchersSound' /\ SlotsSound'
    BY <1>4, <1>22, <2>1, KeepSlot DEF TryAgain, Out
  <2> QED
    BY <1>1, <1>2, <1>22, <2>2 DEF TryAgain
<1>23. CASE Forget(g)
  <2>1. NoWatcher.pc \notin Out /\ w.pc \notin Out
    BY <1>23 DEF Forget, At, NoWatcher, Out
  <2> QED
    BY <1>1, <1>2, <1>23, <2>1, NoWatcherIsSound, KeepSlot DEF Forget
<1> QED
  BY <1>11, <1>12, <1>13, <1>14, <1>15, <1>16, <1>17, <1>18, <1>19, <1>20, <1>21,
     <1>22, <1>23 DEF WatcherStep

\* Tracking a game puts its watcher on or fills its mailbox.
LEMMA TrackedIsSound ==
  ASSUME NEW w \in Sound, NEW status \in Statuses
  PROVE  /\ Tracked(w, status) \in Sound
         /\ Tracked(w, status).pc \in Out <=> w.pc \in Out
<1>1. w \in Watchers
  BY DEF Sound
<1>2. [w EXCEPT !.mail = status] \in Sound /\ [w EXCEPT !.mail = status].pc = w.pc
  BY <1>1 DEF Sound, Watchers
<1> QED
  BY <1>2, NewWatcherIsSound DEF Tracked, Out

\* Each step of the scan keeps the types and the account of the semaphore.
LEMMA ScanTypes ==
  ASSUME TypeInv, ScanStep
  PROVE  TypeInv'
<1> USE DEF TypeInv
<1>0. /\ Resting \in Scans /\ Resting.pc = "wait" /\ NoScan \in Scans /\ NoScan.pc = "acquire"
      /\ scan \in Scans
  BY DEF Resting, NoScan, Scans, Days, TypeOK
<1>1. UNCHANGED watcher => InCall' = InCall /\ watcher' \in [Games -> Sound]
  BY DEF InCall
<1>2. UNCHANGED bounds \/ CallFails =>
        faults' \in 0..MaxFaults /\ restarts' \in 0..MaxRestarts
  BY LivePollerAssumption DEF CallFails, TypeOK, bounds
<1>3. /\ inflight \in 0..MaxInflight /\ MaxInflight \in Nat \ {0}
      /\ Cardinality(InCall) \in Nat
      /\ inflight = Cardinality(InCall) + (IF scan.pc = "call" THEN 1 ELSE 0)
  BY LivePollerAssumption, CallsAreFinite DEF TypeOK, SlotsAreReturned
<1>4. ASSUME NEW pc \in {"call", "track", "drain", "done"}
      PROVE  [scan EXCEPT !.pc = pc] \in Scans /\ [scan EXCEPT !.pc = pc].pc = pc
  BY <1>0 DEF Scans
<1>11. CASE AcquireForScan
  <2>1. scan' \in Scans /\ inflight' \in 0..MaxInflight /\ SlotsAreReturned'
    <3>1. scan.pc = "acquire" /\ UNCHANGED watcher
      BY <1>11 DEF AcquireForScan, ScanAt
    <3>2. \/ /\ inflight < MaxInflight /\ inflight' = inflight + 1
             /\ scan' \in Scans /\ scan'.pc = "call"
          \/ UNCHANGED inflight /\ scan' \in Scans /\ scan'.pc = "wait"
      BY <1>0, <1>4, <1>11 DEF AcquireForScan
    <3> QED
      BY <1>1, <1>3, <3>1, <3>2 DEF SlotsAreReturned
  <2> QED
    BY <1>1, <1>2, <1>11, <2>1 DEF AcquireForScan, TypeOK, tables, gameRows, bus
<1>12. CASE FetchDay
  <2>1. Fetched(scan.day) \in SUBSET (Games \X Statuses)
    BY <1>0, LivePollerAssumption DEF Fetched, TypeOK, Scans
  <2>2. scan' \in Scans /\ scan'.pc # "call"
    BY <1>0, <1>12, <2>1 DEF FetchDay, Scans, Days
  <2>3. inflight' \in 0..MaxInflight /\ SlotsAreReturned'
    BY <1>1, <1>3, <1>12, <2>2 DEF FetchDay, ScanAt, SlotsAreReturned
  <2> QED
    BY <1>1, <1>2, <1>12, <2>2, <2>3 DEF FetchDay, TypeOK, tables, gameRows, bus
<1>13. CASE UpsertGames
  <2>1. \A h \in FoundGames : Found(h) \in Statuses
    BY <1>0 DEF FoundGames, Found, Scans
  <2>2. stored' \in [Games -> Statuses \cup {"none"}] /\ begun' \subseteq Games
    <3>1. FoundGames \subseteq Games
      BY <1>0 DEF FoundGames, Scans
    <3>2. CASE StoreRows
      BY <2>1, <3>1, <3>2 DEF StoreRows, Upserted, TypeOK
    <3>3. CASE UNCHANGED gameRows
      BY <3>3 DEF gameRows, TypeOK
    <3> QED
      BY <1>13, <3>2, <3>3 DEF UpsertGames
  <2>3. scan' \in Scans /\ SlotsAreReturned'
    BY <1>0, <1>1, <1>3, <1>4, <1>13 DEF UpsertGames, ScanAt, SlotsAreReturned
  <2> QED
    BY <1>1, <1>2, <1>13, <2>2, <2>3 DEF UpsertGames, TypeOK, bus
<1>14. CASE Track
  <2>1. \A h \in FoundGames : Found(h) \in Statuses
    BY <1>0 DEF FoundGames, Found, Scans
  <2>2. watcher' \in [Games -> Sound] /\ watcher' \in [Games -> Watchers]
    BY <1>14, <2>1, TrackedIsSound DEF Track, Sound
  <2>3. InCall' = InCall
    BY <1>14, <2>1, TrackedIsSound DEF Track, InCall, Out
  <2>4. scan' \in Scans /\ SlotsAreReturned'
    BY <1>0, <1>3, <1>14, <2>3 DEF Track, ScanAt, SlotsAreReturned
  <2> QED
    BY <1>2, <1>14, <2>2, <2>4 DEF Track, TypeOK, tables, gameRows, bus
<1>15. CASE NextScan
  <2>1. scan' \in Scans /\ SlotsAreReturned'
    BY <1>0, <1>1, <1>3, <1>15 DEF NextScan, ScanAt, SlotsAreReturned
  <2> QED
    BY <1>1, <1>2, <1>15, <2>1 DEF NextScan, TypeOK, tables, gameRows, bus
<1>16. CASE StopScanning
  <2>1. scan' \in Scans /\ SlotsAreReturned'
    BY <1>0, <1>1, <1>3, <1>4, <1>16 DEF StopScanning, ScanAt, SlotsAreReturned
  <2> QED
    BY <1>1, <1>2, <1>16, <2>1 DEF StopScanning, TypeOK, tables, gameRows, bus
<1>17. CASE RunReturns
  <2>1. scan' \in Scans /\ SlotsAreReturned'
    BY <1>0, <1>1, <1>3, <1>4, <1>17 DEF RunReturns, ScanAt, SlotsAreReturned
  <2> QED
    BY <1>1, <1>2, <1>17, <2>1 DEF RunReturns, TypeOK, tables, gameRows
<1> QED
  BY <1>11, <1>12, <1>13, <1>14, <1>15, <1>16, <1>17 DEF ScanStep

\* The feed, the process and the consumer of the bus keep them too.
LEMMA OtherTypes ==
  ASSUME TypeInv, UNCHANGED vars \/ Consume \/ Shutdown \/ Exit \/ Crash \/ Start
                  \/ \E g \in Games : GameMoves(g) \/ PlayHappens(g)
  PROVE  TypeInv'
<1> USE DEF TypeInv
<1>1. UNCHANGED <<watcher, scan, inflight>> =>
        SlotsAreReturned' /\ watcher' \in [Games -> Sound]
  BY DEF SlotsAreReturned, InCall
<1>2. CASE UNCHANGED vars
  BY <1>1, <1>2 DEF TypeOK, vars, tables, gameRows, bus, bounds
<1>3. CASE Consume
  <2>1. backlog' \in 0..Buffer
    BY <1>3, LivePollerAssumption DEF Consume, TypeOK
  <2> QED
    BY <1>1, <1>3, <2>1 DEF Consume, TypeOK, tables, gameRows, bounds
<1>4. CASE Shutdown
  BY <1>1, <1>4, LivePollerAssumption DEF Shutdown, TypeOK, tables, gameRows, bus
<1>5. CASE Exit \/ Crash
  <2>1. Vanish /\ restarts' \in 0..MaxRestarts
    BY <1>5, LivePollerAssumption DEF Exit, Crash, TypeOK
  <2>2. /\ watcher' \in [Games -> Sound] /\ watcher' \in [Games -> Watchers]
        /\ InCall' = {}
    BY <2>1, NoWatcherIsSound DEF Vanish, InCall, Sound, NoWatcher
  <2>3. scan' \in Scans /\ scan'.pc = "acquire" /\ inflight' = 0
    BY <2>1 DEF Vanish, NoScan, Scans, Days
  <2>4. SlotsAreReturned'
    BY <2>2, <2>3, FS_EmptySet DEF SlotsAreReturned
  <2>5. inflight' \in 0..MaxInflight /\ backlog' \in 0..Buffer
    BY <2>1, LivePollerAssumption DEF Vanish
  <2>6. /\ UNCHANGED <<feed, tables, faults, published>>
        /\ closed' \in BOOLEAN /\ mode' \in {"up", "stopping", "down"}
    BY <2>1 DEF Vanish
  <2> QED
    BY <2>1, <2>2, <2>3, <2>4, <2>5, <2>6 DEF TypeOK, tables, gameRows
<1>6. CASE Start
  BY <1>1, <1>6 DEF Start, TypeOK, tables, gameRows, bus, bounds
<1>7. ASSUME NEW g \in Games, GameMoves(g) \/ PlayHappens(g)
      PROVE  TypeInv'
  <2>1. feed' \in [Games -> [status: Statuses, plays: 0..MaxPlays]]
    <3>1. feed[g] \in [status: Statuses, plays: 0..MaxPlays]
      BY DEF TypeOK
    <3>2. CASE GameMoves(g)
      BY <3>1, <3>2, LivePollerAssumption DEF GameMoves, TypeOK
    <3>3. CASE PlayHappens(g)
      BY <3>1, <3>3, LivePollerAssumption DEF PlayHappens, TypeOK
    <3> QED
      BY <1>7, <3>2, <3>3
  <2> QED
    BY <1>1, <1>7, <2>1 DEF GameMoves, PlayHappens, TypeOK, tables, gameRows, bus, bounds
<1> QED
  BY <1>2, <1>3, <1>4, <1>5, <1>6, <1>7

LEMMA TypeInit == Init => TypeInv
<1> SUFFICES ASSUME Init
             PROVE  TypeInv
  OBVIOUS
<1>1. NoWatcher \in Sound /\ NoWatcher \in Watchers
  BY NoWatcherIsSound DEF Sound
<1>2. feed \in [Games -> [status: Statuses, plays: 0..MaxPlays]]
  <2>1. feed \in [Games -> [status: Shown \ {"final"}, plays: {0}]]
    BY DEF Init
  <2>2. Shown \ {"final"} \subseteq Statuses /\ {0} \subseteq 0..MaxPlays
    BY LivePollerAssumption
  <2> QED
    BY <2>1, <2>2
<1>3. /\ scan \in Scans /\ scan.pc = "acquire"
      /\ NoStats \in [done: BOOLEAN, plays: SUBSET PlayIds, failed: BOOLEAN]
  BY DEF Init, NoScan, Scans, Days, NoStats
<1>4. SlotsAreReturned
  <2>1. InCall = {}
    BY DEF Init, InCall, NoWatcher
  <2> QED
    BY <1>3, <2>1, FS_EmptySet DEF Init, SlotsAreReturned
<1>5. /\ inflight \in 0..MaxInflight /\ backlog \in 0..Buffer
      /\ faults \in 0..MaxFaults /\ restarts \in 0..MaxRestarts
  BY LivePollerAssumption DEF Init
<1>6. /\ stored \in [Games -> Statuses \cup {"none"}] /\ saved \subseteq AllEvents
      /\ begun \subseteq Games
      /\ statistics \in [Games -> [done: BOOLEAN, plays: SUBSET PlayIds, failed: BOOLEAN]]
      /\ published \in [AllEvents -> Nat]
  BY <1>3 DEF Init
<1>7. watcher \in [Games -> Sound] /\ watcher \in [Games -> Watchers]
  BY <1>1 DEF Init
<1>8. closed \in BOOLEAN /\ mode \in {"up", "stopping", "down"}
  BY DEF Init
<1> QED
  BY <1>2, <1>3, <1>4, <1>5, <1>6, <1>7, <1>8 DEF TypeInv, TypeOK

LEMMA TypeStep ==
  ASSUME TypeInv, [Next]_vars
  PROVE  TypeInv'
BY WatcherTypes, ScanTypes, OtherTypes DEF Next

\* Every reachable state of the poller is well-typed: never more calls out than the
\* semaphore admits, nor more attempts at the statistics than the policy allows.
THEOREM PollerTypeCorrect == Spec => []TypeOK
<1>1. TypeInv => TypeOK
  BY DEF TypeInv
<1> QED
  BY TypeInit, TypeStep, <1>1, PTL DEF Spec

\* The slots of the semaphore in use are those of the calls that are out.
THEOREM NoSlotIsLost == Spec => []SlotsAreReturned
<1>1. TypeInv => SlotsAreReturned
  BY DEF TypeInv
<1> QED
  BY TypeInit, TypeStep, <1>1, PTL DEF Spec

(*********************** Published once, and closed ***********************)

\* What a watcher is about to publish has been saved, and was not before.
FreshIsSaved ==
  \A g \in Games : \A i \in watcher[g].fresh : <<g, i>> \in saved

OnceInv == FreshIsSaved /\ PublishedOnce

\* A step that publishes nothing and leaves no more to publish keeps the invariant.
LEMMA OnceKept ==
  ASSUME TypeInv, OnceInv, saved \subseteq saved', UNCHANGED published,
         \A g \in Games : watcher'[g].fresh \subseteq watcher[g].fresh
  PROVE  OnceInv'
<1>1. FreshIsSaved'
  BY DEF OnceInv, FreshIsSaved
<1>2. PublishedOnce'
  <2> SUFFICES ASSUME NEW e \in AllEvents
               PROVE  published'[e] <= IF e \in saved' /\ e[2] \notin watcher'[e[1]].fresh
                                       THEN 1 ELSE 0
    BY DEF PublishedOnce
  <2>1. e[1] \in Games /\ published[e] \in Nat
    BY DEF AllEvents, TypeInv, TypeOK
  <2>2. published[e] <= IF e \in saved /\ e[2] \notin watcher[e[1]].fresh THEN 1 ELSE 0
    BY DEF OnceInv, PublishedOnce
  <2> QED
    BY <2>1, <2>2
<1> QED
  BY <1>1, <1>2 DEF OnceInv

\* What becomes of the one watcher that moves.
LEMMA OnceOne ==
  ASSUME TypeInv, OnceInv, saved \subseteq saved', UNCHANGED published,
         NEW g \in Games, NEW w, Become(g, w), w.fresh \subseteq watcher[g].fresh
  PROVE  OnceInv'
<1>1. \A h \in Games : watcher'[h].fresh \subseteq watcher[h].fresh
  BY DEF Become, TypeInv
<1> QED
  BY <1>1, OnceKept

\* A save makes fresh only what nobody has saved, and hence nobody published.
LEMMA OnceSaved ==
  ASSUME TypeInv, OnceInv, NEW g \in Games, SaveEvents(g)
  PROVE  OnceInv'
<1> DEFINE w   == watcher[g]
           ids == Detect(w.game, w.seen)
           v   == [w EXCEPT !.pc = "publish", !.fresh = Unsaved(g, ids)]
<1>0. w \in Sound /\ w \in Watchers /\ w.pc \in Polling
  BY DEF TypeInv, Sound, SaveEvents, At, Polling
<1>1. saved \subseteq saved' /\ UNCHANGED published
  BY DEF SaveEvents
<1>2. ASSUME NEW failed \in BOOLEAN, Become(g, AfterPoll(w, failed))
      PROVE  OnceInv'
  <2>1. AfterPoll(w, failed).fresh = {}
    BY <1>0, AfterPollIsSound
  <2> QED
    BY <1>1, <1>2, <2>1, OnceOne
<1>3. CASE saved' = saved \cup ({g} \X ids) /\ Become(g, v)
  <2>1. v.fresh = {i \in ids : <<g, i>> \notin saved}
    BY <1>0 DEF Unsaved, Watchers
  <2>2. watcher'[g].fresh = v.fresh /\ \A h \in Games : h # g => watcher'[h] = watcher[h]
    BY <1>3 DEF Become, TypeInv
  <2>3. FreshIsSaved'
    BY <1>1, <1>3, <2>1, <2>2 DEF OnceInv, FreshIsSaved
  <2>4. PublishedOnce'
    <3> SUFFICES ASSUME NEW e \in AllEvents
                 PROVE  published'[e] <= IF e \in saved' /\ e[2] \notin watcher'[e[1]].fresh
                                         THEN 1 ELSE 0
      BY DEF PublishedOnce
    <3>1. e[1] \in Games /\ e = <<e[1], e[2]>> /\ published[e] \in Nat
      BY DEF AllEvents, TypeInv, TypeOK
    <3>2. published[e] <= IF e \in saved /\ e[2] \notin watcher[e[1]].fresh THEN 1 ELSE 0
      BY DEF OnceInv, PublishedOnce
    <3>3. CASE e[1] # g
      BY <1>1, <1>3, <2>2, <3>1, <3>2, <3>3
    <3>4. CASE e[1] = g /\ e \in saved
      <4>1. e[2] \notin watcher'[e[1]].fresh /\ e \in saved'
        BY <1>1, <2>1, <2>2, <3>1, <3>4
      <4> QED
        BY <1>1, <3>1, <3>2, <4>1
    <3>5. CASE e[1] = g /\ e \notin saved
      BY <1>1, <3>1, <3>2, <3>5
    <3> QED
      BY <3>3, <3>4, <3>5
  <2> QED
    BY <2>3, <2>4 DEF OnceInv
<1>4. \/ \E failed \in BOOLEAN : Become(g, AfterPoll(w, failed))
      \/ saved' = saved \cup ({g} \X ids) /\ Become(g, v)
  BY DEF SaveEvents
<1> QED
  BY <1>2, <1>3, <1>4

\* A publication takes its event out of the fresh ones.
LEMMA OncePublished ==
  ASSUME TypeInv, OnceInv, NEW g \in Games, Publish(g)
  PROVE  OnceInv'
<1> DEFINE w == watcher[g]
<1>0. w \in Sound /\ w \in Watchers /\ w.pc \in Polling
  BY DEF TypeInv, Sound, Publish, At, Polling
<1>1. PICK i \in w.fresh :
        /\ published' = [published EXCEPT ![<<g, i>>] = @ + 1]
        /\ Become(g, IF w.fresh = {i} THEN AfterPoll(w, FALSE)
                     ELSE [w EXCEPT !.fresh = @ \ {i}])
  BY DEF Publish
<1>2. UNCHANGED saved
  BY DEF Publish, tables, gameRows
<1>3. watcher'[g].fresh = w.fresh \ {i} /\ \A h \in Games : h # g => watcher'[h] = watcher[h]
  <2>1. AfterPoll(w, FALSE).fresh = {}
    BY <1>0, AfterPollIsSound
  <2>2. [w EXCEPT !.fresh = @ \ {i}].fresh = w.fresh \ {i}
    BY <1>0 DEF Watchers
  <2> QED
    BY <1>1, <2>1, <2>2 DEF Become, TypeInv
<1>4. FreshIsSaved'
  BY <1>2, <1>3 DEF OnceInv, FreshIsSaved
<1>5. <<g, i>> \in saved
  BY <1>1 DEF OnceInv, FreshIsSaved
<1>6. PublishedOnce'
  <2> SUFFICES ASSUME NEW e \in AllEvents
               PROVE  published'[e] <= IF e \in saved' /\ e[2] \notin watcher'[e[1]].fresh
                                       THEN 1 ELSE 0
    BY DEF PublishedOnce
  <2>1. /\ e[1] \in Games /\ e = <<e[1], e[2]>> /\ published[e] \in Nat
        /\ published \in [AllEvents -> Nat]
    BY DEF AllEvents, TypeInv, TypeOK
  <2>2. published[e] <= IF e \in saved /\ e[2] \notin watcher[e[1]].fresh THEN 1 ELSE 0
    BY DEF OnceInv, PublishedOnce
  <2>3. CASE e = <<g, i>>
    <3>1. published[e] = 0 /\ published'[e] = 1
      BY <1>1, <2>1, <2>2, <2>3
    <3> QED
      BY <1>2, <1>3, <1>5, <2>3, <3>1
  <2>4. CASE e # <<g, i>>
    <3>1. published'[e] = published[e]
      BY <1>1, <2>1, <2>4
    <3>2. e[2] \in watcher'[e[1]].fresh <=> e[2] \in watcher[e[1]].fresh
      BY <1>3, <2>1, <2>4
    <3> QED
      BY <1>2, <2>2, <3>1, <3>2
  <2> QED
    BY <2>3, <2>4
<1> QED
  BY <1>4, <1>6 DEF OnceInv

LEMMA OnceStep ==
  ASSUME TypeInv, OnceInv, [Next]_vars
  PROVE  OnceInv'
<1>1. ASSUME NEW g \in Games, WatcherStep(g)
      PROVE  OnceInv'
  <2> DEFINE w == watcher[g]
  <2>0. w \in Sound /\ w \in Watchers
    BY DEF TypeInv, Sound
  <2>1. CASE SaveEvents(g) \/ Publish(g)
    BY <2>1, OnceSaved, OncePublished
  <2>2. ASSUME NEW failed \in BOOLEAN, w.pc \in Polling
        PROVE  AfterPoll(w, failed).fresh = {}
    BY <2>0, <2>2, AfterPollIsSound
  <2>3. w.pc \in Finishing => AfterAttempt(w).fresh = w.fresh
    BY <2>0, AfterAttemptIsSound
  <2>4. \A pc : [w EXCEPT !.pc = pc].fresh = w.fresh
    BY <2>0 DEF Watchers
  <2>5. CASE AcquireForPlays(g) \/ PublishCancelled(g)
    <3>1. w.pc \in Polling
      BY <2>5 DEF AcquireForPlays, PublishCancelled, At, Polling
    <3>2. \E v : v.fresh \subseteq w.fresh /\ Become(g, v)
      BY <2>2, <2>4, <2>5, <3>1 DEF AcquireForPlays, PublishCancelled
    <3> QED
      BY <2>5, <3>2, OnceOne DEF AcquireForPlays, PublishCancelled, tables, gameRows
  <2>6. CASE Plays(g)
    <3>1. w.pc = "plays"
      BY <2>6 DEF Plays, At
    <3> DEFINE v == [w EXCEPT !.cursor = Pages(feed[g].plays),
                              !.seen = @ \cup PlaysFrom(g, w.cursor)]
    <3>2. v.fresh = w.fresh
      BY <2>0 DEF Watchers
    <3>3. AfterPoll(v, FALSE).fresh = {} /\ [v EXCEPT !.pc = "save"].fresh = w.fresh
      BY <2>0 DEF AfterPoll, Watchers
    <3>4. \E u : u.fresh \subseteq w.fresh /\ Become(g, u)
      BY <2>2, <2>6, <3>1, <3>3 DEF Plays, Polling
    <3> QED
      BY <2>6, <3>4, OnceOne DEF Plays, tables, gameRows
  <2>7. CASE Hear(g)
    <3>1. [w EXCEPT !.pc = "poll", !.game = w.mail, !.mail = "none"].fresh = w.fresh
      BY <2>0 DEF Watchers
    <3> QED
      BY <2>7, <3>1, OnceOne DEF Hear, tables, gameRows
  <2>8. CASE PollAgain(g) \/ Cancelled(g) \/ TryAgain(g)
    BY <2>4, <2>8, OnceOne DEF PollAgain, Cancelled, TryAgain, tables, gameRows
  <2>9. CASE AcquireForBox(g) \/ BoxScore(g) \/ SaveGameStats(g)
    <3>1. w.pc \in Finishing
      BY <2>9 DEF AcquireForBox, BoxScore, SaveGameStats, At, Finishing
    <3>2. \E v : v.fresh \subseteq w.fresh /\ Become(g, v)
      BY <2>3, <2>4, <2>9, <3>1 DEF AcquireForBox, BoxScore, SaveGameStats
    <3> QED
      BY <2>9, <3>2, OnceOne DEF AcquireForBox, BoxScore, SaveGameStats, tables, gameRows
  <2>10. CASE Forget(g)
    BY <2>10, OnceOne DEF Forget, NoWatcher, tables, gameRows
  <2> QED
    BY <1>1, <2>1, <2>5, <2>6, <2>7, <2>8, <2>9, <2>10 DEF WatcherStep
<1>2. CASE ScanStep
  <2>1. UNCHANGED <<saved, published>>
    BY <1>2 DEF ScanStep, AcquireForScan, FetchDay, UpsertGames, Track, NextScan,
                StopScanning, RunReturns, tables, gameRows
  <2>2. CASE UNCHANGED watcher
    BY <2>1, <2>2, OnceKept
  <2>3. CASE Track
    <3>1. \A h \in FoundGames : Found(h) \in Statuses
      <4>1. scan \in Scans
        BY DEF TypeInv, TypeOK
      <4> QED
        BY <4>1 DEF FoundGames, Found, Scans
    <3>2. \A g \in Games, status \in Statuses :
            Tracked(watcher[g], status).fresh \subseteq watcher[g].fresh
      <4> SUFFICES ASSUME NEW g \in Games, NEW status \in Statuses
                   PROVE  Tracked(watcher[g], status).fresh \subseteq watcher[g].fresh
        OBVIOUS
      <4>1. [watcher[g] EXCEPT !.mail = status].fresh = watcher[g].fresh
        BY DEF TypeInv, Sound, Watchers
      <4> QED
        BY <4>1, NewWatcherIsSound DEF Tracked
    <3> QED
      BY <2>1, <2>3, <3>1, <3>2, OnceKept DEF Track
  <2> QED
    BY <1>2, <2>2, <2>3
       DEF ScanStep, AcquireForScan, FetchDay, UpsertGames, NextScan, StopScanning, RunReturns
<1>3. CASE UNCHANGED <<saved, published, watcher>>
  BY <1>3, OnceKept
<1>4. CASE Exit \/ Crash
  BY <1>4, OnceKept DEF Exit, Crash, Vanish, NoWatcher, tables, gameRows
<1> QED
  BY <1>1, <1>2, <1>3, <1>4
     DEF Next, vars, tables, gameRows, GameMoves, PlayHappens, Consume, Shutdown, Start

\* However often a game is watched anew, each of its events is published once.
THEOREM EventsPublishedOnce == Spec => []PublishedOnce
<1>1. Init => TypeInv /\ OnceInv
  <2> SUFFICES ASSUME Init
               PROVE  OnceInv
    BY TypeInit
  <2>1. FreshIsSaved
    BY DEF Init, FreshIsSaved, NoWatcher
  <2> QED
    BY <2>1 DEF Init, OnceInv, PublishedOnce
<1>2. TypeInv /\ OnceInv /\ [Next]_vars => TypeInv' /\ OnceInv'
  BY TypeStep, OnceStep
<1>3. OnceInv => PublishedOnce
  BY DEF OnceInv
<1> QED
  BY <1>1, <1>2, <1>3, PTL DEF Spec

\* A closed bus stays closed until the process is gone, and Run closes it last.
CloseInv ==
  /\ closed => scan.pc = "done"
  /\ scan.pc = "done" => \A g \in Games : watcher[g].pc = "off"

LEMMA CloseInit == Init => CloseInv
BY DEF Init, CloseInv, NoScan

LEMMA CloseStep ==
  ASSUME TypeInv, CloseInv, [Next]_vars
  PROVE  CloseInv'
<1>1. ASSUME NEW g \in Games, WatcherStep(g)
      PROVE  CloseInv'
  <2>1. watcher[g].pc # "off" /\ UNCHANGED <<scan, closed>>
    BY <1>1 DEF WatcherStep, AcquireForPlays, Plays, SaveEvents, Publish, PublishCancelled,
                Hear, PollAgain, Cancelled, AcquireForBox, BoxScore, SaveGameStats,
                TryAgain, Forget, At, bus
  <2> QED
    BY <2>1 DEF CloseInv
<1>2. CASE ScanStep
  <2>1. CASE RunReturns
    <3>1. [scan EXCEPT !.pc = "done"].pc = "done"
      BY DEF TypeInv, TypeOK, Scans
    <3> QED
      BY <2>1, <3>1 DEF RunReturns, CloseInv
  <2>2. ASSUME ~RunReturns
        PROVE  scan.pc # "done" /\ scan'.pc # "done" /\ UNCHANGED closed
    BY <1>2, <2>2 DEF ScanStep, AcquireForScan, FetchDay, UpsertGames, Track, NextScan,
               StopScanning, ScanAt, NoScan, Resting, TypeInv, TypeOK, Scans, bus
  <2> QED
    BY <2>1, <2>2 DEF CloseInv
<1>3. CASE Exit \/ Crash
  BY <1>3 DEF Exit, Crash, Vanish, NoScan, CloseInv
<1>4. CASE UNCHANGED <<scan, watcher, closed>>
  BY <1>4 DEF CloseInv
<1> QED
  BY <1>1, <1>2, <1>3, <1>4
     DEF Next, vars, bus, GameMoves, PlayHappens, Consume, Shutdown, Start

\* No watcher is left to send on a closed bus.
THEOREM ClosedBusStaysQuiet == Spec => []ClosedBusIsQuiet
<1>1. CloseInv => ClosedBusIsQuiet
  BY DEF CloseInv, ClosedBusIsQuiet
<1>2. TypeInv /\ CloseInv /\ [Next]_vars => CloseInv'
  BY CloseStep
<1> QED
  BY TypeInit, TypeStep, CloseInit, <1>1, <1>2, PTL DEF Spec

(***************************************************************************)
(* The refinement.  A watcher has something to publish only where it       *)
(* publishes, so that every other step of it leaves the feed alone; and    *)
(* Run comes to close the bus only in a process that is stopping.          *)
(***************************************************************************)
FreshAtPublish ==
  \A g \in Games : watcher[g].pc # "publish" => watcher[g].fresh = {}

StopsInOrder == scan.pc \in {"drain", "done"} => mode = "stopping"

FeedInv == TypeInv /\ CloseInv /\ FreshAtPublish /\ StopsInOrder

FeedStep == [Feed!FeedNext]_(Feed!feeding)

Unpublished == {e \in AllEvents : e[2] \in watcher[e[1]].fresh}

\* A step of one watcher after which it is in order again, and what it leaves alone.
LEMMA OneWatcher ==
  ASSUME FeedInv, NEW g \in Games, NEW w, Become(g, w),
         w.pc # "publish" => w.fresh = {}
  PROVE  /\ FreshAtPublish' /\ watcher'[g] = w
         /\ \A h \in Games : h # g => watcher'[h] = watcher[h]
BY DEF FeedInv, TypeInv, FreshAtPublish, Become

\* If it had nothing to publish and has nothing now, the feed stands still.
LEMMA QuietWatcher ==
  ASSUME FeedInv, NEW g \in Games, NEW w, Become(g, w), watcher[g].fresh = {},
         w.fresh = {}, UNCHANGED <<saved, backlog, closed, mode>>
  PROVE  FreshAtPublish' /\ FeedStep
<1>1. /\ FreshAtPublish' /\ watcher'[g] = w
      /\ \A h \in Games : h # g => watcher'[h] = watcher[h]
  BY OneWatcher
<1>2. \A h \in Games : watcher'[h].fresh = watcher[h].fresh
  BY <1>1
<1>3. Unpublished' = Unpublished
  BY <1>2 DEF Unpublished, AllEvents
<1> QED
  BY <1>1, <1>3 DEF FeedStep, Feed!feeding, Unpublished

LEMMA InsertFeeds ==
  ASSUME NEW S, S \in SUBSET (AllEvents \ saved), Feed!Insert(S)
  PROVE  FeedStep
<1>1. Feed!FeedNext
  BY Zenon DEF Feed!FeedNext
<1> QED
  BY <1>1 DEF FeedStep

LEMMA PutFeeds ==
  ASSUME NEW e, e \in Unpublished, Feed!Put(e)
  PROVE  FeedStep
<1>1. Feed!FeedNext
  BY Zenon DEF Feed!FeedNext, Unpublished
<1> QED
  BY <1>1 DEF FeedStep

LEMMA DropFeeds ==
  ASSUME NEW S, S \in SUBSET Unpublished, Feed!Drop(S)
  PROVE  FeedStep
<1>1. Feed!FeedNext
  BY Zenon DEF Feed!FeedNext, Unpublished
<1> QED
  BY <1>1 DEF FeedStep

\* The saving of a batch inserts what is new, and the watcher has just that to
\* publish unless the call has failed.
LEMMA SaveFeeds ==
  ASSUME FeedInv, NEW g \in Games, SaveEvents(g)
  PROVE  FreshAtPublish' /\ FeedStep
<1> DEFINE w   == watcher[g]
           ids == Detect(w.game, w.seen)
           new == ({g} \X ids) \ saved
           v   == [w EXCEPT !.pc = "publish", !.fresh = Unsaved(g, ids)]
<1>0. w \in Sound /\ w \in Watchers /\ w.pc = "save" /\ w.fresh = {}
  BY DEF FeedInv, TypeInv, FreshAtPublish, Sound, SaveEvents, At
<1>1. mode # "down" /\ ~closed /\ UNCHANGED <<backlog, closed, mode>>
  BY <1>0 DEF FeedInv, CloseInv, SaveEvents, At, bus
<1>2. ids \subseteq 0..MaxPlays + 1
  BY <1>0, DetectType DEF Watchers
<1>3. new \in SUBSET (AllEvents \ saved) /\ {} \in SUBSET (AllEvents \ saved)
  BY <1>2 DEF AllEvents
<1>4. saved' = saved \cup new \/ saved' = saved
  BY DEF SaveEvents
<1>5. ASSUME NEW failed \in BOOLEAN, Become(g, AfterPoll(w, failed))
      PROVE  FreshAtPublish' /\ FeedStep
  <2>1. AfterPoll(w, failed).fresh = {}
    BY <1>0, AfterPollIsSound DEF Polling
  <2>2. /\ FreshAtPublish' /\ watcher'[g].fresh = {}
        /\ \A h \in Games : h # g => watcher'[h] = watcher[h]
    BY <1>5, <2>1, OneWatcher
  <2>3. Unpublished' = Unpublished
    BY <1>0, <2>2 DEF Unpublished, AllEvents
  <2>4. ASSUME NEW S, S = new, saved' = saved \cup new
        PROVE  Feed!Insert(S)
    BY <1>1, <2>3, <2>4 DEF Feed!Insert, Unpublished
  <2>5. ASSUME saved' = saved
        PROVE  UNCHANGED Feed!feeding
    BY <1>1, <2>3, <2>5 DEF Feed!feeding, Unpublished
  <2>6. CASE saved' = saved \cup new
    <3>1. PICK S \in SUBSET (AllEvents \ saved) : S = new
      BY <1>3
    <3>2. Feed!Insert(S)
      BY <2>4, <2>6, <3>1
    <3>3. FeedStep
      BY <3>1, <3>2, InsertFeeds
    <3> QED
      BY <2>2, <3>3
  <2>7. CASE saved' = saved
    BY <2>2, <2>5, <2>7 DEF FeedStep
  <2> QED
    BY <1>4, <2>6, <2>7
<1>6. CASE saved' = saved \cup ({g} \X ids) /\ Become(g, v)
  <2>1. v.fresh = {i \in ids : <<g, i>> \notin saved} /\ v.pc = "publish"
    BY <1>0 DEF Unsaved, Watchers
  <2>2. /\ FreshAtPublish' /\ watcher'[g] = v
        /\ \A h \in Games : h # g => watcher'[h] = watcher[h]
    BY <1>6, <2>1, OneWatcher
  <2>3. Unpublished' = Unpublished \cup new
    <3>1. new \subseteq AllEvents
      BY <1>3
    <3>2. ASSUME NEW e \in AllEvents
          PROVE  e \in Unpublished' <=> e \in Unpublished \cup new
      <4>1. e[1] \in Games /\ e = <<e[1], e[2]>>
        BY DEF AllEvents
      <4>2. e[1] = g => (e \in new <=> e[2] \in v.fresh)
        BY <2>1, <4>1
      <4>3. e[1] # g => e \notin new
        BY <4>1
      <4> QED
        BY <1>0, <2>2, <4>1, <4>2, <4>3 DEF Unpublished
    <3> HIDE DEF new
    <3>3. Unpublished \subseteq AllEvents /\ Unpublished' \subseteq AllEvents
      BY DEF Unpublished, AllEvents
    <3> QED
      BY <3>1, <3>2, <3>3
  <2>4. saved' = saved \cup new
    BY <1>6
  <2>5. PICK S \in SUBSET (AllEvents \ saved) : S = new
    BY <1>3
  <2>6. Feed!Insert(S)
    BY <1>1, <2>3, <2>4, <2>5 DEF Feed!Insert, Unpublished
  <2>7. FeedStep
    BY <2>5, <2>6, InsertFeeds
  <2> QED
    BY <2>2, <2>7
<1>7. \/ \E failed \in BOOLEAN : Become(g, AfterPoll(w, failed))
      \/ saved' = saved \cup ({g} \X ids) /\ Become(g, v)
  BY DEF SaveEvents
<1> QED
  BY <1>5, <1>6, <1>7

\* A publication puts one event on the bus, and the last one ends the poll.
LEMMA PublishFeeds ==
  ASSUME FeedInv, NEW g \in Games, Publish(g)
  PROVE  FreshAtPublish' /\ FeedStep
<1> DEFINE w == watcher[g]
<1>0. w \in Sound /\ w \in Watchers /\ w.pc = "publish"
  BY DEF FeedInv, TypeInv, Sound, Publish, At
<1>1. PICK i \in w.fresh :
        Become(g, IF w.fresh = {i} THEN AfterPoll(w, FALSE)
                  ELSE [w EXCEPT !.fresh = @ \ {i}])
  BY DEF Publish
<1>2. PICK v : /\ Become(g, v) /\ v.fresh = w.fresh \ {i}
               /\ v.pc # "publish" => v.fresh = {}
  <2>1. AfterPoll(w, FALSE).fresh = {}
    BY <1>0, AfterPollIsSound DEF Polling
  <2>2. /\ [w EXCEPT !.fresh = @ \ {i}].fresh = w.fresh \ {i}
        /\ [w EXCEPT !.fresh = @ \ {i}].pc = "publish"
    BY <1>0 DEF Watchers
  <2>3. CASE w.fresh = {i}
    BY <1>1, <2>1, <2>3
  <2>4. CASE w.fresh # {i}
    BY <1>1, <2>2, <2>4
  <2> QED
    BY <2>3, <2>4
<1>3. /\ FreshAtPublish' /\ watcher'[g].fresh = w.fresh \ {i}
      /\ \A h \in Games : h # g => watcher'[h] = watcher[h]
  BY <1>2, OneWatcher
<1>4. <<g, i>> \in AllEvents
  BY <1>0 DEF Watchers, AllEvents
<1>5. Unpublished' = Unpublished \ {<<g, i>>}
  BY <1>3, <1>4 DEF Unpublished, AllEvents
<1>6. <<g, i>> \in Unpublished
  BY <1>4 DEF Unpublished
<1>7. Feed!Put(<<g, i>>)
  BY <1>5 DEF Feed!Put, Unpublished, Publish, At, tables, gameRows
<1> QED
  BY <1>3, <1>6, <1>7, PutFeeds

\* A cancelled watcher drops what it has not published yet.
LEMMA CancelFeeds ==
  ASSUME FeedInv, NEW g \in Games, PublishCancelled(g)
  PROVE  FreshAtPublish' /\ FeedStep
<1> DEFINE w    == watcher[g]
           left == {e \in Unpublished : e[1] = g}
<1>0. w \in Sound /\ w.pc = "publish" /\ Become(g, AfterPoll(w, TRUE))
  BY DEF FeedInv, TypeInv, PublishCancelled, At
<1>1. AfterPoll(w, TRUE).fresh = {}
  BY <1>0, AfterPollIsSound DEF Polling
<1>2. /\ FreshAtPublish' /\ watcher'[g].fresh = {}
      /\ \A h \in Games : h # g => watcher'[h] = watcher[h]
  BY <1>0, <1>1, OneWatcher
<1>3. Unpublished' = Unpublished \ left
  BY <1>2 DEF Unpublished, AllEvents
<1>4. PICK S \in SUBSET Unpublished : S = left
  OBVIOUS
<1>5. Feed!Drop(S)
  BY <1>3, <1>4 DEF Feed!Drop, Unpublished, PublishCancelled, tables, gameRows, bus
<1>6. FeedStep
  BY <1>4, <1>5, DropFeeds
<1> QED
  BY <1>2, <1>6

\* Every step of a watcher.
LEMMA WatcherFeeds ==
  ASSUME FeedInv, NEW g \in Games, WatcherStep(g)
  PROVE  FreshAtPublish' /\ FeedStep
<1> DEFINE w == watcher[g]
<1>0. w \in Sound /\ w \in Watchers
  BY DEF FeedInv, TypeInv, Sound
<1>1. CASE SaveEvents(g) \/ Publish(g) \/ PublishCancelled(g)
  BY <1>1, SaveFeeds, PublishFeeds, CancelFeeds
<1>2. \A pc : [w EXCEPT !.pc = pc].fresh = w.fresh
  BY <1>0 DEF Watchers
<1>3. CASE AcquireForPlays(g)
  <2>1. w.pc = "poll" /\ w.fresh = {}
    BY <1>3 DEF AcquireForPlays, At, FeedInv, FreshAtPublish
  <2>2. AfterPoll(w, TRUE).fresh = {}
    BY <1>0, <2>1, AfterPollIsSound DEF Polling
  <2>3. \E v : v.fresh = {} /\ Become(g, v)
    BY <1>2, <1>3, <2>1, <2>2 DEF AcquireForPlays
  <2> QED
    BY <1>3, <2>1, <2>3, QuietWatcher DEF AcquireForPlays, tables, gameRows, bus
<1>4. CASE Plays(g)
  <2>1. w.fresh = {}
    BY <1>4 DEF Plays, At, FeedInv, FreshAtPublish
  <2> DEFINE v == [w EXCEPT !.cursor = Pages(feed[g].plays),
                            !.seen = @ \cup PlaysFrom(g, w.cursor)]
  <2>2. AfterPoll(w, TRUE).fresh = {} /\ AfterPoll(v, FALSE).fresh = {}
    BY <1>0 DEF AfterPoll, Watchers
  <2>3. [v EXCEPT !.pc = "save"].fresh = {}
    BY <1>0, <2>1 DEF Watchers
  <2>4. \E u : u.fresh = {} /\ Become(g, u)
    BY <1>4, <2>2, <2>3 DEF Plays
  <2> QED
    BY <1>4, <2>1, <2>4, QuietWatcher DEF Plays, tables, gameRows, bus
<1>5. CASE Hear(g)
  <2>1. w.fresh = {}
    BY <1>5 DEF Hear, At, FeedInv, FreshAtPublish
  <2>2. [w EXCEPT !.pc = "poll", !.game = w.mail, !.mail = "none"].fresh = {}
    BY <1>0, <2>1 DEF Watchers
  <2> QED
    BY <1>5, <2>1, <2>2, QuietWatcher DEF Hear, tables, gameRows, bus
<1>6. CASE PollAgain(g) \/ Cancelled(g) \/ TryAgain(g)
  <2>1. w.fresh = {}
    BY <1>6 DEF PollAgain, Cancelled, TryAgain, At, FeedInv, FreshAtPublish
  <2> QED
    BY <1>2, <1>6, <2>1, QuietWatcher DEF PollAgain, Cancelled, TryAgain, tables, gameRows, bus
<1>7. CASE AcquireForBox(g) \/ BoxScore(g) \/ SaveGameStats(g)
  <2>1. w.pc \in Finishing /\ w.fresh = {}
    BY <1>7 DEF AcquireForBox, BoxScore, SaveGameStats, At, Finishing, FeedInv, FreshAtPublish
  <2>2. AfterAttempt(w).fresh = {}
    BY <1>0, <2>1, AfterAttemptIsSound
  <2>3. \E v : v.fresh = {} /\ Become(g, v)
    BY <1>2, <1>7, <2>1, <2>2 DEF AcquireForBox, BoxScore, SaveGameStats
  <2> QED
    BY <1>7, <2>1, <2>3, QuietWatcher
       DEF AcquireForBox, BoxScore, SaveGameStats, tables, gameRows, bus
<1>8. CASE Forget(g)
  <2>1. w.fresh = {} /\ NoWatcher.fresh = {}
    BY <1>8 DEF Forget, At, NoWatcher, FeedInv, FreshAtPublish
  <2> QED
    BY <1>8, <2>1, QuietWatcher DEF Forget, tables, gameRows, bus
<1> QED
  BY <1>1, <1>3, <1>4, <1>5, <1>6, <1>7, <1>8 DEF WatcherStep

\* Every step of the goroutine of Run; the last one closes the bus.
LEMMA ScanFeeds ==
  ASSUME FeedInv, ScanStep
  PROVE  FreshAtPublish' /\ FeedStep
<1>1. CASE RunReturns
  <2>1. \A g \in Games : watcher[g].fresh = {}
    BY <1>1 DEF RunReturns, FeedInv, FreshAtPublish
  <2>2. Unpublished = {} /\ Unpublished' = {} /\ FreshAtPublish'
    BY <1>1, <2>1 DEF RunReturns, Unpublished, AllEvents, FreshAtPublish
  <2>3. mode = "stopping" /\ ~closed
    BY <1>1 DEF RunReturns, ScanAt, FeedInv, StopsInOrder, CloseInv, TypeInv, TypeOK
  <2>4. Feed!Close
    BY <1>1, <2>2, <2>3 DEF Feed!Close, RunReturns, Unpublished, tables, gameRows
  <2> QED
    BY <2>2, <2>4 DEF FeedStep, Feed!FeedNext
<1>2. CASE Track
  <2>1. \A h \in FoundGames : Found(h) \in Statuses
    <3>1. scan \in Scans
      BY DEF FeedInv, TypeInv, TypeOK
    <3> QED
      BY <3>1 DEF FoundGames, Found, Scans
  <2>2. \A g \in Games, status \in Statuses :
          /\ Tracked(watcher[g], status).fresh = watcher[g].fresh
          /\ Tracked(watcher[g], status).pc # "publish" => watcher[g].fresh = {}
    <3> SUFFICES ASSUME NEW g \in Games, NEW status \in Statuses
                 PROVE  /\ Tracked(watcher[g], status).fresh = watcher[g].fresh
                        /\ Tracked(watcher[g], status).pc # "publish" => watcher[g].fresh = {}
      OBVIOUS
    <3>1. /\ [watcher[g] EXCEPT !.mail = status].fresh = watcher[g].fresh
          /\ [watcher[g] EXCEPT !.mail = status].pc = watcher[g].pc
      BY DEF FeedInv, TypeInv, Sound, Watchers
    <3> QED
      BY <3>1, NewWatcherIsSound DEF Tracked, FeedInv, FreshAtPublish
  <2>3. \A g \in Games : /\ watcher'[g].fresh = watcher[g].fresh
                         /\ watcher'[g].pc # "publish" => watcher[g].fresh = {}
    BY <1>2, <2>1, <2>2 DEF Track, FeedInv, FreshAtPublish
  <2>4. Unpublished' = Unpublished /\ FreshAtPublish'
    BY <2>3 DEF Unpublished, AllEvents, FreshAtPublish
  <2> QED
    BY <1>2, <2>4 DEF Track, FeedStep, Feed!feeding, Unpublished, tables, gameRows, bus
<1>3. CASE UNCHANGED <<saved, watcher, backlog, closed, mode>>
  BY <1>3 DEF FeedInv, FreshAtPublish, FeedStep, Feed!feeding
<1> QED
  BY <1>1, <1>2, <1>3
     DEF ScanStep, AcquireForScan, FetchDay, UpsertGames, NextScan, StopScanning,
         tables, gameRows, bus

\* Every other step.
LEMMA ProcessFeeds ==
  ASSUME FeedInv, Consume \/ Shutdown \/ Exit \/ Crash \/ Start
  PROVE  FreshAtPublish' /\ FeedStep
<1>1. CASE Exit \/ Crash
  <2>1. \A g \in Games : watcher'[g].fresh = {}
    <3>1. NoWatcher.fresh = {} /\ \A g \in Games : watcher'[g] = NoWatcher
      <4>1. NoWatcher.fresh = {}
        BY DEF NoWatcher
      <4> QED
        BY <1>1, <4>1 DEF Exit, Crash, Vanish
    <3> QED
      BY <3>1
  <2>2. Unpublished' = {} /\ FreshAtPublish'
    BY <2>1 DEF Unpublished, AllEvents, FreshAtPublish
  <2>3. Feed!Lose
    BY <1>1, <2>2 DEF Feed!Lose, Exit, Crash, Vanish, Unpublished, tables, gameRows
  <2> QED
    BY <2>2, <2>3 DEF FeedStep, Feed!FeedNext
<1>2. CASE Consume \/ Shutdown \/ Start
  <2>1. UNCHANGED <<saved, watcher>> /\ FreshAtPublish'
    BY <1>2 DEF Consume, Shutdown, Start, tables, gameRows, FeedInv, FreshAtPublish
  <2>2. Feed!Take \/ Feed!StopFeeding \/ Feed!Resume
    BY <1>2, <2>1 DEF Consume, Shutdown, Start, bus, Feed!Take, Feed!StopFeeding, Feed!Resume
  <2> QED
    BY <2>1, <2>2 DEF FeedStep, Feed!FeedNext
<1> QED
  BY <1>1, <1>2

LEMMA FeedStepKeeps ==
  ASSUME FeedInv, [Next]_vars
  PROVE  FeedInv' /\ FeedStep
<1>1. TypeInv' /\ CloseInv'
  BY TypeStep, CloseStep DEF FeedInv
<1>2. StopsInOrder'
  <2>1. CASE ScanStep
    BY <2>1 DEF ScanStep, AcquireForScan, FetchDay, UpsertGames, Track, NextScan,
                StopScanning, RunReturns, ScanAt, NoScan, Resting, FeedInv, TypeInv, TypeOK,
                Scans, StopsInOrder
  <2>2. CASE Exit \/ Crash
    BY <2>2 DEF Exit, Crash, Vanish, NoScan, StopsInOrder
  <2>3. CASE Shutdown
    BY <2>3 DEF Shutdown, FeedInv, StopsInOrder
  <2>4. CASE Start
    BY <2>4 DEF Start, FeedInv, StopsInOrder
  <2>5. CASE UNCHANGED <<scan, mode>>
    BY <2>5 DEF FeedInv, StopsInOrder
  <2>6. ASSUME NEW g \in Games, WatcherStep(g)
        PROVE  UNCHANGED <<scan, mode>>
    BY <2>6 DEF WatcherStep, AcquireForPlays, Plays, SaveEvents, Publish, PublishCancelled,
                Hear, PollAgain, Cancelled, AcquireForBox, BoxScore, SaveGameStats,
                TryAgain, Forget
  <2> QED
    BY <2>1, <2>2, <2>3, <2>4, <2>5, <2>6
       DEF Next, vars, GameMoves, PlayHappens, Consume
<1>3. CASE UNCHANGED <<saved, watcher, backlog, closed, mode>>
  BY <1>1, <1>2, <1>3 DEF FeedInv, FreshAtPublish, FeedStep, Feed!feeding
<1> QED
  BY <1>1, <1>2, <1>3, WatcherFeeds, ScanFeeds, ProcessFeeds
     DEF FeedInv, Next, vars, GameMoves, PlayHappens, tables, gameRows, bus

\* The poller is a feed of the dispatcher: for any number of games, faults and ends
\* of the process, it takes no step that the alert pipeline does not reckon with.
THEOREM PollerFeedsTheDispatcher == Spec => FeedsTheDispatcher
<1>1. Init => FeedInv /\ Feed!FeedInit
  <2> SUFFICES ASSUME Init
               PROVE  FeedInv /\ Feed!FeedInit
    OBVIOUS
  <2>1. \A g \in Games : watcher[g].fresh = {}
    BY DEF Init, NoWatcher
  <2>2. FeedInv
    BY <2>1, TypeInit, CloseInit DEF FeedInv, FreshAtPublish, StopsInOrder, Init, NoScan
  <2>3. Feed!FeedInit
    BY <2>1 DEF Feed!FeedInit, Init, AllEvents
  <2> QED
    BY <2>2, <2>3
<1>2. FeedInv /\ [Next]_vars => FeedInv' /\ FeedStep
  BY FeedStepKeeps
<1> QED
  BY <1>1, <1>2, PTL DEF Spec, FeedsTheDispatcher, Feed!FeedSpec, FeedStep

(***************************************************************************)
(* The rows run ahead.  What is known of a game is never ahead of the      *)
(* provider: the row of the game lags behind its scoreboard, what a watcher*)
(* has heard or finds in its mailbox lags behind the row, and events are   *)
(* made of what the watcher has heard.  The end of a game is for good and  *)
(* has a rank of its own, so a scan may be as late as it likes; that a row *)
(* has once said that its game has begun is for good as well.              *)
(***************************************************************************)
Rank(status) == IF status = "none" THEN 0 ELSE IF status = "final" THEN 2 ELSE 1

FoundInOrder ==
  \A f \in scan.found :
    /\ \A h \in scan.found : h[1] = f[1] => h = f
    /\ Rank(stored[f[1]]) <= Rank(f[2]) /\ Rank(f[2]) <= Rank(feed[f[1]].status)
    /\ scan.pc = "track" => /\ stored[f[1]] = f[2]
                            /\ HasBegun(f[2]) => f[1] \in begun

HeardInOrder ==
  \A g \in Games :
    /\ Rank(stored[g]) <= Rank(feed[g].status)
    /\ watcher[g].pc # "off" =>
         /\ stored[g] # "none"
         /\ Rank(watcher[g].game) <= Rank(stored[g])
         /\ Rank(watcher[g].mail) <= Rank(stored[g])
         /\ HasBegun(watcher[g].game) \/ HasBegun(watcher[g].mail) => g \in begun

SavedInOrder ==
  \A g \in Games :
    /\ <<g, Started>> \in saved => g \in begun
    /\ <<g, Ending>> \in saved => Rank(stored[g]) = 2

RowInv == FoundInOrder /\ HeardInOrder /\ SavedInOrder

LEMMA RankType == \A status : Rank(status) \in 0..2
BY DEF Rank

LEMMA GamesMoveOn ==
  ASSUME NEW s \in Statuses, NEW t \in Statuses, s # "final"
  PROVE  Rank(s) <= Rank(t)
BY DEF Statuses, Rank

\* What the ends of a poll and of an attempt leave alone.
LEMMA AfterPollKeeps ==
  ASSUME NEW w \in Watchers, NEW failed
  PROVE  LET v == AfterPoll(w, failed)
         IN  /\ v.game = w.game /\ v.mail = w.mail
             /\ v.cursor = w.cursor /\ v.seen = w.seen /\ v.failed = failed
             /\ v.pc \in {"leaving", "box", "wait"}
             /\ v.pc = "box" => w.game = "final"
BY DEF AfterPoll, Watchers

LEMMA AfterAttemptKeeps ==
  ASSUME NEW w \in Watchers
  PROVE  LET v == AfterAttempt(w)
         IN  /\ v.game = w.game /\ v.mail = w.mail
             /\ v.cursor = w.cursor /\ v.seen = w.seen /\ v.failed = w.failed
             /\ v.pc \in {"leaving", "backoff"}
BY DEF AfterAttempt, Watchers

\* A watcher hears of its game from its mailbox alone.
LEMMA WatcherHears ==
  ASSUME TypeInv, NEW g \in Games, WatcherStep(g)
  PROVE  /\ watcher[g].pc # "off"
         /\ \E v : /\ Become(g, v)
                   /\ \/ v.pc = "off"
                      \/ /\ v.game \in {watcher[g].game, watcher[g].mail}
                         /\ v.mail \in {watcher[g].mail, "none"}
<1> DEFINE w == watcher[g]
           Heard(v) == v.game \in {w.game, w.mail} /\ v.mail \in {w.mail, "none"}
<1>0. w \in Watchers /\ w.pc # "off"
  BY DEF TypeInv, Sound, WatcherStep, AcquireForPlays, Plays, SaveEvents, Publish,
         PublishCancelled, Hear, PollAgain, Cancelled, AcquireForBox, BoxScore,
         SaveGameStats, TryAgain, Forget, At
<1>1. \A failed : Heard(AfterPoll(w, failed))
  BY <1>0, AfterPollKeeps
<1>2. Heard(AfterAttempt(w))
  BY <1>0, AfterAttemptKeeps
<1>3. /\ \A pc : Heard([w EXCEPT !.pc = pc])
      /\ \A fresh : Heard([w EXCEPT !.fresh = fresh])
      /\ \A pc, fresh : Heard([w EXCEPT !.pc = pc, !.fresh = fresh])
  BY <1>0 DEF Watchers
<1>4. CASE Plays(g)
  <2> DEFINE u == [w EXCEPT !.cursor = Pages(feed[g].plays),
                            !.seen = @ \cup PlaysFrom(g, w.cursor)]
  <2>1. Heard(AfterPoll(u, FALSE)) /\ Heard([u EXCEPT !.pc = "save"])
    BY <1>0 DEF AfterPoll, Watchers
  <2>2. \E v : Heard(v) /\ Become(g, v)
    BY <1>1, <1>4, <2>1 DEF Plays
  <2> QED
    BY <1>0, <2>2
<1>5. CASE Hear(g)
  <2>1. Heard([w EXCEPT !.pc = "poll", !.game = w.mail, !.mail = "none"])
    BY <1>0 DEF Watchers
  <2> QED
    BY <1>0, <1>5, <2>1 DEF Hear
<1>6. CASE SaveEvents(g)
  <2>1. \E v : Heard(v) /\ Become(g, v)
    BY <1>1, <1>3, <1>6 DEF SaveEvents
  <2> QED
    BY <1>0, <2>1
<1>7. CASE Publish(g)
  <2>1. PICK i \in w.fresh :
          Become(g, IF w.fresh = {i} THEN AfterPoll(w, FALSE)
                    ELSE [w EXCEPT !.fresh = @ \ {i}])
    BY <1>7 DEF Publish
  <2>2. \E v : Heard(v) /\ Become(g, v)
    BY <1>1, <1>3, <2>1
  <2> QED
    BY <1>0, <2>2
<1>8. CASE Forget(g)
  BY <1>0, <1>8 DEF Forget, NoWatcher
<1>9. CASE AcquireForPlays(g) \/ PublishCancelled(g) \/ PollAgain(g) \/ Cancelled(g)
  <2>1. \E v : Heard(v) /\ Become(g, v)
    BY <1>1, <1>3, <1>9 DEF AcquireForPlays, PublishCancelled, PollAgain, Cancelled
  <2> QED
    BY <1>0, <2>1
<1>10. CASE AcquireForBox(g) \/ BoxScore(g) \/ SaveGameStats(g) \/ TryAgain(g)
  <2>1. \E v : Heard(v) /\ Become(g, v)
    BY <1>2, <1>3, <1>10 DEF AcquireForBox, BoxScore, SaveGameStats, TryAgain
  <2> QED
    BY <1>0, <2>1
<1> QED
  BY <1>4, <1>5, <1>6, <1>7, <1>8, <1>9, <1>10 DEF WatcherStep

\* Events of the life of a game are made of what its watcher has heard.
LEMMA DetectedInOrder ==
  ASSUME NEW status \in Statuses, NEW plays \in SUBSET PlayIds
  PROVE  /\ Started \in Detect(status, plays) => HasBegun(status)
         /\ Ending \in Detect(status, plays) => Rank(status) = 2
<1>1. Started \notin PlayIds /\ Ending \notin PlayIds /\ Started # Ending
  BY LivePollerAssumption DEF PlayIds, Started, Ending
<1> QED
  BY <1>1 DEF Detect, Rank, HasBegun

LEMMA WatcherKeepsRows ==
  ASSUME TypeInv, RowInv, NEW g \in Games, WatcherStep(g)
  PROVE  RowInv'
<1> DEFINE w == watcher[g]
<1>1. UNCHANGED <<feed, stored, begun, scan>>
  BY DEF WatcherStep, AcquireForPlays, Plays, SaveEvents, Publish, PublishCancelled,
         Hear, PollAgain, Cancelled, AcquireForBox, BoxScore, SaveGameStats, TryAgain,
         Forget, tables, gameRows
<1>2. FoundInOrder'
  BY <1>1 DEF RowInv, FoundInOrder
<1>3. HeardInOrder'
  <2>1. w.pc # "off"
    BY WatcherHears
  <2>2. PICK v : /\ Become(g, v)
                 /\ \/ v.pc = "off"
                    \/ v.game \in {w.game, w.mail} /\ v.mail \in {w.mail, "none"}
    BY WatcherHears
  <2>3. /\ watcher'[g] = v
        /\ \A h \in Games : h # g => watcher'[h] = watcher[h]
    BY <2>2 DEF Become, TypeInv
  <2>4. Rank("none") = 0 /\ Rank(stored[g]) >= 0 /\ ~HasBegun("none")
    BY RankType DEF Rank, HasBegun
  <2>5. watcher'[g].pc # "off" =>
          /\ stored'[g] # "none"
          /\ Rank(watcher'[g].game) <= Rank(stored'[g])
          /\ Rank(watcher'[g].mail) <= Rank(stored'[g])
          /\ HasBegun(watcher'[g].game) \/ HasBegun(watcher'[g].mail) => g \in begun'
    BY <1>1, <2>1, <2>2, <2>3, <2>4 DEF RowInv, HeardInOrder
  <2> QED
    BY <1>1, <2>3, <2>5 DEF RowInv, HeardInOrder
<1>4. SavedInOrder'
  <2>1. CASE SaveEvents(g)
    <3> DEFINE ids == Detect(w.game, w.seen)
    <3>1. w \in Watchers /\ w.pc = "save"
      BY <2>1 DEF TypeInv, Sound, SaveEvents, At
    <3>2. Rank(w.game) <= Rank(stored[g]) /\ (HasBegun(w.game) => g \in begun)
      BY <3>1 DEF RowInv, HeardInOrder
    <3>3. /\ Started \in ids => HasBegun(w.game)
          /\ Ending \in ids => Rank(w.game) = 2
      BY <3>1, DetectedInOrder DEF Watchers
    <3>4. saved' \subseteq saved \cup ({g} \X ids)
      BY <2>1 DEF SaveEvents
    <3>5. \A h \in Games : \A i : <<h, i>> \in saved' =>
            <<h, i>> \in saved \/ (h = g /\ i \in ids)
      BY <3>4
    <3>6. Rank(w.game) \in 0..2 /\ Rank(stored[g]) \in 0..2
      BY RankType
    <3>7. Started \in ids => g \in begun
      BY <3>2, <3>3, <3>6
    <3>8. Ending \in ids => Rank(stored[g]) = 2
      BY <3>2, <3>3, <3>6
    <3> HIDE DEF ids
    <3> QED
      BY <1>1, <3>5, <3>7, <3>8 DEF RowInv, SavedInOrder
  <2>2. CASE UNCHANGED saved
    BY <1>1, <2>2 DEF RowInv, SavedInOrder
  <2> QED
    BY <2>1, <2>2
       DEF WatcherStep, AcquireForPlays, Plays, Publish, PublishCancelled, Hear, PollAgain,
           Cancelled, AcquireForBox, BoxScore, SaveGameStats, TryAgain, Forget, tables, gameRows
<1> QED
  BY <1>2, <1>3, <1>4 DEF RowInv

\* The games a scan finds are as the provider has them at that moment.
LEMMA FetchKeepsRows ==
  ASSUME TypeInv, RowInv, FetchDay
  PROVE  RowInv'
<1>1. UNCHANGED <<feed, stored, begun, saved, watcher>> /\ scan \in Scans
  BY DEF FetchDay, tables, gameRows, TypeInv, TypeOK
<1>2. scan'.found \subseteq Fetched(scan.day) /\ scan'.pc # "track"
  BY DEF FetchDay, Resting, NoScan
<1>3. \A d \in Days : Slate[d] \subseteq Games
  BY LivePollerAssumption
<1>4. ASSUME NEW f \in Fetched(scan.day)
      PROVE  /\ f \in scan.found \/ /\ f[1] \in Games /\ f[2] = feed[f[1]].status
                                    /\ f = <<f[1], f[2]>>
                                    /\ \A h \in scan.found : h[1] # f[1]
             /\ f[1] \in Games
  BY <1>1, <1>3 DEF Fetched, Scans
<1>5. FoundInOrder'
  <2> SUFFICES ASSUME NEW f \in scan'.found
               PROVE  /\ \A h \in scan'.found : h[1] = f[1] => h = f
                      /\ Rank(stored[f[1]]) <= Rank(f[2])
                      /\ Rank(f[2]) <= Rank(feed[f[1]].status)
    BY <1>1, <1>2 DEF FoundInOrder
  <2>1. \A h \in scan'.found : h[1] = f[1] => h = f
    BY <1>2, <1>4 DEF RowInv, FoundInOrder
  <2>2. /\ Rank(stored[f[1]]) <= Rank(f[2]) /\ Rank(f[2]) <= Rank(feed[f[1]].status)
    BY <1>2, <1>4, RankType DEF RowInv, FoundInOrder, HeardInOrder
  <2> QED
    BY <2>1, <2>2
<1> QED
  BY <1>1, <1>5 DEF RowInv, HeardInOrder, SavedInOrder

\* What a scan has found of a game is found of it once.
LEMMA FoundIsFound ==
  ASSUME TypeInv, RowInv, NEW g \in Games, g \in FoundGames
  PROVE  <<g, Found(g)>> \in scan.found /\ Found(g) \in Statuses
<1>1. scan \in Scans
  BY DEF TypeInv, TypeOK
<1>2. PICK s \in Statuses : <<g, s>> \in scan.found
  BY <1>1 DEF FoundGames, Scans
<1> QED
  BY <1>2 DEF Found

LEMMA UpsertKeepsRows ==
  ASSUME TypeInv, RowInv, UpsertGames
  PROVE  RowInv'
<1>1. UNCHANGED <<feed, saved, watcher>> /\ scan.pc = "upsert" /\ scan \in Scans
  BY DEF UpsertGames, ScanAt, TypeInv, TypeOK
<1>2. scan' = Resting => scan'.found = {}
  BY DEF Resting, NoScan
<1>3. CASE scan' = Resting /\ UNCHANGED gameRows
  BY <1>1, <1>2, <1>3 DEF RowInv, FoundInOrder, HeardInOrder, SavedInOrder, gameRows
<1>4. CASE StoreRows /\ (scan' = Resting \/ scan' = [scan EXCEPT !.pc = "track"])
  <2>1. /\ scan'.found = {} \/ scan'.found = scan.found
        /\ begun \subseteq begun'
    BY <1>1, <1>2, <1>4 DEF Scans, StoreRows
  <2>2. ASSUME NEW g \in Games
        PROVE  /\ g \in FoundGames => /\ stored'[g] = Found(g)
                                      /\ HasBegun(Found(g)) => g \in begun'
               /\ g \notin FoundGames => stored'[g] = stored[g]
               /\ Rank(stored[g]) <= Rank(stored'[g])
               /\ Rank(stored'[g]) <= Rank(feed[g].status)
               /\ stored[g] # "none" => stored'[g] # "none"
    <3>1. CASE g \in FoundGames
      <4>1. <<g, Found(g)>> \in scan.found /\ Found(g) \in Statuses
        BY <3>1, FoundIsFound
      <4>2. stored'[g] = Found(g)
        BY <1>4, <3>1 DEF StoreRows, Upserted
      <4>3. Found(g) # "none" /\ (HasBegun(Found(g)) => g \in begun')
        BY <1>4, <3>1, <4>1 DEF Statuses, StoreRows
      <4> QED
        BY <3>1, <4>1, <4>2, <4>3 DEF RowInv, FoundInOrder
    <3>2. CASE g \notin FoundGames
      BY <1>4, <3>2, RankType DEF StoreRows, Upserted, RowInv, HeardInOrder
    <3> QED
      BY <3>1, <3>2
  <2>3. FoundInOrder'
    <3> SUFFICES ASSUME NEW f \in scan.found
                 PROVE  /\ \A h \in scan.found : h[1] = f[1] => h = f
                        /\ stored'[f[1]] = f[2]
                        /\ HasBegun(f[2]) => f[1] \in begun'
                        /\ Rank(stored'[f[1]]) <= Rank(feed[f[1]].status)
      BY <1>1, <2>1, RankType DEF FoundInOrder
    <3>1. \A h \in scan.found : h[1] = f[1] => h = f
      BY DEF RowInv, FoundInOrder
    <3>2. f[1] \in Games /\ f[1] \in FoundGames
      BY <1>1 DEF Scans, FoundGames
    <3>3. Found(f[1]) = f[2]
      <4>1. <<f[1], Found(f[1])>> \in scan.found
        BY <3>2, FoundIsFound
      <4> QED
        BY <3>1, <4>1
    <3> QED
      BY <2>2, <3>1, <3>2, <3>3
  <2>4. HeardInOrder'
    BY <1>1, <2>1, <2>2, RankType DEF RowInv, HeardInOrder
  <2>5. ASSUME NEW g \in Games, Rank(stored[g]) = 2
        PROVE  Rank(stored'[g]) = 2
    <3>1. Rank(stored'[g]) \in 0..2
      BY RankType
    <3> QED
      BY <2>2, <2>5, <3>1
  <2>6. SavedInOrder'
    BY <1>1, <2>1, <2>5 DEF RowInv, SavedInOrder
  <2> QED
    BY <2>3, <2>4, <2>6 DEF RowInv
<1> QED
  BY <1>3, <1>4 DEF UpsertGames

\* A watcher is told of a game what its row holds.
LEMMA TrackKeepsRows ==
  ASSUME TypeInv, RowInv, Track
  PROVE  RowInv'
<1>1. /\ UNCHANGED <<feed, stored, begun, saved>> /\ scan.pc = "track" /\ scan'.found = {}
  BY DEF Track, ScanAt, tables, gameRows, Resting, NoScan
<1>2. ASSUME NEW g \in Games, watcher'[g].pc # "off"
      PROVE  /\ stored[g] # "none"
             /\ Rank(watcher'[g].game) <= Rank(stored[g])
             /\ Rank(watcher'[g].mail) <= Rank(stored[g])
             /\ HasBegun(watcher'[g].game) \/ HasBegun(watcher'[g].mail) => g \in begun
  <2>1. CASE g \in FoundGames
    <3>1. <<g, Found(g)>> \in scan.found /\ Found(g) \in Statuses
      BY <2>1, FoundIsFound
    <3>2. stored[g] = Found(g) /\ Found(g) # "none" /\ (HasBegun(Found(g)) => g \in begun)
      BY <1>1, <3>1 DEF RowInv, FoundInOrder, Statuses
    <3> DEFINE status == Found(g)
               w == watcher[g]
    <3>3. watcher'[g] = Tracked(w, status) /\ w \in Watchers
      BY <2>1 DEF Track, TypeInv, Sound
    <3>4. CASE w.pc # "off"
      <4>1. /\ [w EXCEPT !.mail = status].game = w.game
            /\ [w EXCEPT !.mail = status].mail = status
        BY <3>3 DEF Watchers
      <4>2. watcher'[g] = w \/ watcher'[g] = [w EXCEPT !.mail = status]
        BY <3>3, <3>4 DEF Tracked
      <4>3. /\ stored[g] # "none" /\ Rank(w.game) <= Rank(stored[g])
            /\ Rank(w.mail) <= Rank(stored[g])
            /\ HasBegun(w.game) \/ HasBegun(w.mail) => g \in begun
        BY <3>4 DEF RowInv, HeardInOrder
      <4>4. Rank(status) <= Rank(stored[g])
        BY <3>2, RankType
      <4>5. watcher'[g].game = w.game /\ watcher'[g].mail \in {w.mail, status}
        BY <4>1, <4>2
      <4>6. HasBegun(status) => g \in begun
        BY <3>2
      <4> HIDE DEF status, w
      <4> QED
        BY <4>3, <4>4, <4>5, <4>6
    <3>5. CASE w.pc = "off"
      <4>1. watcher'[g] = NewWatcher(status)
        BY <1>2, <3>3, <3>5 DEF Tracked
      <4>2. NewWatcher(status).game = status /\ NewWatcher(status).mail = "none"
        BY DEF NewWatcher, NoWatcher
      <4>3. Rank("none") = 0 /\ ~HasBegun("none")
        BY DEF Rank, HasBegun
      <4> QED
        BY <3>2, <4>1, <4>2, <4>3, RankType
    <3> QED
      BY <3>4, <3>5
  <2>2. CASE g \notin FoundGames
    <3>1. watcher'[g] = watcher[g]
      BY <2>2 DEF Track
    <3> QED
      BY <1>2, <3>1 DEF RowInv, HeardInOrder
  <2> QED
    BY <2>1, <2>2
<1> QED
  BY <1>1, <1>2 DEF RowInv, FoundInOrder, HeardInOrder, SavedInOrder

LEMMA RowStep ==
  ASSUME TypeInv, RowInv, [Next]_vars
  PROVE  RowInv'
<1>1. ASSUME NEW g \in Games, GameMoves(g)
      PROVE  RowInv'
  <2>1. UNCHANGED <<stored, begun, saved, scan, watcher>>
    BY <1>1 DEF GameMoves, tables, gameRows
  <2>2. ASSUME NEW h \in Games
        PROVE  Rank(feed[h].status) <= Rank(feed'[h].status)
    <3>1. PICK s \in Shown : feed' = [feed EXCEPT ![g].status = s]
      BY <1>1 DEF GameMoves
    <3>2. /\ s \in Statuses /\ feed[g].status \in Statuses /\ feed[g].status # "final"
          /\ feed'[g].status = s /\ (h # g => feed'[h] = feed[h])
      BY <1>1, <3>1, LivePollerAssumption DEF GameMoves, TypeInv, TypeOK
    <3> QED
      BY <3>1, <3>2, GamesMoveOn, RankType
  <2>3. \A f \in scan.found : f[1] \in Games
    BY DEF TypeInv, TypeOK, Scans
  <2>4. FoundInOrder' /\ HeardInOrder'
    BY <2>1, <2>2, <2>3, RankType DEF RowInv, FoundInOrder, HeardInOrder
  <2> QED
    BY <2>1, <2>4 DEF RowInv, SavedInOrder
<1>2. ASSUME NEW g \in Games, PlayHappens(g)
      PROVE  RowInv'
  <2>1. UNCHANGED <<stored, begun, saved, scan, watcher>>
    BY <1>2 DEF PlayHappens, tables, gameRows
  <2>2. \A h \in Games : feed'[h].status = feed[h].status
    BY <1>2 DEF PlayHappens, TypeInv, TypeOK
  <2>3. \A f \in scan.found : f[1] \in Games
    BY DEF TypeInv, TypeOK, Scans
  <2> QED
    BY <2>1, <2>2, <2>3 DEF RowInv, FoundInOrder, HeardInOrder, SavedInOrder
<1>3. CASE AcquireForScan \/ NextScan \/ StopScanning \/ RunReturns
  <2>1. UNCHANGED <<feed, stored, begun, saved, watcher>>
    BY <1>3 DEF AcquireForScan, NextScan, StopScanning, RunReturns, tables, gameRows
  <2>2. scan'.pc # "track" /\ (scan'.found = scan.found \/ scan'.found = {})
    BY <1>3 DEF AcquireForScan, NextScan, StopScanning, RunReturns, Resting, NoScan,
                TypeInv, TypeOK, Scans
  <2> QED
    BY <2>1, <2>2 DEF RowInv, FoundInOrder, HeardInOrder, SavedInOrder
<1>4. CASE Exit \/ Crash
  <2>1. /\ UNCHANGED <<feed, stored, begun, saved>> /\ scan'.found = {}
        /\ \A g \in Games : watcher'[g].pc = "off"
    BY <1>4 DEF Exit, Crash, Vanish, NoScan, NoWatcher, tables, gameRows
  <2> QED
    BY <2>1 DEF RowInv, FoundInOrder, HeardInOrder, SavedInOrder
<1>5. CASE UNCHANGED <<feed, stored, begun, saved, scan, watcher>>
  BY <1>5 DEF RowInv, FoundInOrder, HeardInOrder, SavedInOrder
<1> QED
  BY <1>1, <1>2, <1>3, <1>4, <1>5, WatcherKeepsRows, FetchKeepsRows, UpsertKeepsRows,
     TrackKeepsRows DEF Next, ScanStep, vars, tables, gameRows, Consume, Shutdown, Start

LEMMA RowInit == Init => RowInv
<1> SUFFICES ASSUME Init
             PROVE  RowInv
  OBVIOUS
<1>1. scan.found = {} /\ saved = {} /\ \A g \in Games : watcher[g].pc = "off"
  BY DEF Init, NoScan, NoWatcher
<1>2. \A g \in Games : Rank(stored[g]) <= Rank(feed[g].status)
  <2>1. Rank("none") = 0
    BY DEF Rank
  <2> QED
    BY <2>1, RankType DEF Init
<1> QED
  BY <1>1, <1>2 DEF RowInv, FoundInOrder, HeardInOrder, SavedInOrder

\* Whatever order scans, polls, failures and restarts come in, the row of a game has
\* told of its start or its end before an event does, and a watched game has a row.
THEOREM RowsRunAhead == Spec => []RowsLeadEvents
<1>1. TypeInv /\ RowInv => RowsLeadEvents
  <2> SUFFICES ASSUME TypeInv, RowInv, NEW g \in Games
               PROVE  /\ watcher[g].pc # "off" => stored[g] # "none"
                      /\ <<g, Started>> \in saved => g \in begun
                      /\ <<g, Ending>> \in saved => stored[g] = "final"
    BY DEF RowsLeadEvents
  <2>1. stored[g] \in Statuses \cup {"none"}
    BY DEF TypeInv, TypeOK
  <2>2. Rank(stored[g]) = 2 => stored[g] = "final"
    BY <2>1 DEF Rank, Statuses
  <2> QED
    BY <2>2 DEF RowInv, HeardInOrder, SavedInOrder
<1>2. TypeInv /\ RowInv /\ [Next]_vars => TypeInv' /\ RowInv'
  BY TypeStep, RowStep
<1> QED
  BY TypeInit, RowInit, <1>1, <1>2, PTL DEF Spec

(***************************************************************************)
(* The statistics.  A watcher has seen every play before the page of its   *)
(* cursor, and none that has not happened; so a poll that reads on from    *)
(* there has seen them all, and one that is made after the watcher heard of*)
(* the end (the row says so, hence the provider does, and no play follows) *)
(* has seen all there will ever be.  A watcher that comes to finish has    *)
(* just made such a poll and saved what it showed, unless that poll failed.*)
(***************************************************************************)
Complete(g, seen, plays, rows) ==
  /\ seen = 1..plays
  /\ \A i \in Detect("final", seen) : <<g, i>> \in rows

Reads(w, plays) ==
  /\ w.seen \subseteq 1..plays
  /\ \A i \in PlayIds : i <= (w.cursor - 1) * PageSize => i \in w.seen

Covers(g, w, plays, rows) ==
  /\ Reads(w, plays)
  /\ w.pc \in {"save", "publish"} /\ w.game = "final" => w.seen = 1..plays
  /\ w.pc = "publish" => \A i \in Detect(w.game, w.seen) : <<g, i>> \in rows
  /\ w.pc \in Finishing =>
       w.game = "final" /\ (w.failed \/ Complete(g, w.seen, plays, rows))

WatchersCover == \A g \in Games : Covers(g, watcher[g], feed[g].plays, saved)

StatisticsCover ==
  \A g \in Games :
    statistics[g].done /\ ~statistics[g].failed =>
      /\ feed[g].status = "final"
      /\ Complete(g, statistics[g].plays, feed[g].plays, saved)

\* The pages before the last one are full.
LEMMA PagesAreFull ==
  ASSUME NEW n \in Nat
  PROVE  (Pages(n) - 1) * PageSize <= n
<1>0. PageSize \in Nat \ {0}
  BY LivePollerAssumption
<1>1. CASE n = 0
  BY <1>0, <1>1 DEF Pages
<1>2. CASE n # 0
  <2> DEFINE m == n + PageSize - 1
             q == m \div PageSize
  <2>1. m \in Nat
    BY <1>0, <1>2
  <2>2. q \in Int /\ m = PageSize * q + (m % PageSize) /\ m % PageSize \in 0..PageSize - 1
    <3> HIDE DEF m
    <3> QED
      BY <1>0, <2>1
  <2>3. ASSUME NEW k \in Int, NEW r \in 0..PageSize - 1, m = PageSize * k + r
        PROVE  (k - 1) * PageSize <= n
    <3>1. (k - 1) * PageSize = PageSize * k - PageSize
      BY <1>0
    <3>2. PageSize * k \in Int
      BY <1>0
    <3> QED
      BY <1>0, <2>3, <3>1, <3>2
  <2>4. (q - 1) * PageSize <= n
    BY <2>2, <2>3
  <2> QED
    BY <1>2, <2>4 DEF Pages
<1> QED
  BY <1>1, <1>2

\* A poll that goes well has seen every play, and its cursor stays with the last page.
LEMMA PollSeesAll ==
  ASSUME TypeInv, NEW g \in Games, Reads(watcher[g], feed[g].plays)
  PROVE  LET w    == watcher[g]
             n    == feed[g].plays
             seen == w.seen \cup PlaysFrom(g, w.cursor)
         IN  /\ seen = 1..n
             /\ \A i \in PlayIds : i <= (Pages(n) - 1) * PageSize => i \in seen
<1> DEFINE w    == watcher[g]
           n    == feed[g].plays
           seen == w.seen \cup PlaysFrom(g, w.cursor)
<1>1. n \in 0..MaxPlays /\ MaxPlays \in Nat /\ w.cursor \in Nat \ {0} /\ PageSize \in Nat \ {0}
  BY LivePollerAssumption DEF TypeInv, TypeOK, Watchers
<1>2. (w.cursor - 1) * PageSize \in Int
  BY <1>1
<1>3. seen = 1..n
  <2>1. \A i \in PlayIds : i \in PlaysFrom(g, w.cursor) <=>
                             (w.cursor - 1) * PageSize < i /\ i <= n
    BY DEF PlaysFrom
  <2>2. PlaysFrom(g, w.cursor) \subseteq PlayIds /\ PlayIds = 1..MaxPlays
    BY DEF PlaysFrom, PlayIds
  <2>3. ASSUME NEW i \in 1..n
        PROVE  i \in seen
    <3>1. i \in PlayIds /\ i <= n
      BY <1>1, <2>2
    <3>2. CASE i <= (w.cursor - 1) * PageSize
      BY <3>1, <3>2 DEF Reads
    <3>3. CASE (w.cursor - 1) * PageSize < i
      BY <2>1, <3>1, <3>3
    <3> QED
      BY <1>2, <3>1, <3>2, <3>3 DEF PlayIds
  <2>4. seen \subseteq 1..n
    BY <1>1, <2>1, <2>2 DEF Reads
  <2> QED
    BY <2>3, <2>4
<1>4. ASSUME NEW i \in PlayIds, i <= (Pages(n) - 1) * PageSize
      PROVE  i \in seen
  <2>1. (Pages(n) - 1) * PageSize <= n /\ Pages(n) \in Nat
    BY <1>1, PagesAreFull, PagesType
  <2>2. (Pages(n) - 1) * PageSize \in Int
    BY <1>1, <2>1
  <2>3. i <= n /\ i >= 1
    BY <1>1, <1>4, <2>1, <2>2 DEF PlayIds
  <2> QED
    BY <1>1, <1>3, <2>3 DEF PlayIds
<1> QED
  BY <1>3, <1>4

\* A step of one watcher that leaves the provider alone.
LEMMA CoverOne ==
  ASSUME TypeInv, WatchersCover, NEW g \in Games, NEW w, Become(g, w),
         Covers(g, w, feed[g].plays, saved'), UNCHANGED feed, saved \subseteq saved'
  PROVE  WatchersCover'
<1> SUFFICES ASSUME NEW h \in Games
             PROVE  Covers(h, watcher'[h], feed[h].plays, saved')
  BY DEF WatchersCover
<1>1. CASE h = g
  BY <1>1 DEF Become, TypeInv
<1>2. CASE h # g
  <2>1. watcher'[h] = watcher[h] /\ Covers(h, watcher[h], feed[h].plays, saved)
    BY <1>2 DEF Become, TypeInv, WatchersCover
  <2> QED
    BY <2>1 DEF Covers, Complete
<1> QED
  BY <1>1, <1>2

\* What a poll ends in covers the game if the poll failed or saw it all.
LEMMA AfterPollCovers ==
  ASSUME NEW g, NEW w \in Watchers, NEW plays, NEW rows, NEW failed \in BOOLEAN,
         Reads(w, plays),
         ~failed /\ w.game = "final" => Complete(g, w.seen, plays, rows)
  PROVE  Covers(g, AfterPoll(w, failed), plays, rows)
<1> DEFINE v == AfterPoll(w, failed)
<1>1. /\ v.game = w.game /\ v.cursor = w.cursor /\ v.seen = w.seen /\ v.failed = failed
      /\ v.pc \in {"leaving", "box", "wait"} /\ (v.pc = "box" => w.game = "final")
  BY AfterPollKeeps
<1> HIDE DEF v
<1>2. failed => v.failed
  BY <1>1, Zenon
<1>3. v.pc \in Finishing => v.game = "final" /\ (v.failed \/ Complete(g, v.seen, plays, rows))
  BY <1>1, <1>2 DEF Finishing
<1>4. Reads(v, plays)
  BY <1>1, Zenon DEF Reads, Covers
<1>5. v.pc # "save" /\ v.pc # "publish"
  BY <1>1
<1>6. Covers(g, v, plays, rows)
  BY <1>3, <1>4, <1>5 DEF Covers
<1> QED
  BY <1>6 DEF v

\* So does what an attempt at the statistics ends in.
LEMMA AfterAttemptCovers ==
  ASSUME NEW g, NEW w \in Watchers, w.pc \in Finishing, NEW plays, NEW rows,
         Covers(g, w, plays, rows)
  PROVE  Covers(g, AfterAttempt(w), plays, rows)
<1> DEFINE v == AfterAttempt(w)
<1>1. /\ v.game = w.game /\ v.cursor = w.cursor /\ v.seen = w.seen /\ v.failed = w.failed
      /\ v.pc \in {"leaving", "backoff"}
  BY AfterAttemptKeeps
<1> HIDE DEF v
<1>2. w.failed => v.failed
  BY <1>1, Zenon
<1>3. v.game = "final" /\ (v.failed \/ Complete(g, v.seen, plays, rows))
  BY <1>1, <1>2 DEF Covers
<1>4. Reads(v, plays)
  BY <1>1, Zenon DEF Reads, Covers
<1>5. v.pc # "save" /\ v.pc # "publish"
  BY <1>1
<1>6. Covers(g, v, plays, rows)
  BY <1>3, <1>4, <1>5 DEF Covers
<1> QED
  BY <1>6 DEF v

LEMMA PlaysCover ==
  ASSUME TypeInv, WatchersCover, NEW g \in Games, Plays(g)
  PROVE  WatchersCover'
<1> DEFINE w    == watcher[g]
           n    == feed[g].plays
           seen == w.seen \cup PlaysFrom(g, w.cursor)
           v    == [w EXCEPT !.cursor = Pages(n), !.seen = @ \cup PlaysFrom(g, w.cursor)]
<1>0. w \in Watchers /\ Reads(w, n) /\ UNCHANGED <<feed, saved>>
  BY DEF TypeInv, TypeOK, WatchersCover, Covers, Plays, tables, gameRows
<1>1. Covers(g, AfterPoll(w, TRUE), n, saved)
  BY <1>0, AfterPollCovers
<1>2. /\ v \in Watchers /\ v.game = w.game /\ v.seen = seen /\ v.cursor = Pages(n)
      /\ v.seen = 1..n
  <2>1. Pages(n) \in Nat \ {0}
    BY PagesType DEF TypeInv, TypeOK
  <2>2. w.seen \cup PlaysFrom(g, w.cursor) \in SUBSET PlayIds
    BY <1>0 DEF PlaysFrom, Watchers
  <2>3. seen = 1..n
    BY <1>0, PollSeesAll
  <2> QED
    BY <1>0, <2>1, <2>2, <2>3 DEF Watchers
<1>3. Reads(v, n)
  <2>1. \A i \in PlayIds : i <= (Pages(n) - 1) * PageSize => i \in seen
    BY <1>0, PollSeesAll
  <2> QED
    BY <1>2, <2>1 DEF Reads
<1>4. Covers(g, [v EXCEPT !.pc = "save"], n, saved)
  <2> DEFINE u == [v EXCEPT !.pc = "save"]
  <2>1. u.pc = "save" /\ u.game = v.game /\ u.seen = v.seen /\ u.cursor = v.cursor
    BY <1>2 DEF Watchers
  <2> HIDE DEF u, v
  <2> QED
    BY <1>2, <1>3, <2>1 DEF Covers, Reads, Finishing
<1>5. ASSUME Detect(v.game, v.seen) = {}
      PROVE  Covers(g, AfterPoll(v, FALSE), n, saved)
  <2>1. v.game # "final"
    BY <1>5 DEF Detect
  <2> HIDE DEF v
  <2> QED
    BY <1>2, <1>3, <2>1, AfterPollCovers
<1>6. \/ Become(g, AfterPoll(w, TRUE))
      \/ Become(g, IF Detect(v.game, v.seen) = {} THEN AfterPoll(v, FALSE)
                   ELSE [v EXCEPT !.pc = "save"])
  BY DEF Plays
<1>7. \E u : Covers(g, u, n, saved) /\ Become(g, u)
  <2> HIDE DEF v
  <2> QED
    BY <1>1, <1>4, <1>5, <1>6
<1> QED
  BY <1>0, <1>7, CoverOne

LEMMA SaveCovers ==
  ASSUME TypeInv, WatchersCover, NEW g \in Games, SaveEvents(g)
  PROVE  WatchersCover'
<1> DEFINE w   == watcher[g]
           n   == feed[g].plays
           ids == Detect(w.game, w.seen)
           v   == [w EXCEPT !.pc = "publish", !.fresh = Unsaved(g, ids)]
<1>0. /\ w \in Watchers /\ w.pc = "save" /\ UNCHANGED feed /\ saved \subseteq saved'
      /\ Reads(w, n) /\ (w.game = "final" => w.seen = 1..n)
  BY DEF TypeInv, TypeOK, WatchersCover, Covers, SaveEvents, At
<1>1. ASSUME Become(g, AfterPoll(w, TRUE))
      PROVE  WatchersCover'
  <2>1. Covers(g, AfterPoll(w, TRUE), n, saved')
    BY <1>0, AfterPollCovers
  <2> QED
    BY <1>0, <1>1, <2>1, CoverOne
<1>2. ASSUME saved' = saved \cup ({g} \X ids),
             Become(g, IF Unsaved(g, ids) = {} THEN AfterPoll(w, FALSE) ELSE v)
      PROVE  WatchersCover'
  <2>1. \A i \in ids : <<g, i>> \in saved'
    BY <1>2
  <2>2. Covers(g, AfterPoll(w, FALSE), n, saved')
    <3>1. w.game = "final" => Complete(g, w.seen, n, saved')
      BY <1>0, <2>1 DEF Complete
    <3> QED
      BY <1>0, <3>1, AfterPollCovers
  <2>3. Covers(g, v, n, saved')
    <3>1. v.pc = "publish" /\ v.game = w.game /\ v.seen = w.seen /\ v.cursor = w.cursor
      BY <1>0 DEF Watchers
    <3> HIDE DEF v
    <3> QED
      BY <1>0, <2>1, <3>1 DEF Covers, Reads, Finishing
  <2>4. \E u : Covers(g, u, n, saved') /\ Become(g, u)
    <3> HIDE DEF v, ids
    <3> QED
      BY <1>2, <2>2, <2>3
  <2> QED
    BY <1>0, <2>4, CoverOne
<1> QED
  BY <1>1, <1>2 DEF SaveEvents

LEMMA PublishCovers ==
  ASSUME TypeInv, WatchersCover, NEW g \in Games, Publish(g) \/ PublishCancelled(g)
  PROVE  WatchersCover'
<1> DEFINE w == watcher[g]
           n == feed[g].plays
<1>0. /\ w \in Watchers /\ w.pc = "publish" /\ UNCHANGED <<feed, saved>>
      /\ Covers(g, w, n, saved) /\ Reads(w, n)
  BY DEF TypeInv, TypeOK, WatchersCover, Covers, Publish, PublishCancelled, At, tables, gameRows
<1>1. w.game = "final" => Complete(g, w.seen, n, saved)
  BY <1>0 DEF Covers, Complete
<1>2. \A failed \in BOOLEAN : Covers(g, AfterPoll(w, failed), n, saved)
  BY <1>0, <1>1, AfterPollCovers
<1>3. \A i : Covers(g, [w EXCEPT !.fresh = @ \ {i}], n, saved)
  <2> SUFFICES ASSUME NEW i
               PROVE  Covers(g, [w EXCEPT !.fresh = @ \ {i}], n, saved)
    OBVIOUS
  <2> DEFINE v == [w EXCEPT !.fresh = @ \ {i}]
  <2>1. v.pc = w.pc /\ v.game = w.game /\ v.seen = w.seen /\ v.cursor = w.cursor
    BY <1>0 DEF Watchers
  <2> HIDE DEF v
  <2> QED
    BY <1>0, <2>1 DEF Covers, Reads, Finishing
<1>4. \E v : Covers(g, v, n, saved) /\ Become(g, v)
  <2>1. CASE Publish(g)
    <3>1. PICK i \in w.fresh :
            Become(g, IF w.fresh = {i} THEN AfterPoll(w, FALSE)
                      ELSE [w EXCEPT !.fresh = @ \ {i}])
      BY <2>1 DEF Publish
    <3> QED
      BY <1>2, <1>3, <3>1
  <2>2. CASE PublishCancelled(g)
    BY <1>2, <2>2 DEF PublishCancelled
  <2> QED
    BY <2>1, <2>2
<1> QED
  BY <1>0, <1>4, CoverOne

LEMMA WatcherCovers ==
  ASSUME TypeInv, WatchersCover, NEW g \in Games, WatcherStep(g)
  PROVE  WatchersCover'
<1> DEFINE w == watcher[g]
           n == feed[g].plays
<1>0. w \in Watchers /\ Covers(g, w, n, saved) /\ Reads(w, n)
  BY DEF TypeInv, TypeOK, WatchersCover, Covers
<1>1. \A failed \in BOOLEAN :
        failed \/ w.game # "final" => Covers(g, AfterPoll(w, failed), n, saved)
  BY <1>0, AfterPollCovers
<1>2. w.pc \in Finishing => Covers(g, AfterAttempt(w), n, saved)
  BY <1>0, AfterAttemptCovers
<1>3. \A pc : (pc \in {"poll", "plays", "wait", "leaving"} \/ {w.pc, pc} \subseteq Finishing)
                => Covers(g, [w EXCEPT !.pc = pc], n, saved)
  <2> SUFFICES ASSUME NEW pc,
                      \/ pc \in {"poll", "plays", "wait", "leaving"}
                      \/ {w.pc, pc} \subseteq Finishing
               PROVE  Covers(g, [w EXCEPT !.pc = pc], n, saved)
    OBVIOUS
  <2> DEFINE v == [w EXCEPT !.pc = pc]
  <2>1. /\ v.pc = pc /\ v.game = w.game /\ v.seen = w.seen /\ v.cursor = w.cursor
        /\ v.failed = w.failed
    BY <1>0 DEF Watchers
  <2> HIDE DEF v
  <2>2. w.failed => v.failed
    BY <2>1, Zenon
  <2>3. w.pc \in Finishing =>
          v.game = "final" /\ (v.failed \/ Complete(g, v.seen, n, saved))
    BY <1>0, <2>1, <2>2 DEF Covers
  <2>4. v.pc \notin {"save", "publish"} /\ (v.pc \in Finishing => w.pc \in Finishing)
    BY <2>1 DEF Finishing
  <2> QED
    BY <1>0, <2>1, <2>3, <2>4 DEF Covers, Reads
<1>4. CASE Plays(g) \/ SaveEvents(g) \/ Publish(g) \/ PublishCancelled(g)
  BY <1>4, PlaysCover, SaveCovers, PublishCovers
<1>5. CASE Hear(g)
  <2> DEFINE v == [w EXCEPT !.pc = "poll", !.game = w.mail, !.mail = "none"]
  <2>1. v.pc = "poll" /\ v.seen = w.seen /\ v.cursor = w.cursor
    BY <1>0 DEF Watchers
  <2>2. Covers(g, v, n, saved)
    <3> HIDE DEF v
    <3> QED
      BY <1>0, <2>1 DEF Covers, Reads, Finishing
  <2> QED
    BY <1>5, <2>2, CoverOne DEF Hear, tables, gameRows
<1>6. CASE Forget(g)
  <2>1. Covers(g, NoWatcher, n, saved)
    <3>1. NoWatcher.pc = "off" /\ NoWatcher.seen = {} /\ NoWatcher.cursor = 1
      BY DEF NoWatcher
    <3>2. (1 - 1) * PageSize = 0
      BY LivePollerAssumption
    <3> QED
      BY <3>1, <3>2 DEF Covers, Reads, Finishing, PlayIds
  <2> QED
    BY <1>6, <2>1, CoverOne DEF Forget, tables, gameRows
<1>7. CASE AcquireForPlays(g) \/ PollAgain(g) \/ Cancelled(g)
  <2>1. \E v : Covers(g, v, n, saved) /\ Become(g, v)
    BY <1>1, <1>3, <1>7 DEF AcquireForPlays, PollAgain, Cancelled
  <2> QED
    BY <1>7, <2>1, CoverOne DEF AcquireForPlays, PollAgain, Cancelled, tables, gameRows
<1>8. CASE AcquireForBox(g) \/ BoxScore(g) \/ SaveGameStats(g) \/ TryAgain(g)
  <2>1. w.pc \in Finishing /\ UNCHANGED <<feed, saved>>
    BY <1>8 DEF AcquireForBox, BoxScore, SaveGameStats, TryAgain, At, Finishing, tables, gameRows
  <2>2. \E v : Covers(g, v, n, saved) /\ Become(g, v)
    BY <1>2, <1>3, <1>8, <2>1
       DEF AcquireForBox, BoxScore, SaveGameStats, TryAgain, Finishing
  <2> QED
    BY <2>1, <2>2, CoverOne
<1> QED
  BY <1>4, <1>5, <1>6, <1>7, <1>8 DEF WatcherStep

\* A watcher that has heard of the end heard it from the row, and the row from the
\* provider.
LEMMA EndIsTrue ==
  ASSUME TypeInv, RowInv, NEW g \in Games, watcher[g].pc # "off", watcher[g].game = "final"
  PROVE  feed[g].status = "final"
<1>1. /\ Rank("final") = 2 /\ Rank(stored[g]) \in 0..2 /\ Rank(feed[g].status) \in 0..2
  BY RankType DEF Rank
<1>2. Rank(feed[g].status) = 2
  BY <1>1 DEF RowInv, HeardInOrder
<1> QED
  BY <1>2 DEF Rank

\* The provider goes on: plays only grow, and not once a game is over.
LEMMA FeedKeepsCover ==
  ASSUME TypeInv, RowInv, WatchersCover, StatisticsCover, NEW g \in Games,
         GameMoves(g) \/ PlayHappens(g)
  PROVE  WatchersCover' /\ StatisticsCover'
<1>1. UNCHANGED <<saved, statistics, watcher>>
  BY DEF GameMoves, PlayHappens, tables, gameRows
<1>2. ASSUME NEW h \in Games
      PROVE  /\ feed[h].plays \in Nat /\ feed'[h].plays \in Nat
             /\ feed[h].plays <= feed'[h].plays
             /\ feed[h].status = "final" => feed'[h] = feed[h]
  <2>1. CASE GameMoves(g)
    <3>1. feed[g].status # "final" /\ \E s \in Shown : feed' = [feed EXCEPT ![g].status = s]
      BY <2>1 DEF GameMoves
    <3> QED
      BY <3>1 DEF TypeInv, TypeOK
  <2>2. CASE PlayHappens(g)
    BY <2>2 DEF PlayHappens, TypeInv, TypeOK
  <2> QED
    BY <2>1, <2>2
<1>3. ASSUME NEW h \in Games
      PROVE  Covers(h, watcher[h], feed'[h].plays, saved)
  <2>1. Covers(h, watcher[h], feed[h].plays, saved)
    BY DEF WatchersCover
  <2>2. CASE feed'[h].plays = feed[h].plays
    BY <2>1, <2>2
  <2>3. CASE watcher[h].game = "final" /\ watcher[h].pc # "off"
    BY <1>2, <2>1, <2>3, EndIsTrue
  <2>4. CASE watcher[h].game # "final" \/ watcher[h].pc = "off"
    <3>1. Reads(watcher[h], feed'[h].plays)
      BY <1>2, <2>1 DEF Covers, Reads
    <3> QED
      BY <2>1, <2>4, <3>1 DEF Covers, Finishing
  <2> QED
    BY <2>3, <2>4
<1>4. WatchersCover'
  BY <1>1, <1>3 DEF WatchersCover
<1>5. StatisticsCover'
  BY <1>1, <1>2 DEF StatisticsCover
<1> QED
  BY <1>4, <1>5

LEMMA CoverStep ==
  ASSUME TypeInv, RowInv, WatchersCover, StatisticsCover, [Next]_vars
  PROVE  WatchersCover' /\ StatisticsCover'
<1>1. ASSUME NEW g \in Games, WatcherStep(g)
      PROVE  WatchersCover' /\ StatisticsCover'
  <2> DEFINE w == watcher[g]
             record == [done |-> TRUE, plays |-> w.seen, failed |-> w.failed]
  <2>1. UNCHANGED feed /\ saved \subseteq saved'
    BY <1>1 DEF WatcherStep, AcquireForPlays, Plays, SaveEvents, Publish, PublishCancelled,
                Hear, PollAgain, Cancelled, AcquireForBox, BoxScore, SaveGameStats,
                TryAgain, Forget, tables, gameRows
  <2>2. ASSUME NEW h \in Games, statistics'[h] = statistics[h],
               statistics'[h].done, ~statistics'[h].failed
        PROVE  /\ feed'[h].status = "final"
               /\ Complete(h, statistics'[h].plays, feed'[h].plays, saved')
    <3>1. statistics[h].done /\ ~statistics[h].failed
      BY <2>2, Zenon
    <3> QED
      BY <2>1, <2>2, <3>1 DEF StatisticsCover, Complete
  <2>3. ASSUME SaveGameStats(g), statistics' = [statistics EXCEPT ![g] = record]
        PROVE  StatisticsCover'
    <3>1. w.pc = "stats" /\ w.pc \in Finishing /\ w.pc # "off"
      BY <2>3 DEF SaveGameStats, At, Finishing
    <3>2. w.game = "final" /\ (w.failed \/ Complete(g, w.seen, feed[g].plays, saved))
      BY <3>1 DEF WatchersCover, Covers
    <3>3. feed[g].status = "final"
      BY <3>1, <3>2, EndIsTrue
    <3>4. /\ statistics'[g].plays = w.seen /\ statistics'[g].failed = w.failed
          /\ \A h \in Games : h # g => statistics'[h] = statistics[h]
      BY <2>3 DEF TypeInv, TypeOK
    <3>5. w.failed => statistics'[g].failed
      BY <3>4, Zenon
    <3> HIDE DEF w, record
    <3>6. statistics'[g].failed \/ Complete(g, statistics'[g].plays, feed'[g].plays, saved')
      BY <2>1, <3>2, <3>4, <3>5 DEF Complete
    <3>7. feed'[g].status = "final"
      BY <2>1, <3>3
    <3> SUFFICES ASSUME NEW h \in Games, statistics'[h].done, ~statistics'[h].failed
                 PROVE  /\ feed'[h].status = "final"
                        /\ Complete(h, statistics'[h].plays, feed'[h].plays, saved')
      BY DEF StatisticsCover
    <3>8. CASE h = g
      BY <3>6, <3>7, <3>8, Zenon
    <3>9. CASE h # g
      BY <2>2, <3>4, <3>9
    <3> QED
      BY <3>8, <3>9
  <2>4. UNCHANGED statistics \/ SaveGameStats(g)
    BY <1>1 DEF WatcherStep, AcquireForPlays, Plays, SaveEvents, Publish, PublishCancelled,
                Hear, PollAgain, Cancelled, AcquireForBox, BoxScore, TryAgain, Forget, tables, gameRows
  <2>5. StatisticsCover'
    BY <2>2, <2>3, <2>4 DEF SaveGameStats, StatisticsCover
  <2> QED
    BY <1>1, <2>5, WatcherCovers
<1>2. ASSUME NEW g \in Games, GameMoves(g) \/ PlayHappens(g)
      PROVE  WatchersCover' /\ StatisticsCover'
  BY <1>2, FeedKeepsCover
<1>3. ASSUME UNCHANGED <<feed, saved, statistics>>
      PROVE  StatisticsCover'
  BY <1>3 DEF StatisticsCover
<1>4. CASE Track
  <2>1. UNCHANGED <<feed, saved, statistics>> /\ scan \in Scans
    BY <1>4 DEF Track, tables, gameRows, TypeInv, TypeOK
  <2>2. ASSUME NEW g \in Games
        PROVE  Covers(g, watcher'[g], feed[g].plays, saved)
    <3> DEFINE w == watcher[g]
               n == feed[g].plays
    <3>1. w \in Watchers /\ Covers(g, w, n, saved)
      BY DEF TypeInv, TypeOK, WatchersCover
    <3>2. \A status : Covers(g, [w EXCEPT !.mail = status], n, saved)
      <4> SUFFICES ASSUME NEW status
                   PROVE  Covers(g, [w EXCEPT !.mail = status], n, saved)
        OBVIOUS
      <4> DEFINE v == [w EXCEPT !.mail = status]
      <4>1. /\ v.pc = w.pc /\ v.game = w.game /\ v.seen = w.seen /\ v.cursor = w.cursor
            /\ v.failed = w.failed
        BY <3>1 DEF Watchers
      <4> HIDE DEF v
      <4>2. w.failed => v.failed
        BY <4>1, Zenon
      <4>3. v.pc \in Finishing =>
              v.game = "final" /\ (v.failed \/ Complete(g, v.seen, n, saved))
        BY <3>1, <4>1, <4>2 DEF Covers
      <4> QED
        BY <3>1, <4>1, <4>3 DEF Covers, Reads
    <3>3. \A status : Covers(g, NewWatcher(status), n, saved)
      <4> SUFFICES ASSUME NEW status
                   PROVE  Covers(g, NewWatcher(status), n, saved)
        OBVIOUS
      <4> DEFINE v == NewWatcher(status)
      <4>1. v.pc = "poll" /\ v.seen = {} /\ v.cursor = 1
        BY DEF NewWatcher, NoWatcher
      <4>2. (1 - 1) * PageSize = 0
        BY LivePollerAssumption
      <4> HIDE DEF v
      <4>3. Reads(v, n)
        BY <4>1, <4>2 DEF Reads, PlayIds
      <4>4. Covers(g, v, n, saved)
        BY <4>1, <4>3 DEF Covers, Finishing
      <4> QED
        BY <4>4 DEF v
    <3>4. watcher'[g] = w \/ watcher'[g] = Tracked(w, Found(g))
      BY <1>4 DEF Track
    <3>5. \A status : Covers(g, Tracked(w, status), n, saved)
      BY <3>1, <3>2, <3>3 DEF Tracked
    <3> QED
      BY <3>1, <3>4, <3>5
  <2>3. WatchersCover'
    BY <2>1, <2>2 DEF WatchersCover
  <2> QED
    BY <1>3, <2>1, <2>3
<1>5. CASE Exit \/ Crash
  <2>1. /\ UNCHANGED <<feed, saved, statistics>>
        /\ \A g \in Games : watcher'[g] = NoWatcher
    BY <1>5 DEF Exit, Crash, Vanish, tables, gameRows
  <2>2. NoWatcher.pc = "off" /\ NoWatcher.seen = {} /\ NoWatcher.cursor = 1
    BY DEF NoWatcher
  <2>3. (1 - 1) * PageSize = 0
    BY LivePollerAssumption
  <2>4. \A g \in Games : Covers(g, watcher'[g], feed[g].plays, saved)
    BY <2>1, <2>2, <2>3 DEF Covers, Reads, Finishing, PlayIds
  <2>5. WatchersCover'
    BY <2>1, <2>4 DEF WatchersCover
  <2> QED
    BY <1>3, <2>1, <2>5
<1>6. CASE UNCHANGED <<feed, saved, statistics, watcher>>
  <2>1. WatchersCover'
    BY <1>6 DEF WatchersCover
  <2> QED
    BY <1>3, <1>6, <2>1
<1> QED
  BY <1>1, <1>2, <1>4, <1>5, <1>6
     DEF Next, ScanStep, AcquireForScan, FetchDay, UpsertGames, NextScan, StopScanning,
         RunReturns, vars, tables, gameRows, Consume, Shutdown, Start

\* Statistics stored after a last poll that went well rest on the whole game, and all
\* its events are saved by then: for games of any length, pages of any size, and
\* whatever failed or stopped before.
THEOREM StatisticsAreComplete == Spec => []StatisticsCoverTheGame
<1> DEFINE IInv == TypeInv /\ RowInv /\ WatchersCover /\ StatisticsCover
<1>1. Init => IInv
  <2> SUFFICES ASSUME Init
               PROVE  WatchersCover /\ StatisticsCover
    BY TypeInit, RowInit
  <2>1. NoWatcher.pc = "off" /\ NoWatcher.seen = {} /\ NoWatcher.cursor = 1
    BY DEF NoWatcher
  <2>2. (1 - 1) * PageSize = 0
    BY LivePollerAssumption
  <2>3. WatchersCover
    BY <2>1, <2>2 DEF Init, WatchersCover, Covers, Reads, Finishing, PlayIds
  <2>4. StatisticsCover
    BY DEF Init, StatisticsCover, NoStats
  <2> QED
    BY <2>3, <2>4
<1>2. IInv /\ [Next]_vars => IInv'
  BY TypeStep, RowStep, CoverStep
<1>3. IInv => StatisticsCoverTheGame
  <2> SUFFICES ASSUME IInv, NEW g \in Games, statistics[g].done, ~statistics[g].failed
               PROVE  /\ feed[g].status = "final"
                      /\ statistics[g].plays = 1..feed[g].plays
                      /\ {g} \X Detect("final", statistics[g].plays) \subseteq saved
    BY DEF StatisticsCoverTheGame
  <2> QED
    BY DEF StatisticsCover, Complete
<1> QED
  BY <1>1, <1>2, <1>3, PTL DEF Spec
=============================================================================
