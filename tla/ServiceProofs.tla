--------------------------- MODULE ServiceProofs ----------------------------
(***************************************************************************)
(* Theorems about the parts that ServiceMC puts side by side, each for any *)
(* value of its constants.                                                 *)
(*                                                                         *)
(* Both providers keep the promise of ScoreProvider.  For ESPN the reason  *)
(* is the page before the one at hand: a page is left only when there are  *)
(* more, and then it is full and will not change, so that the plays of all *)
(* pages before the cursor are known for good.                             *)
(*                                                                         *)
(* The reports of a process add up.  A report takes up where the last one  *)
(* known to have arrived left off, so that those are adjacent intervals,   *)
(* and the counts up to the last are in one of them.  That no day is       *)
(* skipped is an argument about time: a day whose hour is over was looked  *)
(* at within it, and what was looked at was reported, or something         *)
(* hindered it.                                                            *)
(*                                                                         *)
(* A process that ends well has nothing left to do, and a digest is cut as *)
(* MessagesProofs says of any digest.                                      *)
(***************************************************************************)
EXTENDS ServiceMC, MessagesProofs

(***************************** The providers *****************************)

(******************************* Recordings ******************************)

LEMMA Times ==
  ASSUME NEW a \in Nat, NEW b \in Nat, NEW c \in Nat, a <= b
  PROVE  a * c <= b * c
<1>1. b * c = a * c + (b - a) * c /\ (b - a) * c >= 0
  BY SMT
<1> QED
  BY <1>1, SMT

\* The plays that can be seen are the first of the recording.
LEMMA VisibleIsAPrefix ==
  ASSUME NEW clk \in Nat
  PROVE  LET seen == {i \in 1..Total : Offsets[i] <= clk * PerTick}
         IN  Cardinality(seen) \in 0..Total /\ seen = 1..Cardinality(seen)
<1> DEFINE e == clk * PerTick
           seen == {i \in 1..Total : Offsets[i] <= e}
           rest == (1..Total) \ seen
<1>1. e \in Int /\ Total \in Nat /\ Offsets \in [1..Total -> Nat]
  BY ProviderAssumption
<1> HIDE DEF e
<1>2. \E m \in 0..Total : seen = 1..m
  <2>1. CASE rest = {}
    BY <2>1, <1>1
  <2>2. CASE rest # {}
    <3>1. IsWellFoundedOn(OpToRel(<, Nat), Nat)
      BY NatLessThanWellFounded
    <3>2. rest \subseteq Nat
      BY <1>1
    <3>3. \E x \in rest : \A y \in rest : ~(<<y, x>> \in OpToRel(<, Nat))
      BY <3>1, <3>2, <2>2, WFMin, Zenon
    <3>4. PICK x \in rest : \A y \in rest : ~(<<y, x>> \in OpToRel(<, Nat))
      BY <3>3
    <3>5. ASSUME NEW y \in rest PROVE ~(y < x)
      BY <3>4, <3>2 DEF OpToRel
    <3>6. x \in 1..Total /\ x - 1 \in 0..Total
      BY <1>1
    <3>7. ASSUME NEW i \in 1..Total, i < x PROVE i \in seen
      BY <3>5, <3>7
    <3>8. ASSUME NEW i \in 1..Total, x < i PROVE i \notin seen
      <4>1. Offsets[x] <= Offsets[i]
        BY <3>8, <3>6, ProviderAssumption
      <4> QED
        BY <4>1, <3>6, <1>1
    <3>9. seen = 1..(x - 1)
      BY <3>6, <3>7, <3>8, <1>1
    <3> QED
      BY <3>6, <3>9
  <2> QED
    BY <2>1, <2>2
<1>3. PICK m \in 0..Total : seen = 1..m
  BY <1>2
<1>4. Cardinality(1..m) = m
  <2>1. Cardinality(1..m) = IF 1 > m THEN 0 ELSE m - 1 + 1
    BY <1>1, FS_Interval
  <2> QED
    BY <2>1, <1>1
<1> QED
  BY <1>3, <1>4 DEF e

(********************************* Pages *********************************)

LEMMA PageOf ==
  ASSUME NEW i \in Nat \ {0}, NEW n \in Nat \ {0}
  PROVE  (i - 1) \div PageSize + 1 = n <=> (n - 1) * PageSize < i /\ i <= n * PageSize
<1>1. PageSize \in Nat \ {0} /\ i - 1 \in Nat
  BY ProviderAssumption
<1> DEFINE q == (i - 1) \div PageSize
           r == (i - 1) % PageSize
<1>2. q \in Nat /\ r \in 0..(PageSize - 1) /\ i - 1 = PageSize * q + r
  BY <1>1, SMT
<1> HIDE DEF q, r
<1>3. q + 1 = n => (n - 1) * PageSize < i /\ i <= n * PageSize
  BY <1>1, <1>2, SMT
<1>4. ASSUME (n - 1) * PageSize < i, i <= n * PageSize, q + 1 # n PROVE FALSE
  <2>1. CASE q + 1 < n
    <3>1. (q + 1) * PageSize <= (n - 1) * PageSize
      BY <2>1, <1>1, <1>2, SMT
    <3> QED
      BY <3>1, <1>1, <1>2, <1>4, SMT
  <2>2. CASE q + 1 > n
    <3>1. n * PageSize <= q * PageSize
      BY <2>2, <1>1, <1>2, SMT
    <3> QED
      BY <3>1, <1>1, <1>2, <1>4, SMT
  <2> QED
    BY <2>1, <2>2, <1>2, <1>4
<1> QED
  BY <1>3, <1>4, <1>1, <1>2 DEF q

LEMMA PagesOf ==
  ASSUME made \in Nat, NEW n \in Nat \ {0}
  PROVE  /\ PageCount \in Int
         /\ PageCount <= n <=> made <= n * PageSize
<1>1. PageSize \in Nat \ {0} /\ made \in Nat
  BY ProviderAssumption
<1> DEFINE a == (made + PageSize) - 1
           q == a \div PageSize
           r == a % PageSize
<1>2. q \in Int /\ r \in 0..(PageSize - 1) /\ a = PageSize * q + r
  BY <1>1, SMT
<1>3. PageCount = q
  BY <1>1 DEF PageCount
<1> HIDE DEF q, r
<1>4. ASSUME q <= n PROVE made <= n * PageSize
  <2>1. q * PageSize <= n * PageSize
    BY <1>1, <1>2, <1>4, SMT
  <2> QED
    BY <2>1, <1>1, <1>2, SMT
<1>5. ASSUME made <= n * PageSize, q > n PROVE FALSE
  <2>1. (n + 1) * PageSize <= q * PageSize
    BY <1>1, <1>2, <1>5, SMT
  <2> QED
    BY <2>1, <1>1, <1>2, <1>5, SMT
<1> QED
  BY <1>2, <1>3, <1>4, <1>5

(****************************** The invariant ****************************)

Requests ==
  [pc: {"idle", "reads", "teams", "page"}, page: Nat, attempt: Nat, plays: SUBSET (1..Total),
   asked: -1..Total]

Types ==
  /\ kind \in {"espn", "replay"} /\ made \in 0..Total /\ clock \in Nat
  /\ phase \in {"before", "on", "off", "over"}
  /\ request \in Requests /\ cursor \in Nat /\ got \subseteq 1..Total

\* The watcher knows of no play that was not made, and a question is about those
\* that were.
Honest ==
  /\ got \subseteq 1..Made /\ request.plays \subseteq 1..Made
  /\ IF request.pc = "idle" THEN request.asked = Nobody ELSE request.asked \in 0..Made

\* The plays of the pages before the cursor, and before the page at hand, are known.
PagesBefore ==
  kind = "espn" =>
    /\ request.pc # "reads"
    /\ cursor > 0 => 1..((cursor - 1) * PageSize) \subseteq got
    /\ request.pc # "idle" =>
         request.page > 0 /\ 1..((request.page - 1) * PageSize) \subseteq got \cup request.plays

OnlyReplayReads == kind = "replay" => request.pc \in {"idle", "reads"}

\* A final game has all its plays, and stays as it is.
FinalIsFinal ==
  /\ kind = "espn" /\ phase = "over" => made = Total
  /\ shown = "final" => IF kind = "espn" THEN phase = "over" ELSE Made = Total

ProviderInv == Types /\ Honest /\ PagesBefore /\ OnlyReplayReads /\ FinalIsFinal

LEMMA MadeType ==
  ASSUME Types
  PROVE  /\ Made \in 0..Total
         /\ kind = "replay" => visiblePlays = 1..Made /\ Made = Cardinality(visiblePlays)
<1>1. Cardinality(visiblePlays) \in 0..Total /\ visiblePlays = 1..Cardinality(visiblePlays)
  BY VisibleIsAPrefix DEF visiblePlays, Elapsed, Types
<1> QED
  BY <1>1 DEF Made, Types

\* A recording shows no less as its clock goes on.
LEMMA MoreIsVisible ==
  ASSUME Types, Types', kind' = kind, clock <= clock', kind = "espn" => made <= made'
  PROVE  Made <= Made'
<1>1. CASE kind = "espn"
  BY <1>1 DEF Made
<1>2. CASE kind = "replay"
  <2>1. visiblePlays = 1..Made /\ Made \in 0..Total
    BY <1>2, MadeType
  <2>2. visiblePlays' = 1..Made' /\ Made' \in 0..Total
    <3>1. Cardinality(visiblePlays') \in 0..Total /\ visiblePlays' = 1..Cardinality(visiblePlays')
      BY VisibleIsAPrefix DEF visiblePlays, Elapsed, Types
    <3> QED
      BY <3>1, <1>2 DEF Made, Types
  <2>3. clock * PerTick <= clock' * PerTick
    <3>1. clock \in Nat /\ clock' \in Nat /\ PerTick \in Nat /\ clock <= clock'
      BY ProviderAssumption DEF Types
    <3> QED
      BY <3>1, Times
  <2>4. visiblePlays \subseteq visiblePlays'
    <3>1. clock * PerTick \in Int /\ clock' * PerTick \in Int
      BY ProviderAssumption DEF Types
    <3>2. \A i \in 1..Total : Offsets[i] \in Int
      BY ProviderAssumption
    <3> QED
      BY <2>3, <3>1, <3>2 DEF visiblePlays, Elapsed
  <2>5. 1..Made \subseteq 1..Made'
    BY <2>1, <2>2, <2>4
  <2> QED
    BY <2>1, <2>2, <2>5
<1> QED
  BY <1>1, <1>2 DEF Types

LEMMA InitPromises == ProviderInit => ProviderInv /\ ToTheWatcher!Starts
<1> SUFFICES ASSUME ProviderInit PROVE ProviderInv /\ ToTheWatcher!Starts
  OBVIOUS
<1>1. Types
  BY ProviderAssumption DEF ProviderInit, Types, Requests, Resting, Nobody
<1>2. Made \in 0..Total
  BY <1>1, MadeType
<1>3. Honest /\ PagesBefore /\ OnlyReplayReads /\ FinalIsFinal
  BY <1>2 DEF ProviderInit, Honest, PagesBefore, OnlyReplayReads, FinalIsFinal, Resting
<1>4. ToTheWatcher!Starts
  BY <1>2 DEF ProviderInit, Resting, Nobody, ToTheWatcher!Starts, ToTheWatcher!Nobody
<1> QED
  BY <1>1, <1>3, <1>4 DEF ProviderInv

(******************************** The steps ******************************)

PromisedStep ==
  [\/ ToTheWatcher!PlaysAreMade \/ ToTheWatcher!Ask \/ ToTheWatcher!Answer
   \/ ToTheWatcher!Fail \/ ToTheWatcher!Show \/ ToTheWatcher!Restart]_(ToTheWatcher!promise)

\* Plays are made or shown, or only the status of the game or the bookkeeping of the
\* process moves: the watcher knows what it knew.
LEMMA WorldStep ==
  ASSUME ProviderInv, PlayHappens \/ GameMovesOn \/ Tick
  PROVE  ProviderInv' /\ PromisedStep
<1>1. Types'
  <2>1. CASE PlayHappens
    <3>1. made + 1 \in 0..Total
      BY <2>1, ProviderAssumption DEF ProviderInv, Types, PlayHappens
    <3> QED
      BY <2>1, <3>1 DEF ProviderInv, Types, PlayHappens, Requests
  <2>2. CASE GameMovesOn
    BY <2>2 DEF ProviderInv, Types, GameMovesOn, Requests
  <2>3. CASE Tick
    BY <2>3 DEF ProviderInv, Types, Tick, Requests
  <2> QED
    BY <2>1, <2>2, <2>3
<1>2. Made <= Made' /\ Made \in 0..Total /\ Made' \in 0..Total
  <2>1. Made <= Made'
    BY <1>1, MoreIsVisible DEF ProviderInv, PlayHappens, GameMovesOn, Tick, Types
  <2>2. Made' \in 0..Total
    <3>1. Cardinality(visiblePlays') \in 0..Total
      BY <1>1, VisibleIsAPrefix DEF visiblePlays, Elapsed, Types
    <3> QED
      BY <3>1, <1>1 DEF Made, Types
  <2> QED
    BY <2>1, <2>2, MadeType DEF ProviderInv
<1>3. UNCHANGED <<kind, request, cursor, got, shown>>
  BY DEF PlayHappens, GameMovesOn, Tick
<1>4. Honest'
  BY <1>2, <1>3 DEF ProviderInv, Honest
<1>5. PagesBefore' /\ OnlyReplayReads'
  BY <1>3 DEF ProviderInv, PagesBefore, OnlyReplayReads
<1>6. FinalIsFinal'
  BY <1>2, <1>3 DEF ProviderInv, FinalIsFinal, PlayHappens, GameMovesOn, Tick, Types
<1>7. PromisedStep
  <2>1. CASE Made' = Made
    BY <2>1, <1>3 DEF PromisedStep, ToTheWatcher!promise
  <2>2. CASE Made' # Made
    BY <2>2, <1>2, <1>3 DEF PromisedStep, ToTheWatcher!PlaysAreMade
  <2> QED
    BY <2>1, <2>2
<1> QED
  BY <1>1, <1>4, <1>5, <1>6, <1>7 DEF ProviderInv

LEMMA StatusOf ==
  /\ mapStatus(<<"STATUS_SCHEDULED", "pre", FALSE>>) = "scheduled"
  /\ mapStatus(<<"other", "pre", FALSE>>) = "scheduled"
  /\ mapStatus(<<"other", "in", FALSE>>) = "live"
  /\ mapStatus(<<"STATUS_POSTPONED", "post", FALSE>>) = "postponed"
  /\ mapStatus(<<"STATUS_SUSPENDED", "in", FALSE>>) = "postponed"
  /\ mapStatus(<<"STATUS_FINAL", "post", TRUE>>) = "final"
  /\ mapStatus(<<"other", "post", TRUE>>) = "final"
BY DEF mapStatus

\* No status of ESPN but those of a game that is over is mapped to "final".
LEMMA GamesStep ==
  ASSUME ProviderInv, Games
  PROVE  ProviderInv' /\ PromisedStep
<1>1. UNCHANGED <<kind, made, phase, clock, request, cursor, got, Made>>
  BY DEF Games, Made, visiblePlays, Elapsed
<1>2. Made \in 0..Total
  BY MadeType DEF ProviderInv
<1>3. /\ shown' \in {"scheduled", "live", "final", "postponed"}
      /\ shown' = "final" <=> IF kind = "espn" THEN phase = "over" ELSE Made = Total
  <2>1. CASE kind = "espn"
    <3>1. PICK said \in Reports(phase) : shown' = mapStatus(said)
      BY <2>1 DEF Games
    <3>2. /\ mapStatus(said) \in {"scheduled", "live", "final", "postponed"}
          /\ mapStatus(said) = "final" <=> phase = "over"
      <4>1. CASE phase = "before"
        BY <3>1, <4>1, StatusOf DEF Reports
      <4>2. CASE phase = "on"
        BY <3>1, <4>2, StatusOf DEF Reports
      <4>3. CASE phase = "off"
        BY <3>1, <4>3, StatusOf DEF Reports
      <4>4. CASE phase = "over"
        BY <3>1, <4>4, StatusOf DEF Reports
      <4> QED
        BY <4>1, <4>2, <4>3, <4>4 DEF ProviderInv, Types
    <3> QED
      BY <2>1, <3>1, <3>2
  <2>2. CASE kind = "replay"
    <3>1. visiblePlays = 1..Made /\ Made = Cardinality(visiblePlays) /\ Total \in Nat \ {0}
      BY <2>2, MadeType, ProviderAssumption DEF ProviderInv
    <3>2. shown' = gameState
      BY <2>2 DEF Games
    <3>3. visiblePlays = {} <=> Made = 0
      BY <3>1, <1>2
    <3> QED
      BY <2>2, <3>1, <3>2, <3>3 DEF gameState
  <2> QED
    BY <2>1, <2>2 DEF ProviderInv, Types
<1>4. ProviderInv'
  <2>1. Types' /\ Honest' /\ PagesBefore' /\ OnlyReplayReads'
    BY <1>1 DEF ProviderInv, Types, Honest, PagesBefore, OnlyReplayReads
  <2>2. FinalIsFinal'
    BY <1>1, <1>3 DEF ProviderInv, FinalIsFinal
  <2> QED
    BY <2>1, <2>2 DEF ProviderInv
<1>5. ToTheWatcher!Show
  <2>1. shown' = "final" => Made = Total
    <3>1. kind = "espn" => Made = made
      BY DEF Made
    <3> QED
      BY <1>3, <3>1 DEF ProviderInv, FinalIsFinal, Types
  <2>2. shown = "final" => shown' = "final"
    BY <1>3 DEF ProviderInv, FinalIsFinal
  <2> QED
    BY <1>1, <1>3, <2>1, <2>2 DEF ToTheWatcher!Show, ToTheWatcher!Statuses
<1> QED
  BY <1>4, <1>5 DEF PromisedStep

\* What every step of a request leaves alone, and what follows from that.
LEMMA RequestFrame ==
  ASSUME ProviderInv, UNCHANGED <<kind, made, phase, clock, shown>>
  PROVE  /\ Made' = Made /\ Made \in 0..Total
         /\ visiblePlays' = visiblePlays
         /\ FinalIsFinal'
         /\ kind = "espn" => Made = made
<1>1. visiblePlays' = visiblePlays
  BY DEF visiblePlays, Elapsed
<1>2. Made' = Made
  BY <1>1 DEF Made
<1> QED
  BY <1>1, <1>2, MadeType DEF ProviderInv, FinalIsFinal, Made

LEMMA RestingType ==
  /\ Resting \in Requests /\ Resting.pc = "idle" /\ Resting.asked = Nobody
  /\ Resting.plays = {}
BY ProviderAssumption DEF Resting, Requests, Nobody

\* A question that is given up leaves what the watcher has and where it is.
LEMMA GiveUpStep ==
  ASSUME ProviderInv, request.pc # "idle", request' = Resting,
         UNCHANGED <<kind, made, phase, clock, cursor, got, shown>>
  PROVE  ProviderInv' /\ PromisedStep
<1>1. /\ Made' = Made /\ Made \in 0..Total /\ FinalIsFinal'
  BY RequestFrame
<1>2. Types' /\ Honest'
  BY <1>1, RestingType DEF ProviderInv, Types, Honest
<1>3. PagesBefore' /\ OnlyReplayReads'
  BY RestingType DEF ProviderInv, PagesBefore, OnlyReplayReads
<1>4. ToTheWatcher!Fail
  BY <1>1, RestingType DEF ToTheWatcher!Fail, ProviderInv, Honest, ToTheWatcher!Nobody, Nobody
<1> QED
  BY <1>1, <1>2, <1>3, <1>4 DEF ProviderInv, PromisedStep

LEMMA AskStep ==
  ASSUME ProviderInv, Ask
  PROVE  ProviderInv' /\ PromisedStep
<1>1. /\ Made' = Made /\ Made \in 0..Total /\ FinalIsFinal'
      /\ UNCHANGED <<kind, made, phase, clock, cursor, got, shown>>
  BY RequestFrame DEF Ask
<1> DEFINE pc == IF kind = "replay" THEN "reads" ELSE IF codes THEN "page" ELSE "teams"
<1>2. request' = [pc |-> pc, page |-> FirstPage(cursor), attempt |-> 1, plays |-> {},
                  asked |-> Made]
  BY DEF Ask, Resting
<1>3. /\ pc \in {"reads", "teams", "page"} /\ (kind = "replay" <=> pc = "reads")
  OBVIOUS
<1> HIDE DEF pc
<1>4. FirstPage(cursor) \in Nat /\ FirstPage(cursor) > 0
      /\ (cursor = 0 => FirstPage(cursor) = 1) /\ (cursor > 0 => FirstPage(cursor) = cursor)
  BY DEF FirstPage, ProviderInv, Types
<1>5. /\ request' \in Requests /\ request'.pc = pc /\ request'.asked = Made
      /\ request'.page = FirstPage(cursor) /\ request'.plays = {}
  BY <1>1, <1>2, <1>3, <1>4, RestingType, ProviderAssumption DEF Requests
<1>6. Types' /\ Honest'
  BY <1>1, <1>3, <1>5 DEF ProviderInv, Types, Honest
<1>7. OnlyReplayReads'
  BY <1>1, <1>3, <1>5 DEF ProviderInv, OnlyReplayReads
<1>8. PagesBefore'
  <2>1. cursor = 0 => (FirstPage(cursor) - 1) * PageSize = 0
    BY <1>4, ProviderAssumption
  <2> QED
    BY <2>1, <1>1, <1>3, <1>4, <1>5 DEF ProviderInv, PagesBefore, Types
<1>9. ToTheWatcher!Ask
  <2>1. request.asked = Nobody
    BY DEF Ask, ProviderInv, Honest
  <2> QED
    BY <2>1, <1>1, <1>5 DEF ToTheWatcher!Ask, ToTheWatcher!Nobody, Nobody
<1> QED
  BY <1>1, <1>6, <1>7, <1>8, <1>9 DEF ProviderInv, PromisedStep

\* The answer to a question has what was made when it was asked.
LEMMA LearnStep ==
  ASSUME ProviderInv, request.pc # "idle", NEW plays, NEW last \in Nat, Learns(plays, last),
         plays \subseteq 1..Made, 1..request.asked \subseteq got \cup plays,
         kind = "espn" => last > 0 /\ 1..((last - 1) * PageSize) \subseteq got \cup plays,
         UNCHANGED <<kind, made, phase, clock, shown>>
  PROVE  ProviderInv' /\ PromisedStep
<1>1. /\ Made' = Made /\ Made \in 0..Total /\ FinalIsFinal' /\ Total \in Nat
  BY RequestFrame, ProviderAssumption
<1>2. got' = got \cup plays /\ cursor' = last /\ request' = Resting
  BY DEF Learns
<1>3. got' \subseteq 1..Made /\ got' \subseteq 1..Total
  BY <1>1, <1>2 DEF ProviderInv, Honest
<1>4. Types' /\ Honest'
  BY <1>1, <1>2, <1>3, RestingType DEF ProviderInv, Types, Honest
<1>5. PagesBefore' /\ OnlyReplayReads'
  BY <1>1, <1>2, RestingType DEF ProviderInv, PagesBefore, OnlyReplayReads
<1>6. ToTheWatcher!Answer
  <2>1. request.asked # Nobody /\ request'.asked = Nobody
    BY <1>1, <1>2, RestingType DEF ProviderInv, Honest, Nobody
  <2> QED
    BY <2>1, <1>1, <1>2, <1>3 DEF ToTheWatcher!Answer, ToTheWatcher!Nobody, Nobody
<1> QED
  BY <1>1, <1>4, <1>5, <1>6 DEF ProviderInv, PromisedStep

LEMMA ReplayStep ==
  ASSUME ProviderInv, ReplayAnswers
  PROVE  ProviderInv' /\ PromisedStep
<1> DEFINE last == IF visiblePlays = {} THEN cursor ELSE Max(visiblePlays)
<1>1. kind = "replay" /\ request.pc = "reads"
  BY DEF ReplayAnswers, ProviderInv, PagesBefore, Types
<1>2. visiblePlays = 1..Made /\ Made \in 0..Total /\ Total \in Nat
  BY <1>1, MadeType, ProviderAssumption DEF ProviderInv
<1>3. last \in Nat
  <2>1. CASE visiblePlays = {}
    BY <2>1 DEF ProviderInv, Types
  <2>2. CASE visiblePlays # {}
    <3>1. Made \in visiblePlays /\ \A y \in visiblePlays : Made >= y
      BY <2>2, <1>2
    <3>2. Max(visiblePlays) \in visiblePlays
      BY <3>1 DEF Max
    <3> QED
      BY <2>2, <3>2, <1>2
  <2> QED
    BY <2>1, <2>2
<1>4. Learns(visiblePlays, last) /\ UNCHANGED <<kind, made, phase, clock, shown>>
  BY DEF ReplayAnswers
<1>5. 1..request.asked \subseteq got \cup visiblePlays
  <2>1. request.asked \in 0..Made
    BY <1>1 DEF ProviderInv, Honest
  <2> QED
    BY <2>1, <1>2
<1> HIDE DEF last
<1> QED
  BY <1>1, <1>2, <1>3, <1>4, <1>5, LearnStep

\* The teams are asked for, and a page that fails is tried again: nothing is learnt.
LEMMA StayStep ==
  ASSUME ProviderInv, request.pc \in {"teams", "page"}, request'.pc \in {"teams", "page"},
         request' \in Requests, request'.plays = request.plays,
         request'.asked = request.asked, request'.page = request.page,
         UNCHANGED <<kind, made, phase, clock, cursor, got, shown>>
  PROVE  ProviderInv' /\ PromisedStep
<1>1. /\ Made' = Made /\ Made \in 0..Total /\ FinalIsFinal'
  BY RequestFrame
<1>2. kind = "espn"
  BY DEF ProviderInv, OnlyReplayReads, Types
<1>3. Types' /\ Honest' /\ OnlyReplayReads'
  BY <1>1, <1>2 DEF ProviderInv, Types, Honest, OnlyReplayReads
<1>4. PagesBefore'
  BY DEF ProviderInv, PagesBefore
<1>5. PromisedStep
  BY <1>1 DEF PromisedStep, ToTheWatcher!promise
<1> QED
  BY <1>1, <1>3, <1>4, <1>5 DEF ProviderInv

LEMMA PageStep ==
  ASSUME ProviderInv, PageAnswered
  PROVE  ProviderInv' /\ PromisedStep
<1> DEFINE n     == request.page
           plays == request.plays \cup Page(n)
<1>1. /\ kind = "espn" /\ request.pc = "page" /\ request \in Requests
      /\ n \in Nat \ {0} /\ n - 1 \in Nat
      /\ request.asked \in 0..made /\ Made = made /\ made \in 0..Total /\ Total \in Nat
      /\ PageSize \in Nat \ {0}
  BY ProviderAssumption
     DEF PageAnswered, ProviderInv, OnlyReplayReads, Types, Requests, PagesBefore, Honest, Made
<1>2. UNCHANGED <<kind, made, phase, clock, shown>>
  BY DEF PageAnswered
<1>3. /\ n * PageSize \in Nat /\ (n - 1) * PageSize \in Nat
      /\ n * PageSize = (n - 1) * PageSize + PageSize
  BY <1>1, SMT
<1>4. \A i \in 1..made : i \in Page(n) <=> (n - 1) * PageSize < i /\ i <= n * PageSize
  <2>1. ASSUME NEW i \in 1..made
        PROVE  (i - 1) \div PageSize + 1 = n <=> (n - 1) * PageSize < i /\ i <= n * PageSize
    BY <1>1, PageOf
  <2> QED
    BY <2>1 DEF Page
<1>5. plays \subseteq 1..made
  BY <1>1 DEF ProviderInv, Honest, Page
<1>6. 1..((n - 1) * PageSize) \subseteq got \cup request.plays
  BY <1>1 DEF ProviderInv, PagesBefore
\* Of the plays made so far those of the pages up to this one are known.
<1>7. \A i \in 1..made : i <= n * PageSize => i \in got \cup plays
  BY <1>1, <1>3, <1>4, <1>6
<1>8. PageCount <= n <=> made <= n * PageSize
  BY <1>1, PagesOf
<1> HIDE DEF n, plays
<1>9. CASE PageCount <= n
  <2>1. Learns(plays, n)
    BY <1>9 DEF PageAnswered, n, plays
  <2>2. 1..request.asked \subseteq got \cup plays
    BY <1>1, <1>3, <1>7, <1>8, <1>9
  <2>3. 1..((n - 1) * PageSize) \subseteq got \cup plays
    BY <1>6 DEF plays
  <2>4. request.pc # "idle" /\ n \in Nat /\ n > 0 /\ plays \subseteq 1..Made
    BY <1>1, <1>5
  <2> QED
    BY <2>1, <2>2, <2>3, <2>4, <1>2, LearnStep
<1>10. CASE ~(PageCount <= n)
  <2>1. request' = [request EXCEPT !.page = n + 1, !.attempt = 1, !.plays = plays]
        /\ UNCHANGED <<cursor, got>>
    BY <1>10 DEF PageAnswered, n, plays
  <2>2. plays \subseteq 1..Total
    BY <1>1, <1>5
  <2>3. /\ request' \in Requests /\ request'.pc = "page" /\ request'.page = n + 1
        /\ request'.plays = plays /\ request'.asked = request.asked
    <3> DEFINE p == [request EXCEPT !.page = n + 1]
               q == [p EXCEPT !.attempt = 1]
    <3>1. p \in Requests /\ p.pc = "page" /\ p.page = n + 1 /\ p.asked = request.asked
      BY <1>1 DEF Requests
    <3>2. /\ q \in Requests /\ q.pc = "page" /\ q.page = n + 1 /\ q.asked = request.asked
          /\ request' = [q EXCEPT !.plays = plays]
      BY <2>1, <3>1 DEF Requests
    <3> QED
      BY <3>2, <2>2 DEF Requests
  <2>4. Made' = Made /\ FinalIsFinal'
    BY <1>2, RequestFrame
  <2>5. Types' /\ Honest' /\ OnlyReplayReads'
    BY <1>1, <1>2, <1>5, <2>1, <2>3, <2>4 DEF ProviderInv, Types, Honest, OnlyReplayReads
  \* This page is full.
  <2>6. 1..(n * PageSize) \subseteq got \cup plays
    BY <1>1, <1>3, <1>7, <1>8, <1>10
  <2>7. PagesBefore'
    <3>1. n + 1 > 0 /\ (n + 1) - 1 = n
      BY <1>1
    <3> QED
      BY <1>1, <1>2, <2>1, <2>3, <2>6, <3>1 DEF ProviderInv, PagesBefore
  <2>8. PromisedStep
    BY <1>2, <2>1, <2>3, <2>4 DEF PromisedStep, ToTheWatcher!promise
  <2> QED
    BY <2>4, <2>5, <2>7, <2>8 DEF ProviderInv
<1> QED
  BY <1>9, <1>10

LEMMA RestartStep ==
  ASSUME ProviderInv, Restart
  PROVE  ProviderInv' /\ PromisedStep
<1>1. /\ UNCHANGED <<kind, made, phase>> /\ clock' = 0 /\ request' = Resting
      /\ cursor' = 0 /\ got' = {} /\ shown' = "scheduled"
  BY DEF Restart
<1>2. Types'
  BY <1>1, RestingType DEF ProviderInv, Types
<1>3. Made' \in 0..Total
  <2>1. Cardinality(visiblePlays') \in 0..Total
    BY <1>2, VisibleIsAPrefix DEF visiblePlays, Elapsed, Types
  <2> QED
    BY <2>1, <1>2 DEF Made, Types
<1>4. Honest' /\ PagesBefore' /\ OnlyReplayReads' /\ FinalIsFinal'
  BY <1>1, <1>3, RestingType
     DEF ProviderInv, Types, Honest, PagesBefore, OnlyReplayReads, FinalIsFinal
<1>5. ToTheWatcher!Restart
  BY <1>1, <1>3, RestingType DEF ToTheWatcher!Restart, ToTheWatcher!Nobody, Nobody
<1> QED
  BY <1>2, <1>4, <1>5 DEF ProviderInv, PromisedStep

LEMMA StepPromises ==
  ProviderInv /\ [ProviderNext]_providerVars => ProviderInv' /\ PromisedStep
<1> SUFFICES ASSUME ProviderInv, [ProviderNext]_providerVars
             PROVE  ProviderInv' /\ PromisedStep
  OBVIOUS
<1>1. CASE PlayHappens \/ GameMovesOn \/ Tick
  BY <1>1, WorldStep
<1>2. CASE Games
  BY <1>2, GamesStep
<1>3. CASE Ask
  BY <1>3, AskStep
<1>4. CASE ReplayAnswers
  BY <1>4, ReplayStep
<1>5. CASE TeamsAnswered
  <2>1. request' = [request EXCEPT !.pc = "page", !.attempt = 1]
        /\ UNCHANGED <<kind, made, phase, clock, cursor, got, shown>>
        /\ request.pc = "teams" /\ request \in Requests
    BY <1>5 DEF TeamsAnswered, ProviderInv, Types
  <2>2. /\ request' \in Requests /\ request'.pc = "page" /\ request'.plays = request.plays
        /\ request'.asked = request.asked /\ request'.page = request.page
    BY <2>1 DEF Requests
  <2> QED
    BY <2>1, <2>2, StayStep
<1>6. CASE PageAnswered
  BY <1>6, PageStep
<1>7. CASE AttemptFails
  <2>1. request.pc \in {"teams", "page"} /\ request \in Requests
        /\ UNCHANGED <<kind, made, phase, clock, cursor, got, shown>>
    BY <1>7 DEF AttemptFails, ProviderInv, Types
  <2>2. CASE request.attempt = Attempts
    BY <1>7, <2>1, <2>2, GiveUpStep DEF AttemptFails
  <2>3. CASE request.attempt # Attempts
    <3>1. request' = [request EXCEPT !.attempt = request.attempt + 1]
      BY <1>7, <2>3 DEF AttemptFails
    <3>2. /\ request' \in Requests /\ request'.pc = request.pc
          /\ request'.plays = request.plays
          /\ request'.asked = request.asked /\ request'.page = request.page
      BY <2>1, <3>1 DEF Requests
    <3> QED
      BY <2>1, <3>2, StayStep
  <2> QED
    BY <2>2, <2>3
<1>8. CASE CallFails
  BY <1>8, GiveUpStep DEF CallFails
<1>9. CASE Restart
  BY <1>9, RestartStep
<1>10. CASE UNCHANGED providerVars
  <2>1. Made' = Made
    BY <1>10 DEF providerVars, Made, visiblePlays, Elapsed
  <2>2. ProviderInv'
    BY <1>10, <2>1 DEF providerVars, ProviderInv, Types, Honest, PagesBefore, OnlyReplayReads,
                       FinalIsFinal
  <2> QED
    BY <1>10, <2>1, <2>2 DEF providerVars, PromisedStep, ToTheWatcher!promise
<1> QED
  BY <1>1, <1>2, <1>3, <1>4, <1>5, <1>6, <1>7, <1>8, <1>9, <1>10 DEF ProviderNext

\* Both providers implement the promise that the watcher relies on.
THEOREM ProvidersKeepThePromise == ProviderSpec => KeepsThePromise
<1>1. ProviderInit => ProviderInv /\ ToTheWatcher!Starts
  BY InitPromises
<1>2. ProviderInv /\ [ProviderNext]_providerVars => ProviderInv' /\ PromisedStep
  BY StepPromises
<1> QED
  BY <1>1, <1>2, PTL DEF ProviderSpec, KeepsThePromise, ToTheWatcher!Promise, PromisedStep

(***************************** The reporter ******************************)

(******************************** The days *******************************)

LEMMA DaysOf ==
  ASSUME NEW q \in Int, NEW a \in 0..(DayLength - 1)
  PROVE  (DayLength * q + a) \div DayLength = q /\ (DayLength * q + a) % DayLength = a
<1>1. DayLength \in Nat \ {0}
  BY HeartbeatAssumption
<1> DEFINE t == DayLength * q + a
           p == t \div DayLength
           r == t % DayLength
<1>2. p \in Int /\ r \in 0..(DayLength - 1) /\ t = DayLength * p + r
  BY <1>1, SMT
<1>3. DayLength * q + a = DayLength * p + r
  BY <1>2
<1> HIDE DEF t, p, r
<1>4. p <= q
  <2>1. SUFFICES ASSUME p >= q + 1 PROVE FALSE
    BY <1>2
  <2>2. DayLength * p >= DayLength * q + DayLength
    BY <2>1, <1>1, <1>2, SMT
  <2> QED
    BY <2>2, <1>1, <1>2, <1>3, SMT
<1>5. q <= p
  <2>1. SUFFICES ASSUME q >= p + 1 PROVE FALSE
    BY <1>2
  <2>2. DayLength * q >= DayLength * p + DayLength
    BY <2>1, <1>1, <1>2, SMT
  <2> QED
    BY <2>2, <1>1, <1>2, <1>3, SMT
<1>6. p = q
  BY <1>4, <1>5, <1>2
<1>7. r = a
  BY <1>6, <1>3, <1>1, <1>2, SMT
<1> QED
  BY <1>6, <1>7 DEF p, r, t

\* The last occurrence, by the day and the tick of the day.
LEMMA OccurrenceOf ==
  ASSUME NEW q \in Int, NEW r \in 0..(DayLength - 1)
  PROVE  LET t == DayLength * q + r
         IN  /\ At <= r => LastOccurrence(t) = DayLength * q + At /\ DayOfTick(LastOccurrence(t)) = q
             /\ At > r  => /\ LastOccurrence(t) = (DayLength * q + At) - DayLength
                           /\ DayOfTick(LastOccurrence(t)) = q - 1
<1> DEFINE t == DayLength * q + r
<1>1. DayLength \in Nat \ {0} /\ At \in 0..(DayLength - 1) /\ DayLength * q \in Int
  BY HeartbeatAssumption
<1>2. t % DayLength = r
  BY DaysOf
<1>3. (t - (t % DayLength)) + At = DayLength * q + At
  <2> DEFINE p == DayLength * q
  <2>1. p \in Int /\ r \in Int /\ At \in Int
    BY <1>1
  <2> HIDE DEF p
  <2>2. ((p + r) - r) + At = p + At
    BY <2>1
  <2> QED
    BY <1>2, <2>2 DEF p
<1>4. LastOccurrence(t) = IF At <= r THEN DayLength * q + At ELSE (DayLength * q + At) - DayLength
  BY <1>1, <1>3 DEF LastOccurrence
<1>5. (DayLength * q + At) \div DayLength = q
  BY <1>1, DaysOf
<1>6. (DayLength * q + At) - DayLength = DayLength * (q - 1) + At
  BY <1>1, SMT
<1>7. (DayLength * (q - 1) + At) \div DayLength = q - 1
  BY <1>1, DaysOf
<1> QED
  BY <1>1, <1>4, <1>5, <1>6, <1>7 DEF DayOfTick

\* From one tick to the next the due day stays, or a later one falls due.
LEMMA NextTick ==
  ASSUME NEW t \in Nat, t >= DayLength
  PROVE  /\ LastOccurrence(t) \in Int /\ LastOccurrence(t) <= t
         /\ DayOfTick(LastOccurrence(t)) \in Nat
         /\ DayOfTick(LastOccurrence(t + 1)) \in Nat
         /\ DayOfTick(LastOccurrence(t)) <= DayOfTick(LastOccurrence(t + 1))
         /\ \/ LastOccurrence(t + 1) = LastOccurrence(t)
            \/ LastOccurrence(t + 1) = t + 1
<1>1. DayLength \in Nat \ {0} /\ At \in 0..(DayLength - 1)
  BY HeartbeatAssumption
<1> DEFINE q == t \div DayLength
           r == t % DayLength
<1>2. q \in Int /\ r \in 0..(DayLength - 1) /\ t = DayLength * q + r /\ DayLength * q \in Int
  BY <1>1, SMT
<1> HIDE DEF q, r
<1>3. q >= 1
  <2>1. SUFFICES ASSUME q <= 0 PROVE FALSE
    BY <1>2
  <2>2. DayLength * q <= 0
    BY <2>1, <1>1, <1>2, SMT
  <2> QED
    BY <2>2, <1>1, <1>2
<1>4. /\ At <= r => LastOccurrence(t) = DayLength * q + At /\ DayOfTick(LastOccurrence(t)) = q
      /\ At > r  => /\ LastOccurrence(t) = (DayLength * q + At) - DayLength
                    /\ DayOfTick(LastOccurrence(t)) = q - 1
  BY <1>2, OccurrenceOf
<1>5. CASE r + 1 < DayLength
  <2>1. t + 1 = DayLength * q + (r + 1) /\ r + 1 \in 0..(DayLength - 1)
    BY <1>1, <1>2, <1>5
  <2>2. /\ At <= r + 1 => /\ LastOccurrence(t + 1) = DayLength * q + At
                          /\ DayOfTick(LastOccurrence(t + 1)) = q
        /\ At > r + 1  => /\ LastOccurrence(t + 1) = (DayLength * q + At) - DayLength
                          /\ DayOfTick(LastOccurrence(t + 1)) = q - 1
    BY <1>2, <2>1, OccurrenceOf
  <2> QED
    BY <1>1, <1>2, <1>3, <1>4, <2>1, <2>2
<1>6. CASE r + 1 = DayLength
  <2>1. t + 1 = DayLength * (q + 1) + 0 /\ 0 \in 0..(DayLength - 1) /\ q + 1 \in Int
        /\ DayLength * (q + 1) = DayLength * q + DayLength
    BY <1>1, <1>2, <1>6, SMT
  <2>2. /\ At <= 0 => /\ LastOccurrence(t + 1) = DayLength * (q + 1) + At
                      /\ DayOfTick(LastOccurrence(t + 1)) = q + 1
        /\ At > 0  => /\ LastOccurrence(t + 1) = (DayLength * (q + 1) + At) - DayLength
                      /\ DayOfTick(LastOccurrence(t + 1)) = (q + 1) - 1
    BY <2>1, OccurrenceOf
  <2> QED
    BY <1>1, <1>2, <1>3, <1>4, <1>6, <2>1, <2>2
<1> QED
  BY <1>1, <1>2, <1>5, <1>6

(****************************** The invariant ****************************)

Told == [day: Int, from: Nat, to: Nat, acknowledged: BOOLEAN]

ReportTypes ==
  /\ now \in Nat /\ now >= DayLength
  /\ counted \in Nat /\ previous \in Nat /\ lastDay \in Int
  /\ told \in Seq(Told) /\ looked \in BOOLEAN
  /\ report = NoReport \/ report \in [day: Nat, from: Nat, to: Nat]

\* The days and the counts of the reports known to have arrived are behind.
InOrder ==
  /\ \A i \in DOMAIN told :
       told[i].acknowledged => told[i].day <= lastDay /\ told[i].to <= previous
  /\ lastDay <= DueDay
  /\ previous <= counted
  /\ report # NoReport =>
       /\ report.from = previous /\ previous <= report.to /\ report.to <= counted
       /\ lastDay < report.day /\ report.day <= DueDay

\* What was counted before the next report is in one of those that have arrived.
Covered ==
  \A n \in 1..previous : \E j \in DOMAIN told : told[j].from < n /\ n <= told[j].to

Served == DueDay \in hindered \/ DueDay = lastDay

\* A day that was looked at, or whose hour is over, is served unless its report is
\* on the way; one that falls due meanwhile is not looked at.
LookedAt ==
  /\ report = NoReport /\ (looked \/ now - LastOccurrence(now) > Hour) => Served
  /\ report # NoReport /\ report.day # DueDay =>
       ~looked /\ (now # LastOccurrence(now) => DueDay \in hindered)

HeartbeatInv == ReportTypes /\ InOrder /\ Covered /\ LookedAt /\ ReportsAddUp

LEMMA Due ==
  ASSUME ReportTypes
  PROVE  /\ DueDay \in Nat /\ LastOccurrence(now) \in Int /\ LastOccurrence(now) <= now
         /\ now' = now + 1 =>
              /\ DueDay' \in Nat /\ DueDay <= DueDay'
              /\ LastOccurrence(now') \in Int
              /\ DueDay' # DueDay => LastOccurrence(now') = now'
              /\ LastOccurrence(now') # now' => LastOccurrence(now') = LastOccurrence(now)
<1>1. now \in Nat /\ now >= DayLength
  BY DEF ReportTypes
<1>2. /\ LastOccurrence(now) \in Int /\ LastOccurrence(now) <= now
      /\ DayOfTick(LastOccurrence(now)) \in Nat
      /\ DayOfTick(LastOccurrence(now + 1)) \in Nat
      /\ DayOfTick(LastOccurrence(now)) <= DayOfTick(LastOccurrence(now + 1))
      /\ \/ LastOccurrence(now + 1) = LastOccurrence(now)
         \/ LastOccurrence(now + 1) = now + 1
  BY <1>1, NextTick
<1>3. ASSUME now' = now + 1
      PROVE  DueDay' = DayOfTick(LastOccurrence(now + 1)) /\ LastOccurrence(now') = LastOccurrence(now + 1)
  BY <1>3 DEF DueDay
<1> QED
  BY <1>1, <1>2, <1>3 DEF DueDay

LEMMA InitReports == HeartbeatInit => HeartbeatInv
<1> SUFFICES ASSUME HeartbeatInit PROVE HeartbeatInv
  OBVIOUS
<1>1. ReportTypes
  <2>1. looked \in BOOLEAN
    BY Zenon DEF HeartbeatInit
  <2>2. told \in Seq(Told)
    BY DEF HeartbeatInit
  <2> QED
    BY <2>1, <2>2, HeartbeatAssumption DEF HeartbeatInit, ReportTypes, NoDay
<1>2. DueDay \in Nat
  BY <1>1, Due
<1>3. InOrder /\ Covered
  BY <1>2 DEF HeartbeatInit, InOrder, Covered, NoDay
<1>4. LookedAt
  BY DEF HeartbeatInit, LookedAt, Served
<1>5. ReportsAddUp
  BY <1>4 DEF HeartbeatInit, ReportsAddUp, OneADay, AddUp, NoDayIsSkipped, LookedAt, Served
<1> QED
  BY <1>1, <1>3, <1>4, <1>5 DEF HeartbeatInv

\* That no day is skipped is part of what is known of the days looked at.
LEMMA NoneSkipped == ASSUME LookedAt PROVE NoDayIsSkipped
BY DEF LookedAt, NoDayIsSkipped, Served

(******************************** The steps ******************************)

\* Steps that leave the clock and what has been told alone.
LEMMA SameReports ==
  ASSUME HeartbeatInv, UNCHANGED <<told, previous>>
  PROVE  Covered' /\ OneADay' /\ AddUp'
BY DEF HeartbeatInv, Covered, ReportsAddUp, OneADay, AddUp

LEMMA IncStep ==
  ASSUME HeartbeatInv, Inc
  PROVE  HeartbeatInv'
<1>1. UNCHANGED <<now, previous, lastDay, report, told, looked, hindered, DueDay>>
      /\ counted' = counted + 1
  BY DEF Inc, reporter, DueDay
<1>2. ReportTypes' /\ InOrder' /\ LookedAt'
  BY <1>1 DEF HeartbeatInv, ReportTypes, InOrder, LookedAt, Served
<1> QED
  BY <1>1, <1>2, SameReports, NoneSkipped
     DEF HeartbeatInv, ReportsAddUp, LookedAt, NoDayIsSkipped, Served

LEMMA TimeStep ==
  ASSUME HeartbeatInv, Time
  PROVE  HeartbeatInv'
<1>1. UNCHANGED <<counted, previous, lastDay, report, told>> /\ now' = now + 1
      /\ looked' = FALSE /\ hindered \subseteq hindered'
      /\ (~looked => DueDay \in hindered')
  BY DEF Time, reporter
<1>2. ReportTypes /\ ReportTypes'
  <2>1. looked' \in BOOLEAN
    BY <1>1, Zenon
  <2>2. now' \in Nat /\ now' >= DayLength
    BY <1>1, HeartbeatAssumption DEF HeartbeatInv, ReportTypes
  <2> QED
    BY <2>1, <2>2, <1>1 DEF HeartbeatInv, ReportTypes
<1>3. /\ DueDay \in Nat /\ DueDay' \in Nat /\ DueDay <= DueDay'
      /\ LastOccurrence(now) \in Int /\ LastOccurrence(now') \in Int
      /\ DueDay' # DueDay => LastOccurrence(now') = now'
      /\ LastOccurrence(now') # now' => LastOccurrence(now') = LastOccurrence(now)
  BY <1>1, <1>2, Due
<1>4. InOrder'
  BY <1>1, <1>2, <1>3 DEF HeartbeatInv, InOrder, ReportTypes
<1>5. LookedAt'
  <2>1. ASSUME report = NoReport, now' - LastOccurrence(now') > Hour PROVE Served'
    <3>1. LastOccurrence(now') # now' /\ DueDay' = DueDay
      BY <2>1, <1>2, <1>3, HeartbeatAssumption DEF ReportTypes
    <3>2. CASE looked
      <4>1. Served
        BY <3>2, <2>1 DEF HeartbeatInv, LookedAt
      <4> QED
        BY <4>1, <3>1, <1>1 DEF Served
    <3>3. CASE ~looked
      BY <3>3, <3>1, <1>1 DEF Served
    <3> QED
      BY <3>2, <3>3
  <2>2. ASSUME report # NoReport, report.day # DueDay', now' # LastOccurrence(now')
        PROVE  DueDay' \in hindered'
    <3>1. DueDay' = DueDay
      BY <2>2, <1>3
    <3>2. ~looked
      BY <2>2, <3>1 DEF HeartbeatInv, LookedAt
    <3> QED
      BY <3>1, <3>2, <1>1
  <2> QED
    BY <2>1, <2>2, <1>1 DEF LookedAt
<1>6. Covered' /\ OneADay' /\ AddUp'
  BY <1>1, SameReports
<1>7. NoDayIsSkipped'
  BY <1>5 DEF LookedAt, NoDayIsSkipped, Served
<1> QED
  BY <1>2, <1>4, <1>5, <1>6, <1>7 DEF HeartbeatInv, ReportsAddUp

LEMMA TickReportStep ==
  ASSUME HeartbeatInv, TickReport
  PROVE  HeartbeatInv'
<1>1. /\ UNCHANGED <<now, counted, previous, lastDay, told, hindered, DueDay>> /\ looked' = TRUE
      /\ report = NoReport
  BY DEF TickReport, DueDay
<1>2. DueDay \in Nat
  BY Due DEF HeartbeatInv
<1>3. CASE now - LastOccurrence(now) > Hour \/ DueDay = lastDay
  <2>1. report' = NoReport
    BY <1>3 DEF TickReport
  <2>2. Served'
    BY <1>1, <1>3 DEF HeartbeatInv, LookedAt, Served
  <2>3. ReportTypes' /\ InOrder' /\ LookedAt'
    BY <1>1, <2>1, <2>2 DEF HeartbeatInv, ReportTypes, InOrder, LookedAt
  <2>4. NoDayIsSkipped'
    BY <2>3 DEF LookedAt, NoDayIsSkipped, Served
  <2> QED
    BY <1>1, <2>3, <2>4, SameReports DEF HeartbeatInv, ReportsAddUp
<1>4. CASE ~(now - LastOccurrence(now) > Hour \/ DueDay = lastDay)
  <2>1. report' = [day |-> DueDay, from |-> previous, to |-> counted]
    BY <1>4 DEF TickReport
  <2>2. report' # NoReport /\ report'.day = DueDay /\ report'.from = previous
        /\ report'.to = counted
    BY <2>1, <1>2 DEF NoReport, NoDay
  <2>3. ReportTypes'
    BY <1>1, <1>2, <2>1 DEF HeartbeatInv, ReportTypes
  <2>4. InOrder'
    BY <1>1, <1>2, <1>4, <2>2 DEF HeartbeatInv, InOrder, ReportTypes
  <2>5. LookedAt' /\ NoDayIsSkipped'
    BY <1>1, <2>2 DEF LookedAt, NoDayIsSkipped
  <2> QED
    BY <1>1, <2>3, <2>4, <2>5, SameReports DEF HeartbeatInv, ReportsAddUp
<1> QED
  BY <1>3, <1>4

\* A report arrives: its day and its counts come after those of the ones before.
LEMMA ArrivedStep ==
  ASSUME HeartbeatInv, report # NoReport, NEW a \in BOOLEAN, Arrived(a)
  PROVE  /\ told' \in Seq(Told) /\ OneADay' /\ AddUp'
         /\ DOMAIN told' = 1..(Len(told) + 1)
         /\ \A i \in DOMAIN told : told'[i] = told[i] /\ i \in DOMAIN told'
         /\ told'[Len(told) + 1] = [day |-> report.day, from |-> report.from,
                                    to |-> report.to, acknowledged |-> a]
<1> DEFINE new == [day |-> report.day, from |-> report.from, to |-> report.to, acknowledged |-> a]
           last == Len(told) + 1
<1>1. /\ new \in Told /\ new.day = report.day /\ new.from = previous /\ new.to = report.to
      /\ new.to \in Nat /\ previous \in Nat /\ lastDay \in Int /\ report.day \in Int
  BY DEF HeartbeatInv, ReportTypes, InOrder, Told
<1>2. told \in Seq(Told) /\ told' = Append(told, new)
  BY DEF HeartbeatInv, ReportTypes, Arrived
<1> HIDE DEF new
<1>3. /\ told' \in Seq(Told) /\ DOMAIN told = 1..Len(told) /\ DOMAIN told' = 1..last
      /\ Len(told) \in Nat /\ told'[last] = new
      /\ \A i \in 1..Len(told) : told'[i] = told[i] /\ told[i] \in Told
  BY <1>1, <1>2
<1> HIDE DEF last
<1>4. last = Len(told) + 1
  BY DEF last
<1>5. OneADay'
  <2>1. SUFFICES ASSUME NEW i \in 1..last, NEW j \in 1..last, i < j, told'[i].acknowledged
                 PROVE  told'[i].day < told'[j].day
    BY <1>3 DEF OneADay
  <2>2. i \in 1..Len(told) /\ told'[i] = told[i] /\ told[i].day \in Int
    <3>1. i \in 1..Len(told)
      BY <1>3, <1>4, <2>1
    <3>2. told'[i] = told[i] /\ told[i] \in Told
      BY <3>1, <1>3
    <3> QED
      BY <3>1, <3>2 DEF Told
  <2>3. CASE j = last
    <3>1. told[i].day <= lastDay /\ lastDay < report.day
      BY <2>1, <2>2, <1>3 DEF HeartbeatInv, InOrder
    <3> QED
      BY <3>1, <2>2, <2>3, <1>1, <1>3
  <2>4. CASE j # last
    <3>1. j \in 1..Len(told) /\ told'[j] = told[j]
      BY <1>3, <1>4, <2>4
    <3> QED
      BY <3>1, <2>1, <2>2, <1>3 DEF HeartbeatInv, ReportsAddUp, OneADay
  <2> QED
    BY <2>3, <2>4
<1>6. ASSUME NEW i \in 1..last, NEW n \in 1..told'[i].to
      PROVE  \E j \in 1..i : told'[j].from < n /\ n <= told'[j].to
  <2>1. CASE i = last
    <3>1. CASE n <= previous
      <4>1. PICK j \in DOMAIN told : told[j].from < n /\ n <= told[j].to
        BY <3>1, <1>1 DEF HeartbeatInv, Covered
      <4>2. j \in 1..i /\ told'[j] = told[j]
        BY <4>1, <2>1, <1>3, <1>4
      <4> QED
        BY <4>1, <4>2
    <3>2. CASE n > previous
      <4>1. told'[i].from < n /\ n <= told'[i].to /\ i \in 1..i
        BY <2>1, <3>2, <1>1, <1>3, <1>4
      <4> QED
        BY <4>1
    <3> QED
      BY <3>1, <3>2, <1>1
  <2>2. CASE i # last
    <3>1. i \in 1..Len(told) /\ told'[i] = told[i]
      BY <2>2, <1>3, <1>4
    <3>2. PICK j \in 1..i : told[j].from < n /\ n <= told[j].to
      BY <3>1, <1>3 DEF HeartbeatInv, ReportsAddUp, AddUp
    <3>3. told'[j] = told[j]
      BY <3>1, <3>2, <1>3
    <3> QED
      BY <3>2, <3>3
  <2> QED
    BY <2>1, <2>2
<1>7. ASSUME NEW i \in 1..last, NEW j \in 1..last, i < j, told'[i].acknowledged
      PROVE  told'[i].to <= told'[j].from
  <2>1. i \in 1..Len(told) /\ told'[i] = told[i]
    BY <1>3, <1>4, <1>7
  <2>2. CASE j = last
    BY <2>1, <2>2, <1>1, <1>3, <1>7 DEF HeartbeatInv, InOrder
  <2>3. CASE j # last
    <3>1. j \in 1..Len(told) /\ told'[j] = told[j]
      BY <1>3, <1>4, <2>3
    <3> QED
      BY <3>1, <2>1, <1>3, <1>7 DEF HeartbeatInv, ReportsAddUp, AddUp
  <2> QED
    BY <2>2, <2>3
<1>8. AddUp'
  BY <1>3, <1>6, <1>7 DEF AddUp
<1> QED
  BY <1>3, <1>4, <1>5, <1>8 DEF new

LEMMA NoticeSentStep ==
  ASSUME HeartbeatInv, NoticeSent
  PROVE  HeartbeatInv'
<1>1. /\ report # NoReport /\ report' = NoReport /\ previous' = report.to /\ lastDay' = report.day
      /\ Arrived(TRUE) /\ UNCHANGED <<now, counted, looked, hindered, DueDay>>
  BY DEF NoticeSent, WhatWasReported, DueDay
<1> DEFINE new == [day |-> report.day, from |-> report.from, to |-> report.to, acknowledged |-> TRUE]
<1>2. /\ told' \in Seq(Told) /\ OneADay' /\ AddUp'
      /\ DOMAIN told' = 1..(Len(told) + 1)
      /\ \A i \in DOMAIN told : told'[i] = told[i] /\ i \in DOMAIN told'
      /\ told'[Len(told) + 1] = new
  BY <1>1, ArrivedStep
<1>3. /\ report.day \in Nat /\ report.to \in Nat /\ report.from = previous /\ previous \in Nat
      /\ lastDay < report.day /\ report.day <= DueDay /\ DueDay \in Nat /\ lastDay \in Int
      /\ told \in Seq(Told) /\ Len(told) \in Nat /\ DOMAIN told = 1..Len(told)
  BY <1>1, Due DEF HeartbeatInv, ReportTypes, InOrder
<1>4. ReportTypes'
  BY <1>1, <1>2, <1>3 DEF HeartbeatInv, ReportTypes
<1>5. new.day = report.day /\ new.from = previous /\ new.to = report.to
  BY <1>3
<1> HIDE DEF new
<1>6. previous <= report.to /\ report.to <= counted
  BY <1>1 DEF HeartbeatInv, InOrder
<1>7. InOrder'
  <2>1. ASSUME NEW i \in DOMAIN told', told'[i].acknowledged
        PROVE  told'[i].day <= lastDay' /\ told'[i].to <= previous'
    <3>1. CASE i = Len(told) + 1
      BY <3>1, <1>1, <1>2, <1>3, <1>5
    <3>2. CASE i # Len(told) + 1
      <4>1. i \in 1..Len(told) /\ told'[i] = told[i] /\ told[i] \in Told
        BY <3>2, <1>2, <1>3
      <4>2. told[i].day <= lastDay /\ told[i].to <= previous
        BY <4>1, <2>1, <1>3 DEF HeartbeatInv, InOrder
      <4> QED
        BY <4>1, <4>2, <1>1, <1>3, <1>6 DEF Told
    <3> QED
      BY <3>1, <3>2
  <2> QED
    BY <2>1, <1>1, <1>3, <1>6 DEF InOrder
<1>8. Covered'
  <2>1. ASSUME NEW n \in 1..report.to
        PROVE  \E j \in DOMAIN told' : told'[j].from < n /\ n <= told'[j].to
    <3>1. CASE n <= previous
      <4>1. PICK j \in DOMAIN told : told[j].from < n /\ n <= told[j].to
        BY <3>1, <1>3 DEF HeartbeatInv, Covered
      <4> QED
        BY <4>1, <1>2
    <3>2. CASE n > previous
      <4>1. Len(told) + 1 \in DOMAIN told'
        BY <1>2, <1>3
      <4> QED
        BY <4>1, <3>2, <1>2, <1>3, <1>5
    <3> QED
      BY <3>1, <3>2, <1>3
  <2> QED
    BY <2>1, <1>1 DEF Covered
\* What was looked at is the day reported, or the next has its mark.
<1>9. LookedAt'
  <2>1. ASSUME looked \/ now - LastOccurrence(now) > Hour PROVE Served'
    <3>1. CASE report.day = DueDay
      BY <3>1, <1>1 DEF Served
    <3>2. CASE report.day # DueDay
      <4>1. ~looked /\ (now # LastOccurrence(now) => DueDay \in hindered)
        BY <3>2, <1>1 DEF HeartbeatInv, LookedAt
      <4>2. now # LastOccurrence(now)
        BY <4>1, <2>1, Due, HeartbeatAssumption DEF HeartbeatInv, ReportTypes
      <4> QED
        BY <4>1, <4>2, <1>1 DEF Served
    <3> QED
      BY <3>1, <3>2
  <2> QED
    BY <2>1, <1>1 DEF LookedAt
<1>10. NoDayIsSkipped'
  BY <1>9 DEF LookedAt, NoDayIsSkipped, Served
<1> QED
  BY <1>2, <1>4, <1>7, <1>8, <1>9, <1>10 DEF HeartbeatInv, ReportsAddUp

LEMMA NoticeFailsStep ==
  ASSUME HeartbeatInv, NoticeFails
  PROVE  HeartbeatInv'
<1>1. /\ report # NoReport /\ report' = NoReport
      /\ UNCHANGED <<now, counted, looked, previous, lastDay, DueDay>>
      /\ DueDay \in hindered'
  BY DEF NoticeFails, DueDay
<1>2. LookedAt' /\ NoDayIsSkipped'
  BY <1>1 DEF LookedAt, NoDayIsSkipped, Served
<1>3. CASE UNCHANGED told
  <2>1. ReportTypes' /\ InOrder'
    BY <1>1, <1>3 DEF HeartbeatInv, ReportTypes, InOrder
  <2> QED
    BY <2>1, <1>1, <1>2, <1>3, SameReports DEF HeartbeatInv, ReportsAddUp
<1>4. CASE Arrived(FALSE)
  <2> DEFINE new == [day |-> report.day, from |-> report.from, to |-> report.to, acknowledged |-> FALSE]
  <2>1. /\ told' \in Seq(Told) /\ OneADay' /\ AddUp'
        /\ DOMAIN told' = 1..(Len(told) + 1)
        /\ \A i \in DOMAIN told : told'[i] = told[i] /\ i \in DOMAIN told'
        /\ told'[Len(told) + 1] = new
    BY <1>1, <1>4, ArrivedStep
  <2>2. told \in Seq(Told) /\ Len(told) \in Nat /\ DOMAIN told = 1..Len(told) /\ ~new.acknowledged
    BY DEF HeartbeatInv, ReportTypes
  <2> HIDE DEF new
  <2>3. ReportTypes'
    BY <1>1, <2>1 DEF HeartbeatInv, ReportTypes
  <2>4. InOrder'
    <3>1. ASSUME NEW i \in DOMAIN told', told'[i].acknowledged
          PROVE  told'[i].day <= lastDay /\ told'[i].to <= previous
      <4>1. i \in DOMAIN told /\ told'[i] = told[i]
        BY <3>1, <2>1, <2>2
      <4> QED
        BY <4>1, <3>1 DEF HeartbeatInv, InOrder
    <3> QED
      BY <3>1, <1>1 DEF HeartbeatInv, InOrder
  <2>5. Covered'
    BY <1>1, <2>1 DEF HeartbeatInv, Covered
  <2> QED
    BY <2>1, <2>3, <2>4, <2>5, <1>2 DEF HeartbeatInv, ReportsAddUp
<1> QED
  BY <1>3, <1>4 DEF NoticeFails

LEMMA ProcessRestartStep ==
  ASSUME HeartbeatInv, ProcessRestarts
  PROVE  HeartbeatInv'
<1>1. /\ counted' = 0 /\ previous' = 0 /\ lastDay' = NoDay /\ report' = NoReport
      /\ told' = <<>> /\ looked' = FALSE /\ DueDay \in hindered' /\ UNCHANGED <<now, DueDay>>
  BY DEF ProcessRestarts, DueDay
<1>2. DueDay \in Nat
  BY Due DEF HeartbeatInv
<1>3. ReportTypes'
  <2>1. looked' \in BOOLEAN
    BY <1>1, Zenon
  <2>2. told' \in Seq(Told)
    BY <1>1
  <2> QED
    BY <2>1, <2>2, <1>1 DEF HeartbeatInv, ReportTypes, NoDay
<1>4. InOrder' /\ Covered'
  BY <1>1, <1>2 DEF InOrder, Covered, NoDay
<1>5. LookedAt' /\ NoDayIsSkipped'
  BY <1>1 DEF LookedAt, NoDayIsSkipped, Served
<1>6. OneADay' /\ AddUp'
  BY <1>1 DEF OneADay, AddUp
<1> QED
  BY <1>3, <1>4, <1>5, <1>6 DEF HeartbeatInv, ReportsAddUp

LEMMA StepReports ==
  HeartbeatInv /\ [HeartbeatNext]_heartbeatVars => HeartbeatInv'
<1> SUFFICES ASSUME HeartbeatInv, [HeartbeatNext]_heartbeatVars PROVE HeartbeatInv'
  OBVIOUS
<1>1. CASE Inc
  BY <1>1, IncStep
<1>2. CASE Time
  BY <1>2, TimeStep
<1>3. CASE TickReport
  BY <1>3, TickReportStep
<1>4. CASE NoticeSent
  BY <1>4, NoticeSentStep
<1>5. CASE NoticeFails
  BY <1>5, NoticeFailsStep
<1>6. CASE ProcessRestarts
  BY <1>6, ProcessRestartStep
<1>7. CASE UNCHANGED heartbeatVars
  BY <1>7 DEF heartbeatVars, reporter, HeartbeatInv, ReportTypes, InOrder, Covered, LookedAt, Served,
              DueDay, ReportsAddUp, OneADay, AddUp, NoDayIsSkipped
<1> QED
  BY <1>1, <1>2, <1>3, <1>4, <1>5, <1>6, <1>7 DEF HeartbeatNext

\* The reports of a process are one a day, miss no count that was made between the
\* making of the reporter and the last of them and no day that nothing hindered, and tell no count twice that is
\* known to have been told.
THEOREM ReportsAlwaysAddUp == HeartbeatSpec => []ReportsAddUp
<1>1. HeartbeatInit => HeartbeatInv
  BY InitReports
<1>2. HeartbeatInv /\ [HeartbeatNext]_heartbeatVars => HeartbeatInv'
  BY StepReports
<1>3. HeartbeatInv => ReportsAddUp
  BY DEF HeartbeatInv
<1> QED
  BY <1>1, <1>2, <1>3, PTL DEF HeartbeatSpec

(***************************** The process *******************************)

BeforeGo == ToSet(Setup) \cup {"roster"}

Stages == BeforeGo \cup Components \cup {"waiting", "over"}

Outcomes == {"off", "registering", "running", "nil", "error"}

\* What a component has returned says what has happened before it did, and a process
\* that is over has none at work.
SupervisorInv ==
  /\ stage \in Stages /\ component \in [Components -> Outcomes]
  /\ signalled \in BOOLEAN /\ failed \in BOOLEAN /\ busOpen \in BOOLEAN /\ storeOpen \in BOOLEAN
  /\ requests \in [taken: Nat, answered: Nat]
  /\ stage \in BeforeGo => \A c \in Components : component[c] = "off"
  /\ ~reports => component["reporter"] = "off"
  /\ \A c \in Components : /\ component[c] = "error" => failed
                           /\ component[c] = "nil" => Cancelled
  /\ component["poller"] = "nil" => ~busOpen
  /\ component["http"] = "nil" => requests.taken = requests.answered
  /\ stage \notin {"store", "over"} => storeOpen
  /\ stage = "over" => \A c \in Components : component[c] \in {"off", "nil", "error"}
  /\ stage # "over" => exit = -1
  /\ CleanStop

LEMMA StagesAre ==
  /\ BeforeGo = {"store", "migrate", "provider", "teams", "roster"}
  /\ Order[1] = "http" /\ "poller" \in Components /\ "http" \in Components
  /\ "reporter" \in Components /\ "telegram" \in Components
<1>1. ToSet(Setup) = {"store", "migrate", "provider", "teams"}
  BY DEF ToSet, Setup
<1> QED
  BY <1>1 DEF BeforeGo, Order, Components

\* A stage before the last has one that follows it.
LEMMA StageFollows ==
  /\ \A s \in ToSet(Setup) \ {"teams"} :
       Setup[1 + CHOOSE i \in DOMAIN Setup : Setup[i] = s] \in {"migrate", "provider", "teams"}
  /\ \A s \in Components \ {"poller"} :
       Order[1 + CHOOSE i \in DOMAIN Order : Order[i] = s] \in Components
<1>1. ASSUME NEW s \in ToSet(Setup) \ {"teams"}
      PROVE  Setup[1 + CHOOSE i \in DOMAIN Setup : Setup[i] = s]
               \in {"migrate", "provider", "teams"}
  <2> DEFINE k == CHOOSE i \in DOMAIN Setup : Setup[i] = s
  <2>1. \E i \in DOMAIN Setup : Setup[i] = s
    BY DEF ToSet
  <2>2. k \in DOMAIN Setup /\ Setup[k] = s
    BY <2>1
  <2> HIDE DEF k
  <2>3. k \in 1..4 /\ k # 4
    BY <2>2 DEF Setup
  <2>4. 1 + k \in 2..4
    BY <2>3
  <2>5. \A i \in 2..4 : Setup[i] \in {"migrate", "provider", "teams"}
    BY DEF Setup
  <2>6. Setup[1 + k] \in {"migrate", "provider", "teams"}
    BY <2>4, <2>5
  <2> QED
    BY <2>6 DEF k
<1>2. ASSUME NEW s \in Components \ {"poller"}
      PROVE  Order[1 + CHOOSE i \in DOMAIN Order : Order[i] = s] \in Components
  <2> DEFINE k == CHOOSE i \in DOMAIN Order : Order[i] = s
  <2>1. \E i \in DOMAIN Order : Order[i] = s
    <3>1. DOMAIN Order = 1..6 /\ Order[1] = "http" /\ Order[2] = "telegram"
          /\ Order[3] = "scheduler" /\ Order[4] = "dispatcher" /\ Order[5] = "reporter"
      BY DEF Order
    <3>2. s \in {"http", "telegram", "scheduler", "dispatcher", "reporter"}
      BY DEF Components
    <3> QED
      BY <3>1, <3>2
  <2>2. k \in DOMAIN Order /\ Order[k] = s
    BY <2>1
  <2> HIDE DEF k
  <2>3. k \in 1..6 /\ k # 6
    BY <2>2 DEF Order
  <2>4. 1 + k \in 2..6
    BY <2>3
  <2>5. \A i \in 2..6 : Order[i] \in Components
    BY DEF Order, Components
  <2>6. Order[1 + k] \in Components
    BY <2>4, <2>5
  <2> QED
    BY <2>6 DEF k
<1> QED
  BY <1>1, <1>2

LEMMA ProcessStarts == SupervisorInit => SupervisorInv
<1> SUFFICES ASSUME SupervisorInit
             PROVE  SupervisorInv
  OBVIOUS
<1>1. stage = "store" /\ component = [c \in Components |-> "off"] /\ exit = -1
      /\ requests = [taken |-> 0, answered |-> 0] /\ busOpen /\ busOpen \in BOOLEAN
      /\ storeOpen \in BOOLEAN /\ signalled \in BOOLEAN /\ failed \in BOOLEAN
  BY DEF SupervisorInit
<1>2. component \in [Components -> Outcomes] /\ \A c \in Components : component[c] = "off"
  BY <1>1 DEF Outcomes
<1>3. requests \in [taken: Nat, answered: Nat]
  BY <1>1
<1>4. CleanStop
  BY <1>1, <1>2 DEF CleanStop
<1> QED
  BY <1>1, <1>2, <1>3, <1>4, StagesAre DEF SupervisorInv, Stages

\* A component that is at work returns.
LEMMA ReturningStep ==
  ASSUME SupervisorInv, NEW c \in Components, component[c] \in {"running", "registering"},
         NEW result \in {"nil", "error"}, Returns(c, result), Unmoved,
         busOpen' = busOpen \/ busOpen' = FALSE,
         result = "nil" /\ c = "poller" => ~busOpen',
         result = "nil" /\ c = "http" => requests.taken = requests.answered
  PROVE  SupervisorInv'
<1> DEFINE what == IF result = "nil" /\ ~Cancelled THEN "error" ELSE result
<1>1. what \in {"nil", "error"} /\ (what = "nil" => result = "nil" /\ Cancelled)
  OBVIOUS
<1>2. component' = [component EXCEPT ![c] = what] /\ failed' = (failed \/ what = "error")
  BY DEF Returns
<1> HIDE DEF what
<1>3. stage \notin BeforeGo /\ stage # "over" /\ exit = -1 /\ storeOpen
  BY StagesAre DEF SupervisorInv
<1>4. /\ stage' = stage /\ reports' = reports /\ signalled' = signalled /\ exit' = exit
      /\ storeOpen' = storeOpen /\ requests' = requests
  BY DEF Unmoved, configuration
<1>5. component' \in [Components -> Outcomes] /\ failed' \in BOOLEAN /\ busOpen' \in BOOLEAN
  BY <1>1, <1>2 DEF SupervisorInv, Outcomes
<1>6. ~reports' => component'["reporter"] = "off"
  BY <1>2, <1>4, StagesAre DEF SupervisorInv
<1>7. \A d \in Components : /\ component'[d] = "error" => failed'
                            /\ component'[d] = "nil" => Cancelled'
  BY <1>1, <1>2, <1>4 DEF SupervisorInv, Cancelled
<1>8. /\ component'["poller"] = "nil" => ~busOpen'
      /\ component'["http"] = "nil" => requests'.taken = requests'.answered
  BY <1>1, <1>2, <1>4, StagesAre DEF SupervisorInv
<1> QED
  BY <1>3, <1>4, <1>5, <1>6, <1>7, <1>8 DEF SupervisorInv, CleanStop

LEMMA StartupStep ==
  ASSUME SupervisorInv, Startup
  PROVE  SupervisorInv'
<1>1. CASE StepSucceeds
  <2>1. stage \in ToSet(Setup) /\ storeOpen' = TRUE
        /\ UNCHANGED <<configuration, group, requests, exit>>
    BY <1>1 DEF StepSucceeds
  <2>2. stage' \in {"migrate", "provider", "teams", "http"}
    BY <1>1, <2>1, StageFollows, StagesAre DEF StepSucceeds
  <2>3. stage \in BeforeGo /\ stage # "over"
    BY <2>1, StagesAre DEF BeforeGo
  <2> QED
    BY <2>1, <2>2, <2>3, StagesAre
       DEF SupervisorInv, Stages, CleanStop, configuration, group, Cancelled
<1>2. CASE StepFails
  <2>1. UNCHANGED <<configuration, group, requests>>
    BY <1>2 DEF StepFails
  <2>2. \/ stage \in BeforeGo /\ stage' = "over" /\ exit' = 1 /\ storeOpen' = FALSE
        \/ stage = "teams" /\ stage' = "roster" /\ UNCHANGED <<storeOpen, exit>>
    BY <1>2, StagesAre DEF StepFails, Exit
  <2>3. CASE stage \in BeforeGo /\ stage' = "over" /\ exit' = 1 /\ storeOpen' = FALSE
    <3>1. \A c \in Components : component'[c] = "off"
      BY <2>1, <2>3 DEF SupervisorInv, group
    <3>2. CleanStop'
      BY <2>3, <3>1 DEF CleanStop
    <3> QED
      BY <2>1, <2>3, <3>1, <3>2, StagesAre
         DEF SupervisorInv, Stages, configuration, group, Cancelled
  <2>4. CASE stage = "teams" /\ stage' = "roster" /\ UNCHANGED <<storeOpen, exit>>
    BY <2>1, <2>4, StagesAre
       DEF SupervisorInv, Stages, CleanStop, configuration, group, Cancelled
  <2> QED
    BY <2>2, <2>3, <2>4
<1>3. CASE RosterIsThere
  BY <1>3, StagesAre
     DEF RosterIsThere, SupervisorInv, Stages, CleanStop, configuration, group, Cancelled
<1>4. CASE Go
  <2>1. stage \in Components /\ stage \notin BeforeGo /\ stage # "over"
    BY <1>4, StagesAre DEF Go, Components
  <2>2. PICK what \in {"off", "registering", "running"} :
          /\ component' = [component EXCEPT ![stage] = what]
          /\ stage = "reporter" /\ ~reports => what = "off"
    BY <1>4 DEF Go
  <2>3. stage' \in Components \cup {"waiting"}
    BY <1>4, <2>1, StageFollows DEF Go
  <2>4. stage' \notin BeforeGo /\ stage' # "over" /\ stage' # "store" /\ stage # "store"
    BY <2>1, <2>3, StagesAre DEF Components
  <2>5. /\ signalled' = signalled /\ failed' = failed /\ busOpen' = busOpen
        /\ storeOpen' = storeOpen /\ requests' = requests /\ exit' = exit /\ reports' = reports
    BY <1>4 DEF Go, configuration
  <2>6. component' \in [Components -> Outcomes]
    BY <2>1, <2>2 DEF SupervisorInv, Outcomes
  <2>7. \A d \in Components : component'[d] \in {component[d], "off", "registering", "running"}
    BY <2>1, <2>2 DEF SupervisorInv
  <2>8. ~reports' => component'["reporter"] = "off"
    BY <2>1, <2>2, <2>5, StagesAre DEF SupervisorInv
  <2>9. storeOpen /\ exit = -1
    BY <2>1, <2>4 DEF SupervisorInv
  <2>10. stage' \in Stages
    BY <2>3 DEF Stages
  <2>11. \A d \in Components : /\ component'[d] = "error" => failed'
                               /\ component'[d] = "nil" => Cancelled'
    BY <2>5, <2>7 DEF SupervisorInv, Cancelled
  <2>12. /\ component'["poller"] = "nil" => ~busOpen'
         /\ component'["http"] = "nil" => requests'.taken = requests'.answered
    BY <2>5, <2>7, StagesAre DEF SupervisorInv
  <2> QED
    BY <2>4, <2>5, <2>6, <2>8, <2>9, <2>10, <2>11, <2>12 DEF SupervisorInv, CleanStop
<1> QED
  BY <1>1, <1>2, <1>3, <1>4 DEF Startup

LEMMA ProcessStep ==
  ASSUME SupervisorInv, [SupervisorNext]_supervisorVars
  PROVE  SupervisorInv'
<1> USE StagesAre
<1>1. CASE Signal
  BY <1>1 DEF Signal, SupervisorInv, CleanStop, Cancelled, configuration, Out
<1>2. CASE Startup
  BY <1>2, StartupStep
<1>3. CASE ListenFails
  BY <1>3, ReturningStep DEF ListenFails, Running
<1>4. CASE Shutdown
  BY <1>4 DEF Shutdown, Unmoved, SupervisorInv, CleanStop, Cancelled, configuration
<1>5. CASE ServerReturns
  BY <1>5, ReturningStep DEF ServerReturns, Running
<1>6. CASE GraceEnds
  BY <1>6 DEF GraceEnds, Unmoved, SupervisorInv, CleanStop, Cancelled, configuration
<1>7. CASE SetWebhook
  <2>1. CASE Returns("telegram", "error")
    BY <1>7, <2>1, ReturningStep DEF SetWebhook
  <2>2. CASE ~Returns("telegram", "error")
    <3>1. component' = [component EXCEPT !["telegram"] = "running"] /\ failed' = failed
          /\ component["telegram"] = "registering"
      BY <1>7, <2>2 DEF SetWebhook
    <3>2. /\ stage' = stage /\ reports' = reports /\ signalled' = signalled /\ exit' = exit
          /\ storeOpen' = storeOpen /\ requests' = requests /\ busOpen' = busOpen
      BY <1>7 DEF SetWebhook, Unmoved, configuration
    <3>3. component' \in [Components -> Outcomes]
          /\ \A d \in Components \ {"telegram"} : component'[d] = component[d]
          /\ component'["telegram"] = "running"
      BY <3>1 DEF SupervisorInv, Outcomes
    <3>4. stage \notin BeforeGo /\ stage # "over" /\ exit = -1 /\ storeOpen
      BY <3>1 DEF SupervisorInv
    <3> QED
      BY <3>1, <3>2, <3>3, <3>4 DEF SupervisorInv, CleanStop, Cancelled, Components
  <2> QED
    BY <2>1, <2>2
<1>8. ASSUME NEW c \in Components, LoopReturns(c)
      PROVE  SupervisorInv'
  BY <1>8, ReturningStep DEF LoopReturns, Running
<1>9. CASE PollerReturns
  BY <1>9, ReturningStep DEF PollerReturns, Running
<1>10. CASE DispatcherReturns
  <2>1. "dispatcher" \in Components
    BY DEF Components
  <2> QED
    BY <1>10, <2>1, ReturningStep DEF DispatcherReturns, Running
<1>11. CASE TakeRequest
  <2>1. component["http"] = "running" /\ stage # "over" /\ exit = -1
    BY <1>11 DEF TakeRequest, Running, SupervisorInv
  <2>2. requests' = [requests EXCEPT !.taken = @ + 1]
        /\ UNCHANGED <<stage, configuration, group, storeOpen, exit>>
    BY <1>11 DEF TakeRequest
  <2>3. requests' \in [taken: Nat, answered: Nat]
    BY <2>2 DEF SupervisorInv
  <2> QED
    BY <2>1, <2>2, <2>3 DEF SupervisorInv, CleanStop, Cancelled, configuration, group
<1>12. CASE AnswerRequest
  <2>1. requests.answered < requests.taken /\ stage # "over"
    BY <1>12 DEF AnswerRequest, Out
  <2>2. component["http"] # "nil" /\ exit = -1
    BY <2>1 DEF SupervisorInv
  <2>3. requests' = [requests EXCEPT !.answered = @ + 1]
        /\ UNCHANGED <<stage, configuration, group, storeOpen, exit>>
    BY <1>12 DEF AnswerRequest
  <2>4. requests' \in [taken: Nat, answered: Nat]
    BY <2>3 DEF SupervisorInv
  <2> QED
    BY <2>1, <2>2, <2>3, <2>4 DEF SupervisorInv, CleanStop, Cancelled, configuration, group
<1>13. CASE Wait
  <2>1. /\ stage = "waiting" /\ stage' = "over" /\ storeOpen' = FALSE
        /\ exit' = IF failed THEN 1 ELSE 0
        /\ UNCHANGED <<configuration, group, requests>>
    BY <1>13 DEF Wait, Exit
  <2>2. \A c \in Components : component[c] \in {"off", "nil", "error"}
        /\ (c # "reporter" => component[c] # "off")
    BY <1>13 DEF Wait, Returned, SupervisorInv
  <2>3. ~failed => /\ signalled /\ ~busOpen /\ requests.taken = requests.answered
                   /\ \A c \in Components : component[c] \in {"nil", "off"}
    <3> SUFFICES ASSUME ~failed
                 PROVE  /\ signalled /\ ~busOpen /\ requests.taken = requests.answered
                        /\ \A c \in Components : component[c] \in {"nil", "off"}
      OBVIOUS
    <3>1. \A c \in Components : component[c] \in {"nil", "off"}
      BY <2>2 DEF SupervisorInv
    <3>2. component["poller"] = "nil" /\ component["http"] = "nil"
      BY <2>2, <3>1
    <3> QED
      BY <3>1, <3>2 DEF SupervisorInv, Cancelled
  <2>4. /\ component' = component /\ signalled' = signalled /\ failed' = failed
        /\ busOpen' = busOpen /\ requests' = requests /\ reports' = reports
    BY <2>1 DEF configuration, group
  <2>5. CleanStop'
    BY <2>1, <2>2, <2>3, <2>4 DEF CleanStop
  <2> QED
    BY <2>1, <2>2, <2>4, <2>5 DEF SupervisorInv, Stages, Cancelled
<1>14. CASE UNCHANGED supervisorVars
  BY <1>14 DEF supervisorVars, configuration, group, SupervisorInv, CleanStop, Cancelled
<1> QED
  BY <1>1, <1>2, <1>3, <1>4, <1>5, <1>6, <1>7, <1>8, <1>9, <1>10, <1>11, <1>12, <1>13, <1>14
     DEF SupervisorNext, Server

\* The process that ends without an error was told to and has done all it had in hand,
\* and no component is ever left without the store (run, supervise and their order).
THEOREM ProcessStopsClean == SupervisorInit /\ [][SupervisorNext]_supervisorVars => []CleanStop
<1>1. SupervisorInv => CleanStop
  BY DEF SupervisorInv
<1> QED
  BY <1>1, ProcessStarts, ProcessStep, PTL

(***************************** The digests *******************************)

DigestInv == digest \in Seq(Blocks) /\ Len(digest) \in 0..3

LEMMA BlockType ==
  ASSUME NEW i \in 1..3, NEW shape \in Shapes
  PROVE  Block(i, shape) \in Blocks
<1>1. PICK n \in 1..2 : shape \in [1..n -> {1, 2, 3, 7}]
  BY DEF Shapes
<1>2. \A j \in 1..n : <<i, j>> \in Paragraphs
  BY <1>1, ServiceAssumption
<1>3. \A j \in 1..n : [of |-> <<i, j>>, from |-> 1, to |-> shape[j]] \in Pieces
  BY <1>1, <1>2 DEF Pieces
<1>4. Block(i, shape) = [j \in 1..n |-> [of |-> <<i, j>>, from |-> 1, to |-> shape[j]]]
  BY <1>1 DEF Block
<1>5. Block(i, shape) \in Seq(Pieces) /\ Len(Block(i, shape)) = n
  BY <1>3, <1>4
<1> QED
  BY <1>5 DEF Blocks

LEMMA DigestStep == DigestInv /\ [Next]_<<partVars, providerVars, heartbeatVars, supervisorVars>>
                      => DigestInv'
<1> SUFFICES ASSUME DigestInv, [Next]_<<partVars, providerVars, heartbeatVars, supervisorVars>>
             PROVE  DigestInv'
  OBVIOUS
<1>1. CASE AddToDigest
  <2>1. PICK shape \in Shapes : digest' = Append(digest, Block(Len(digest) + 1, shape))
    BY <1>1 DEF AddToDigest
  <2>2. Len(digest) + 1 \in 1..3
    BY <1>1 DEF AddToDigest, DigestInv
  <2>3. Block(Len(digest) + 1, shape) \in Blocks
    BY <2>2, BlockType
  <2> QED
    BY <2>1, <2>2, <2>3 DEF DigestInv
<1>2. CASE UNCHANGED digest
  BY <1>2 DEF DigestInv
<1> QED
  BY <1>1, <1>2 DEF Next, partVars

\* The digests that games add up to are cut into messages that Telegram takes, without
\* a byte lost, doubled or moved, as few as can be between their blocks.
THEOREM DigestsAreAlwaysCutWell == Spec => []DigestsAreCutWell
<1>1. Init => DigestInv
  BY EmptySeq DEF Init, DigestInv
<1>2. DigestInv => DigestsAreCutWell
  BY AnyDigestIsCutWell DEF DigestInv, DigestsAreCutWell
<1> QED
  BY <1>1, <1>2, DigestStep, PTL DEF Spec
=============================================================================
