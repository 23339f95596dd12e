--------------------------- MODULE DetectorProofs ---------------------------
(***************************************************************************)
(* Theorems about Detector, for games of any length, any rules and any     *)
(* polls.  What a loop over the plays computes is a recursive function of  *)
(* the plays, and facts about it go by induction over the plays, as sets   *)
(* of numbers that hold 0 and go on by one.                                *)
(***************************************************************************)
EXTENDS Detector, SequenceTheorems, FiniteSetTheorems, WellFoundedInduction,
        NaturalsInduction, TLAPS

(******************************* Induction *******************************)

\* A set that has 0, and every number up to n whose predecessor it has.
LEMMA UpTo ==
  ASSUME NEW n \in Nat, NEW P, 0 \in P, \A i \in 1..n : i - 1 \in P => i \in P
  PROVE  \A i \in 0..n : i \in P
<1> DEFINE bad == {i \in 0..n : i \notin P}
<1> SUFFICES ASSUME bad # {}
             PROVE  FALSE
  OBVIOUS
<1>1. bad \subseteq Nat
  OBVIOUS
<1>2. \E x \in bad : \A y \in bad : ~(<<y, x>> \in OpToRel(<, Nat))
  BY <1>1, NatLessThanWellFounded, WFMin, Zenon
<1>3. PICK x \in bad : \A y \in bad : ~(<<y, x>> \in OpToRel(<, Nat))
  BY <1>2
<1>4. \A y \in bad : ~(y < x)
  BY <1>1, <1>3 DEF OpToRel
<1>5. x \in 1..n /\ x - 1 \in 0..n /\ x - 1 < x
  OBVIOUS
<1>6. x - 1 \in P
  BY <1>4, <1>5
<1> QED
  BY <1>5, <1>6

\* A loop over n elements from a state of S: what each element does, and the state
\* after each of them.
Loops(n, S) == [1..n -> [S -> S]]

IsLoop(f, n, S, base, step) ==
  /\ f \in [0..n -> S] /\ f[0] = base
  /\ \A i \in 1..n : f[i] = step[i][f[i - 1]]

\* A loop over n elements has an outcome after each of them.
LEMMA LoopsEnd ==
  \A n \in Nat : \A S : \A base \in S : \A step \in Loops(n, S) :
    \E f : IsLoop(f, n, S, base, step)
<1> SUFFICES ASSUME NEW n \in Nat, NEW S, NEW base \in S, NEW step \in Loops(n, S)
             PROVE  \E f : IsLoop(f, n, S, base, step)
  OBVIOUS
<1> DEFINE Good(m) == \E f : IsLoop(f, m, S, base, step)
           P == {m \in 0..n : Good(m)}
<1>1. 0 \in P
  <2> DEFINE g == [i \in 0..0 |-> base]
  <2>1. g \in [0..0 -> S] /\ g[0] = base /\ \A i \in 1..0 : g[i] = step[i][g[i - 1]]
    OBVIOUS
  <2> HIDE DEF g
  <2>2. Good(0)
    BY <2>1 DEF IsLoop
  <2> HIDE DEF Good
  <2> QED
    BY <2>2
<1>2. ASSUME NEW m \in 1..n, m - 1 \in P
      PROVE  m \in P
  <2>1. PICK f : IsLoop(f, m - 1, S, base, step)
    BY <1>2
  <2>2. f \in [0..(m - 1) -> S] /\ f[0] = base /\ step \in [1..n -> [S -> S]]
    BY <2>1 DEF IsLoop, Loops
  <2>3. \A i \in 1..(m - 1) : f[i] = step[i][f[i - 1]]
    BY <2>1 DEF IsLoop
  <2> DEFINE g == [i \in 0..m |-> IF i = m THEN step[m][f[m - 1]] ELSE f[i]]
  <2>4. g \in [0..m -> S] /\ g[0] = base
    <3>1. step[m][f[m - 1]] \in S
      BY <2>2
    <3> QED
      BY <2>2, <3>1
  <2>5. \A i \in 1..m : g[i] = step[i][g[i - 1]]
    BY <2>2, <2>3
  <2> HIDE DEF g
  <2>6. Good(m)
    BY <2>4, <2>5 DEF IsLoop
  <2> HIDE DEF Good
  <2> QED
    BY <2>6
<1> HIDE DEF P
<1>3. \A m \in 0..n : m \in P
  BY <1>1, <1>2, UpTo
<1>4. n \in P
  BY <1>3
<1> QED
  BY <1>4 DEF P

(********************************* Plays *********************************)

Scores == [Teams -> Nat]

Plays == [team: Teams \cup {"none"}, player: Players \cup {Nobody}, points: Nat,
          period: Nat, remaining: Nat, score: Scores]

RunStates == [team: Teams \cup {"none"}, scored: Nat, allowed: Nat, emitted: BOOLEAN]

LEMMA NoRunType == NoRun \in RunStates
BY DEF NoRun, RunStates

LEMMA RunOfType ==
  ASSUME NEW t \in Teams, NEW n \in Nat
  PROVE  /\ RunOf(t, n) \in RunStates /\ RunOf(t, n).team = t /\ RunOf(t, n).scored = n
         /\ RunOf(t, n).allowed = 0 /\ ~RunOf(t, n).emitted
BY DEF RunOf, NoRun, RunStates

LEMMA RulesType ==
  /\ RunMinPoints \in Nat /\ RunMinPoints # 0 /\ RunTolerance \in Nat
  /\ RunTolerance < RunMinPoints /\ ComebackDeficit \in Nat /\ ComebackDeficit # 0
  /\ ClutchFromPeriod \in Nat /\ CloseFinishMargin \in Nat /\ CloseFinishWindow \in Nat
BY DetectorAssumption

LEMMA AfterBasketType ==
  ASSUME NEW r \in RunStates, NEW p \in Plays, IsScoring(p)
  PROVE  AfterBasket(r, p) \in RunStates
<1>1. p.team \in Teams /\ p.points \in Nat
  BY DEF Plays, IsScoring
<1>2. r.allowed + p.points \in Nat /\ r.scored + p.points \in Nat
  BY <1>1 DEF RunStates
<1>3. RunOf(p.team, p.points) \in RunStates /\ RunOf(p.team, r.allowed + p.points) \in RunStates
  BY <1>1, <1>2, RunOfType
<1> QED
  BY <1>1, <1>2, <1>3 DEF AfterBasket, RunStates

LEMMA AfterPlayType ==
  ASSUME NEW r \in RunStates, NEW p \in Plays
  PROVE  AfterPlay(r, p) \in RunStates
<1>1. CASE ~IsScoring(p)
  BY <1>1 DEF AfterPlay
<1>2. CASE IsScoring(p)
  <2> DEFINE next == AfterBasket(r, p)
             e == next.emitted \/ Due(next)
  <2>1. next \in RunStates
    BY <1>2, AfterBasketType
  <2> HIDE DEF next
  <2>2. e \in BOOLEAN
    BY <2>1 DEF RunStates, Due
  <2>3. AfterPlay(r, p) = [next EXCEPT !.emitted = e]
    BY <1>2 DEF AfterPlay, next
  <2> HIDE DEF e
  <2> QED
    BY <2>1, <2>2, <2>3 DEF RunStates
<1> QED
  BY <1>1, <1>2

LEMMA RunsUnfold ==
  ASSUME NEW plays \in Seq(Plays)
  PROVE  /\ Runs(plays) \in [0..Len(plays) -> RunStates]
         /\ Runs(plays)[0] = NoRun
         /\ \A i \in 1..Len(plays) : Runs(plays)[i] = AfterPlay(Runs(plays)[i - 1], plays[i])
<1> DEFINE n == Len(plays)
           G(g) == [i \in 0..n |-> IF i = 0 THEN NoRun ELSE AfterPlay(g[i - 1], plays[i])]
           step == [i \in 1..n |-> [r \in RunStates |-> AfterPlay(r, plays[i])]]
<1>1. n \in Nat /\ \A i \in 1..n : plays[i] \in Plays
  OBVIOUS
<1>2. step \in [1..n -> [RunStates -> RunStates]]
  BY <1>1, AfterPlayType
<1>3. PICK f : IsLoop(f, n, RunStates, NoRun, step)
  <2>1. step \in Loops(n, RunStates)
    BY <1>2 DEF Loops
  <2> HIDE DEF step, n
  <2> QED
    BY <1>1, <2>1, NoRunType, LoopsEnd, Zenon
<1>. f \in [0..n -> RunStates] /\ f[0] = NoRun /\ \A i \in 1..n : f[i] = step[i][f[i - 1]]
  BY <1>3 DEF IsLoop
<1>4. ASSUME NEW i \in 1..n
      PROVE  f[i] = AfterPlay(f[i - 1], plays[i])
  <2>1. f[i - 1] \in RunStates
    BY <1>1
  <2> QED
    BY <1>3, <2>1
<1>5. f = G(f)
  BY <1>1, <1>3, <1>4
<1>6. Runs(plays) = CHOOSE g : g = G(g)
  BY DEF Runs
<1>7. Runs(plays) = G(Runs(plays))
  <2> HIDE DEF G
  <2> QED
    BY <1>5, <1>6, Zenon
<1> DEFINE g == Runs(plays)
<1>8. g[0] = NoRun /\ \A i \in 1..n : g[i] = AfterPlay(g[i - 1], plays[i])
  BY <1>1, <1>7
<1>9. \A i \in 0..n : i \in {j \in 0..n : g[j] \in RunStates}
  <2> DEFINE P == {j \in 0..n : g[j] \in RunStates}
  <2>1. 0 \in P
    BY <1>1, <1>8, NoRunType
  <2>2. \A i \in 1..n : i - 1 \in P => i \in P
    BY <1>1, <1>8, AfterPlayType
  <2> HIDE DEF P
  <2>3. \A i \in 0..n : i \in P
    BY <1>1, <2>1, <2>2, UpTo
  <2> QED
    BY <2>3 DEF P
<1>10. g \in [0..n -> RunStates]
  BY <1>7, <1>9
<1> QED
  BY <1>8, <1>10

LEMMA LeadType ==
  ASSUME NEW p \in Plays, NEW t
  PROVE  /\ Lead(p) \in Int /\ LeadOf(t, p) \in Int /\ Margin(p) \in Nat
         /\ Margin(p) = Abs(Lead(p))
<1>1. p.score["home"] \in Nat /\ p.score["away"] \in Nat
  BY DEF Plays, Scores, Teams
<1>2. Lead(p) \in Int
  BY <1>1 DEF Lead
<1> QED
  BY <1>2 DEF LeadOf, Margin, Abs

LEMMA LeadAfterType ==
  ASSUME NEW plays \in Seq(Plays), NEW t, NEW i \in 0..Len(plays)
  PROVE  LeadAfter(plays, t, i) \in Int
<1>1. i # 0 => plays[i] \in Plays
  OBVIOUS
<1> QED
  BY <1>1, LeadType DEF LeadAfter

LEMMA DeeperType ==
  ASSUME NEW d \in Nat, NEW l \in Int
  PROVE  Deeper(d, l) \in Nat
BY DEF Deeper

LEMMA DeficitsUnfold ==
  ASSUME NEW plays \in Seq(Plays), NEW team
  PROVE  /\ Deficits(plays, team) \in [0..Len(plays) -> Nat]
         /\ Deficits(plays, team)[0] = 0
         /\ \A i \in 1..Len(plays) :
              Deficits(plays, team)[i] =
                IF TakesLead(plays, team, i) THEN 0
                ELSE Deeper(Deficits(plays, team)[i - 1], LeadAfter(plays, team, i))
<1> DEFINE n == Len(plays)
           lead(i) == LeadAfter(plays, team, i)
           takes(i) == TakesLead(plays, team, i)
           G(g) == [i \in 0..n |-> IF i = 0 \/ takes(i) THEN 0 ELSE Deeper(g[i - 1], lead(i))]
           step == [i \in 1..n |-> [d \in Nat |-> IF takes(i) THEN 0 ELSE Deeper(d, lead(i))]]
<1>1. n \in Nat /\ \A i \in 1..n : lead(i) \in Int
  BY LeadAfterType
<1>2. Deficits(plays, team) = CHOOSE g : g = G(g)
  BY DEF Deficits
<1> HIDE DEF n, lead, takes
<1>3. step \in Loops(n, Nat)
  BY <1>1, DeeperType DEF Loops
<1>4. PICK f : IsLoop(f, n, Nat, 0, step)
  <2> HIDE DEF step
  <2> QED
    BY <1>1, <1>3, LoopsEnd, Zenon
<1>5. f \in [0..n -> Nat] /\ f[0] = 0 /\ \A i \in 1..n : f[i] = step[i][f[i - 1]]
  BY <1>4 DEF IsLoop
<1>6. ASSUME NEW i \in 1..n
      PROVE  f[i] = IF takes(i) THEN 0 ELSE Deeper(f[i - 1], lead(i))
  <2>1. f[i - 1] \in Nat
    BY <1>1, <1>5
  <2> QED
    BY <1>5, <2>1
<1>7. f = G(f)
  BY <1>1, <1>5, <1>6
<1>8. Deficits(plays, team) = G(Deficits(plays, team))
  <2> HIDE DEF G
  <2> QED
    BY <1>2, <1>7, Zenon
<1> DEFINE g == Deficits(plays, team)
<1>9. /\ g[0] = 0
      /\ \A i \in 1..n : g[i] = IF takes(i) THEN 0 ELSE Deeper(g[i - 1], lead(i))
  BY <1>1, <1>8
<1> DEFINE P == {j \in 0..n : g[j] \in Nat}
<1>10. 0 \in P
  BY <1>1, <1>9
<1>11. ASSUME NEW i \in 1..n, i - 1 \in P
       PROVE  i \in P
  <2>1. g[i - 1] \in Nat /\ lead(i) \in Int /\ i \in 0..n
    BY <1>1, <1>11
  <2>2. Deeper(g[i - 1], lead(i)) \in Nat
    BY <2>1, DeeperType
  <2>3. g[i] = IF takes(i) THEN 0 ELSE Deeper(g[i - 1], lead(i))
    BY <1>9
  <2> QED
    BY <2>1, <2>2, <2>3
<1> HIDE DEF P, g
<1>12. \A i \in 0..n : i \in P
  BY <1>1, <1>10, <1>11, UpTo
<1>13. \A i \in 0..n : g[i] \in Nat
  BY <1>12 DEF P
<1>14. g = G(g)
  BY <1>8 DEF g
<1>15. g \in [0..n -> Nat]
  BY <1>13, <1>14
<1> QED
  BY <1>9, <1>15 DEF g, n, lead, takes

Stats == [margin: Nat, clutch: [Players -> Nat]]

LEMMA NoStatsType == NoStats \in Stats
BY DEF NoStats, Stats

LEMMA CountType ==
  ASSUME NEW s \in Stats, NEW p \in Plays
  PROVE  Count(s, p) \in Stats
<1>1. CASE ~IsClutch(p)
  BY <1>1, LeadType DEF Count, Stats
<1>2. CASE IsClutch(p) /\ IsCredited(p)
  <2>1. p.player \in Players /\ p.points \in Nat
    BY <1>2 DEF IsCredited, Plays
  <2> DEFINE c == [s.clutch EXCEPT ![p.player] = @ + p.points]
  <2>2. c \in [Players -> Nat]
    BY <2>1 DEF Stats
  <2>3. Count(s, p) = [s EXCEPT !.clutch = c]
    BY <1>2 DEF Count, Stats
  <2> HIDE DEF c
  <2> QED
    BY <2>2, <2>3 DEF Stats
<1>3. CASE IsClutch(p) /\ ~IsCredited(p)
  BY <1>3 DEF Count
<1> QED
  BY <1>1, <1>2, <1>3

\* The statistics after each of the plays.
IsCounting(g, plays) ==
  /\ g \in [0..Len(plays) -> Stats] /\ g[0] = NoStats
  /\ \A i \in 1..Len(plays) : g[i] = Count(g[i - 1], plays[i])

LEMMA AggregateUnfold ==
  ASSUME NEW plays \in Seq(Plays), NEW box
  PROVE  \E g : /\ IsCounting(g, plays)
               /\ Aggregate(box, plays) =
                    [margin |-> g[Len(plays)].margin,
                     lines  |-> LinesOf(box, g[Len(plays)].clutch)]
<1> DEFINE n == Len(plays)
           G(g) == [i \in 0..n |-> IF i = 0 THEN NoStats ELSE Count(g[i - 1], plays[i])]
           step == [i \in 1..n |-> [s \in Stats |-> Count(s, plays[i])]]
           g == CHOOSE h : h = G(h)
<1>1. n \in Nat /\ \A i \in 1..n : plays[i] \in Plays
  OBVIOUS
<1>2. Aggregate(box, plays) = [margin |-> g[n].margin, lines |-> LinesOf(box, g[n].clutch)]
  BY DEF Aggregate
<1> HIDE DEF n
<1>3. step \in Loops(n, Stats)
  BY <1>1, CountType DEF Loops
<1>4. PICK f : IsLoop(f, n, Stats, NoStats, step)
  <2> HIDE DEF step
  <2> QED
    BY <1>1, <1>3, NoStatsType, LoopsEnd, Zenon
<1>5. f \in [0..n -> Stats] /\ f[0] = NoStats /\ \A i \in 1..n : f[i] = step[i][f[i - 1]]
  BY <1>4 DEF IsLoop
<1>6. ASSUME NEW i \in 1..n
      PROVE  f[i] = Count(f[i - 1], plays[i])
  <2>1. f[i - 1] \in Stats
    BY <1>1, <1>5
  <2> QED
    BY <1>5, <2>1
<1>7. f = G(f)
  BY <1>1, <1>5, <1>6
<1>8. g = G(g)
  <2> HIDE DEF G
  <2> QED
    BY <1>7, Zenon
<1> HIDE DEF g
<1>9. g[0] = NoStats /\ \A i \in 1..n : g[i] = Count(g[i - 1], plays[i])
  BY <1>1, <1>8
<1> DEFINE P == {j \in 0..n : g[j] \in Stats}
<1>10. 0 \in P
  BY <1>1, <1>9, NoStatsType
<1>11. \A i \in 1..n : i - 1 \in P => i \in P
  BY <1>1, <1>9, CountType
<1> HIDE DEF P
<1>12. \A i \in 0..n : i \in P
  BY <1>1, <1>10, <1>11, UpTo
<1>13. \A i \in 0..n : g[i] \in Stats
  BY <1>12 DEF P
<1>14. g \in [0..n -> Stats]
  BY <1>8, <1>13
<1> QED
  BY <1>2, <1>9, <1>14 DEF IsCounting, n

(****************************** The game so far **************************)

\* The plays of b are the first ones of a.
IsPrefixOf(b, a) ==
  b \in Seq(Plays) /\ a \in Seq(Plays) /\ Len(b) <= Len(a) /\ \A i \in 1..Len(b) : b[i] = a[i]

LEMMA SubSeqIsPrefix ==
  ASSUME NEW a \in Seq(Plays), NEW k \in 0..Len(a)
  PROVE  IsPrefixOf(SubSeq(a, 1, k), a) /\ Len(SubSeq(a, 1, k)) = k
BY DEF IsPrefixOf

LEMMA RunsOfPrefix ==
  ASSUME NEW a, NEW b, IsPrefixOf(b, a)
  PROVE  \A i \in 0..Len(b) : Runs(b)[i] = Runs(a)[i]
<1> DEFINE ra == Runs(a)
           rb == Runs(b)
           n == Len(b)
           P == {i \in 0..n : rb[i] = ra[i]}
<1>1. n \in Nat /\ Len(a) \in Nat /\ n <= Len(a) /\ \A i \in 1..n : b[i] = a[i]
  BY DEF IsPrefixOf
<1>2. ra[0] = NoRun /\ \A i \in 1..Len(a) : ra[i] = AfterPlay(ra[i - 1], a[i])
  BY RunsUnfold DEF IsPrefixOf
<1>3. rb[0] = NoRun /\ \A i \in 1..n : rb[i] = AfterPlay(rb[i - 1], b[i])
  BY RunsUnfold DEF IsPrefixOf
<1> HIDE DEF ra, rb, n
<1>4. 0 \in P
  BY <1>1, <1>2, <1>3
<1>5. \A i \in 1..n : i - 1 \in P => i \in P
  BY <1>1, <1>2, <1>3
<1> HIDE DEF P
<1>6. \A i \in 0..n : i \in P
  BY <1>1, <1>4, <1>5, UpTo
<1> QED
  BY <1>6 DEF P, ra, rb, n

LEMMA LeadsOfPrefix ==
  ASSUME NEW a, NEW b, IsPrefixOf(b, a), NEW t
  PROVE  /\ \A i \in 0..Len(b) : LeadAfter(b, t, i) = LeadAfter(a, t, i)
         /\ \A i \in 1..Len(b) : TakesLead(b, t, i) = TakesLead(a, t, i)
<1>1. Len(b) \in Nat /\ \A i \in 1..Len(b) : b[i] = a[i]
  BY DEF IsPrefixOf
<1>2. \A i \in 0..Len(b) : LeadAfter(b, t, i) = LeadAfter(a, t, i)
  BY <1>1 DEF LeadAfter
<1>3. ASSUME NEW i \in 1..Len(b)
      PROVE  TakesLead(b, t, i) = TakesLead(a, t, i)
  <2>1. i \in 0..Len(b) /\ i - 1 \in 0..Len(b)
    BY <1>1
  <2>2. LeadAfter(b, t, i) = LeadAfter(a, t, i) /\ LeadAfter(b, t, i - 1) = LeadAfter(a, t, i - 1)
    BY <1>2, <2>1
  <2> QED
    BY <2>2 DEF TakesLead
<1> QED
  BY <1>2, <1>3

LEMMA DeficitsOfPrefix ==
  ASSUME NEW a, NEW b, IsPrefixOf(b, a), NEW t
  PROVE  \A i \in 0..Len(b) : Deficits(b, t)[i] = Deficits(a, t)[i]
<1> DEFINE da == Deficits(a, t)
           db == Deficits(b, t)
           n == Len(b)
           P == {i \in 0..n : db[i] = da[i]}
<1>1. n \in Nat /\ Len(a) \in Nat /\ n <= Len(a)
  BY DEF IsPrefixOf
<1>2. /\ da[0] = 0
      /\ \A i \in 1..Len(a) : da[i] = IF TakesLead(a, t, i) THEN 0
                                      ELSE Deeper(da[i - 1], LeadAfter(a, t, i))
  BY DeficitsUnfold DEF IsPrefixOf
<1>3. /\ db[0] = 0
      /\ \A i \in 1..n : db[i] = IF TakesLead(b, t, i) THEN 0
                                 ELSE Deeper(db[i - 1], LeadAfter(b, t, i))
  BY DeficitsUnfold DEF IsPrefixOf
<1>4. \A i \in 1..n : /\ LeadAfter(b, t, i) = LeadAfter(a, t, i)
                      /\ TakesLead(b, t, i) = TakesLead(a, t, i)
  BY <1>1, LeadsOfPrefix
<1> HIDE DEF da, db, n
<1>5. 0 \in P
  BY <1>1, <1>2, <1>3
<1>6. ASSUME NEW i \in 1..n, i - 1 \in P
      PROVE  i \in P
  <2>1. i \in 1..Len(a) /\ i \in 0..n /\ db[i - 1] = da[i - 1]
    BY <1>1, <1>6
  <2>2. db[i] = IF TakesLead(b, t, i) THEN 0 ELSE Deeper(db[i - 1], LeadAfter(b, t, i))
    BY <1>3
  <2>3. da[i] = IF TakesLead(a, t, i) THEN 0 ELSE Deeper(da[i - 1], LeadAfter(a, t, i))
    BY <1>2, <2>1
  <2> QED
    BY <1>4, <2>1, <2>2, <2>3, Zenon
<1> HIDE DEF P
<1>7. \A i \in 0..n : i \in P
  BY <1>1, <1>5, <1>6, UpTo
<1> QED
  BY <1>7 DEF P, da, db, n

\* What the plays so far show, more plays show as well, at the same plays.
LEMMA DetectGrows ==
  ASSUME NEW a, NEW b, IsPrefixOf(b, a)
  PROVE  Detect(b) \subseteq Detect(a)
<1>1. /\ Len(b) \in Nat /\ Len(a) \in Nat /\ Len(b) <= Len(a)
      /\ DOMAIN b = 1..Len(b) /\ DOMAIN a = 1..Len(a)
      /\ \A i \in 1..Len(b) : b[i] = a[i]
  BY DEF IsPrefixOf
<1>2. ASSUME NEW e \in DetectRuns(b)
      PROVE  e \in DetectRuns(a)
  <2>1. PICK i \in 1..Len(b) : /\ ReportsRun(Runs(b)[i - 1], b[i])
                               /\ e = EventAt("run", i, Runs(b)[i].team)
    BY <1>1, <1>2 DEF DetectRuns
  <2>2. i \in 0..Len(b) /\ i - 1 \in 0..Len(b) /\ i \in 1..Len(a)
    BY <1>1
  <2>3. Runs(b)[i] = Runs(a)[i] /\ Runs(b)[i - 1] = Runs(a)[i - 1] /\ b[i] = a[i]
    BY <1>1, <2>2, RunsOfPrefix
  <2>4. ReportsRun(Runs(a)[i - 1], a[i]) /\ e = EventAt("run", i, Runs(a)[i].team)
    BY <2>1, <2>3
  <2> QED
    BY <1>1, <2>2, <2>4 DEF DetectRuns
<1>3. ASSUME NEW e \in DetectComebacks(b)
      PROVE  e \in DetectComebacks(a)
  <2>1. PICK i \in 1..Len(b), t \in Teams :
          ComesBack(b, t, i) /\ e = EventAt("lead_change", i, t)
    BY <1>1, <1>3 DEF DetectComebacks
  <2>2. i \in 0..Len(b) /\ i - 1 \in 0..Len(b) /\ i \in 1..Len(a)
    BY <1>1
  <2>3. /\ TakesLead(b, t, i) = TakesLead(a, t, i)
        /\ LeadAfter(b, t, i) = LeadAfter(a, t, i)
        /\ Deficits(b, t)[i - 1] = Deficits(a, t)[i - 1]
    BY <2>2, LeadsOfPrefix, DeficitsOfPrefix
  <2>4. ComesBack(a, t, i)
    BY <2>1, <2>3 DEF ComesBack
  <2> QED
    BY <1>1, <2>1, <2>2, <2>4 DEF DetectComebacks
<1>4. ASSUME NEW e \in DetectCloseFinish(b)
      PROVE  e \in DetectCloseFinish(a)
  <2>1. PICK i \in 1..Len(b) : /\ e = EventAt("close_finish", i, "none")
                               /\ IsClose(b[i]) /\ \A k \in 1..(i - 1) : ~IsClose(b[k])
    BY <1>1, <1>4 DEF DetectCloseFinish
  <2>2. /\ i \in 1..Len(a) /\ b[i] = a[i]
        /\ \A k \in 1..(i - 1) : k \in 1..Len(b) /\ b[k] = a[k]
    BY <1>1
  <2>3. IsClose(a[i]) /\ \A k \in 1..(i - 1) : ~IsClose(a[k])
    BY <2>1, <2>2
  <2> QED
    BY <1>1, <2>1, <2>2, <2>3 DEF DetectCloseFinish
<1> QED
  BY <1>2, <1>3, <1>4 DEF Detect

\* The kind and the play of an event say which one it is: one team at most takes the
\* lead at a play.
LEMMA EventsAreIdentified ==
  ASSUME NEW a \in Seq(Plays), NEW e \in Detect(a), NEW s \in Detect(a),
         e.kind = s.kind, e.play = s.play
  PROVE  e = s
<1>1. DOMAIN a = 1..Len(a)
  OBVIOUS
<1>2. \A x \in DetectRuns(a) :
        x.kind = "run" /\ x = EventAt("run", x.play, Runs(a)[x.play].team)
  BY <1>1 DEF DetectRuns, EventAt
<1>3. \A x \in DetectComebacks(a) :
        /\ x.kind = "lead_change" /\ x.play \in 1..Len(a) /\ x.team \in Teams
        /\ x = EventAt("lead_change", x.play, x.team) /\ TakesLead(a, x.team, x.play)
  BY <1>1 DEF DetectComebacks, EventAt, ComesBack
<1>4. \A x \in DetectCloseFinish(a) :
        x.kind = "close_finish" /\ x = EventAt("close_finish", x.play, "none")
  BY <1>1 DEF DetectCloseFinish, EventAt
<1>5. CASE e \in DetectRuns(a)
  <2>1. s \in DetectRuns(a)
    BY <1>2, <1>3, <1>4, <1>5 DEF Detect
  <2> QED
    BY <1>2, <1>5, <2>1
<1>6. CASE e \in DetectComebacks(a)
  <2>1. s \in DetectComebacks(a)
    BY <1>2, <1>3, <1>4, <1>6 DEF Detect
  <2>2. a[e.play] \in Plays /\ e.play # 0
    BY <1>3, <1>6
  <2>3. LeadOf(e.team, a[e.play]) > 0 /\ LeadOf(s.team, a[e.play]) > 0
    BY <1>3, <1>6, <2>1, <2>2 DEF TakesLead, LeadAfter
  <2>4. Lead(a[e.play]) \in Int
    BY <2>2, LeadType
  <2>5. e.team = s.team
    BY <1>3, <1>6, <2>1, <2>3, <2>4 DEF LeadOf, Teams
  <2> QED
    BY <1>3, <1>6, <2>1, <2>5
<1>7. CASE e \in DetectCloseFinish(a)
  <2>1. s \in DetectCloseFinish(a)
    BY <1>2, <1>3, <1>4, <1>7 DEF Detect
  <2> QED
    BY <1>4, <1>7, <2>1
<1> QED
  BY <1>5, <1>6, <1>7 DEF Detect

(******************************** The game *******************************)

Gains(p, t) == IF p.team = t THEN p.points ELSE 0

IsOfTeam(p) == p.player # Nobody => p.player \in Players /\ TeamOf[p.player] = p.team

\* A play with no team counts nothing, who makes a basket plays for the team of it,
\* scores add up, and periods do not go back.
IsGame(plays) ==
  /\ plays \in Seq(Plays)
  /\ \A i \in 1..Len(plays) : plays[i].points = 0 <=> plays[i].team = "none"
  /\ \A i \in 1..Len(plays) : IsOfTeam(plays[i])
  /\ \A i \in 1..Len(plays), t \in Teams :
       plays[i].score[t] = (IF i = 1 THEN 0 ELSE plays[i - 1].score[t]) + Gains(plays[i], t)
  /\ \A i, j \in 1..Len(plays) : i <= j => plays[i].period <= plays[j].period

FeedInv == IsGame(feed) /\ heard \in 0..Len(feed)

LEMMA GameType ==
  ASSUME NEW plays, IsGame(plays)
  PROVE  /\ plays \in Seq(Plays) /\ Len(plays) \in Nat /\ DOMAIN plays = 1..Len(plays)
         /\ plays = <<>> <=> Len(plays) = 0
         /\ \A i \in 1..Len(plays) :
              /\ plays[i] \in Plays /\ plays[i].points \in Nat /\ plays[i].period \in Nat
              /\ plays[i].team \in Teams \cup {"none"}
              /\ plays[i].points = 0 <=> plays[i].team = "none"
              /\ \A t \in Teams : plays[i].score[t] \in Nat
<1>1. plays \in Seq(Plays) /\ \A i \in 1..Len(plays) : plays[i].points = 0 <=> plays[i].team = "none"
  BY DEF IsGame
<1>2. /\ Len(plays) \in Nat /\ DOMAIN plays = 1..Len(plays) /\ (plays = <<>> <=> Len(plays) = 0)
      /\ \A i \in 1..Len(plays) : plays[i] \in Plays
  BY <1>1
<1>3. ASSUME NEW p \in Plays
      PROVE  /\ p.points \in Nat /\ p.period \in Nat /\ p.team \in Teams \cup {"none"}
             /\ \A t \in Teams : p.score[t] \in Nat
  BY DEF Plays, Scores
<1> QED
  BY <1>1, <1>2, <1>3

LEMMA ScoreType ==
  ASSUME feed \in Seq(Plays)
  PROVE  /\ Score \in Scores
         /\ feed # <<>> => Score = feed[Len(feed)].score
         /\ feed = <<>> => \A t \in Teams : Score[t] = 0
<1>1. CASE feed = <<>>
  BY <1>1 DEF Score, Scores
<1>2. CASE feed # <<>>
  <2>1. Len(feed) \in 1..Len(feed) /\ feed[Len(feed)] \in Plays
    BY <1>2
  <2> QED
    BY <1>2, <2>1 DEF Score, Last, Plays
<1> QED
  BY <1>1, <1>2

\* What a new play is like.
Continues(p) ==
  /\ p \in Plays
  /\ p.points = 0 <=> p.team = "none"
  /\ IsOfTeam(p)
  /\ \A t \in Teams : p.score[t] = Score[t] + Gains(p, t)
  /\ feed # <<>> => feed[Len(feed)].period <= p.period

LEMMA PlaysContinue ==
  ASSUME feed \in Seq(Plays), PlayHappens
  PROVE  \E p : Continues(p) /\ feed' = Append(feed, p) /\ heard' = heard /\ saved' = saved
<1>1. PICK points \in Points, phase \in {q \in Phases : Follows(q)} :
        \E team \in (IF points = 0 THEN {"none"} ELSE Teams) :
        \E player \in {Nobody} \cup {q \in Players : TeamOf[q] = team} :
          feed' = Append(feed,
            [team |-> team, player |-> player, points |-> points,
             period |-> phase[1], remaining |-> phase[2],
             score |-> [t \in Teams |-> Score[t] + (IF t = team THEN points ELSE 0)]])
  BY DEF PlayHappens
<1>2. PICK team \in (IF points = 0 THEN {"none"} ELSE Teams) :
        \E player \in {Nobody} \cup {q \in Players : TeamOf[q] = team} :
          feed' = Append(feed,
            [team |-> team, player |-> player, points |-> points,
             period |-> phase[1], remaining |-> phase[2],
             score |-> [t \in Teams |-> Score[t] + (IF t = team THEN points ELSE 0)]])
  BY <1>1
<1>10. PICK player \in {Nobody} \cup {q \in Players : TeamOf[q] = team} :
          feed' = Append(feed,
            [team |-> team, player |-> player, points |-> points,
             period |-> phase[1], remaining |-> phase[2],
             score |-> [t \in Teams |-> Score[t] + (IF t = team THEN points ELSE 0)]])
  BY <1>2
<1> DEFINE score == [t \in Teams |-> Score[t] + (IF t = team THEN points ELSE 0)]
           p == [team |-> team, player |-> player, points |-> points,
                 period |-> phase[1], remaining |-> phase[2], score |-> score]
<1>3. points \in Nat /\ phase[1] \in Nat /\ phase[2] \in Nat
  BY DetectorAssumption
<1>4. team \in Teams \cup {"none"} /\ (points = 0 <=> team = "none")
  BY DEF Teams
<1>5. score \in Scores
  BY <1>3, ScoreType DEF Scores
<1>6. feed # <<>> => feed[Len(feed)].period <= phase[1]
  <2>1. ASSUME feed # <<>>
        PROVE  feed[Len(feed)].period <= phase[1]
    <3>1. feed[Len(feed)] \in Plays
      BY <2>1
    <3>2. Follows(phase)
      OBVIOUS
    <3> QED
      BY <1>3, <2>1, <3>1, <3>2 DEF Follows, Last, Plays
  <2> QED
    BY <2>1
<1>7. \A t \in Teams : score[t] = Score[t] + (IF team = t THEN points ELSE 0)
  OBVIOUS
<1> HIDE DEF score
<1>8. Continues(p)
  BY <1>3, <1>4, <1>5, <1>6, <1>7 DEF Continues, Plays, Gains, IsOfTeam
<1>9. feed' = Append(feed, p)
  BY <1>10 DEF score
<1> QED
  BY <1>8, <1>9 DEF PlayHappens

LEMMA GamesGoOn ==
  ASSUME IsGame(feed), NEW p, Continues(p), NEW next, next = Append(feed, p)
  PROVE  IsGame(next)
<1> DEFINE n == Len(feed)
<1>1. n \in Nat /\ feed \in Seq(Plays) /\ p \in Plays
  BY DEF IsGame, Continues
<1>2. /\ next \in Seq(Plays) /\ Len(next) = n + 1 /\ next[n + 1] = p
      /\ \A i \in 1..n : next[i] = feed[i] /\ feed[i] \in Plays
  BY <1>1
<1>3. \A i \in 1..(n + 1) : i \in 1..n \/ i = n + 1
  BY <1>1
<1>4. feed = <<>> <=> n = 0
  BY <1>1
<1> HIDE DEF n
<1>5. ASSUME NEW i \in 1..(n + 1)
      PROVE  (next[i].points = 0 <=> next[i].team = "none") /\ IsOfTeam(next[i])
  BY <1>1, <1>2, <1>3 DEF IsGame, Continues, n
<1>6. ASSUME NEW i \in 1..(n + 1), NEW t \in Teams
      PROVE  next[i].score[t] = (IF i = 1 THEN 0 ELSE next[i - 1].score[t]) + Gains(next[i], t)
  <2>1. CASE i \in 1..n
    <3>1. i # 1 => i - 1 \in 1..n
      BY <1>1, <2>1
    <3>2. feed[i].score[t] = (IF i = 1 THEN 0 ELSE feed[i - 1].score[t]) + Gains(feed[i], t)
      BY <2>1 DEF IsGame, n
    <3> QED
      BY <1>2, <2>1, <3>1, <3>2
  <2>2. CASE i = n + 1
    <3>1. next[i] = p /\ p.score[t] = Score[t] + Gains(p, t)
      BY <1>2, <2>2 DEF Continues
    <3>2. CASE i = 1
      <4>1. Score[t] = 0
        BY <1>1, <1>4, <2>2, <3>2, ScoreType
      <4> QED
        BY <3>1, <3>2, <4>1
    <3>3. CASE i # 1
      <4>1. n \in 1..n /\ i - 1 = n /\ feed # <<>>
        BY <1>1, <1>4, <2>2, <3>3
      <4>2. Score = feed[n].score
        BY <1>1, <4>1, ScoreType DEF n
      <4>3. next[i - 1] = feed[n]
        BY <1>2, <4>1
      <4> QED
        BY <3>1, <3>3, <4>2, <4>3
    <3> QED
      BY <3>2, <3>3
  <2> QED
    BY <1>3, <2>1, <2>2
<1>7. ASSUME NEW i \in 1..(n + 1), NEW j \in 1..(n + 1), i <= j
      PROVE  next[i].period <= next[j].period
  <2>1. CASE j \in 1..n
    <3>1. i \in 1..n
      BY <1>1, <1>7, <2>1
    <3> QED
      BY <1>2, <1>7, <2>1, <3>1 DEF IsGame, n
  <2>2. CASE j = n + 1 /\ i \in 1..n
    <3>1. n \in 1..n /\ i <= n /\ feed # <<>>
      BY <1>1, <1>4, <2>2
    <3>2. feed[i].period <= feed[n].period
      BY <2>2, <3>1 DEF IsGame, n
    <3>3. feed[n].period <= p.period
      BY <3>1 DEF Continues, n
    <3>4. feed[i].period \in Nat /\ feed[n].period \in Nat /\ p.period \in Nat
      BY <1>1, <1>2, <2>2, <3>1 DEF Plays
    <3> QED
      BY <1>2, <2>2, <3>2, <3>3, <3>4
  <2>3. CASE j = n + 1 /\ i = n + 1
    BY <1>1, <1>2, <2>3 DEF Plays
  <2> QED
    BY <1>3, <2>1, <2>2, <2>3
<1> QED
  BY <1>2, <1>5, <1>6, <1>7 DEF IsGame

LEMMA FeedStarts == Init => FeedInv
BY DEF Init, FeedInv, IsGame

LEMMA FeedStep == FeedInv /\ [Next]_vars => FeedInv'
<1> SUFFICES ASSUME FeedInv, [Next]_vars
             PROVE  FeedInv'
  OBVIOUS
<1>1. feed \in Seq(Plays) /\ Len(feed) \in Nat /\ heard \in 0..Len(feed) /\ IsGame(feed)
  BY DEF FeedInv, IsGame
<1>2. CASE PlayHappens
  <2>1. PICK p : Continues(p) /\ feed' = Append(feed, p) /\ heard' = heard
    BY <1>1, <1>2, PlaysContinue
  <2>2. \A next : next = Append(feed, p) => IsGame(next)
    BY <1>1, <2>1, GamesGoOn
  <2>3. IsGame(feed')
    BY <2>1, <2>2, Zenon
  <2>4. Len(feed') = Len(feed) + 1
    BY <1>1, <2>1 DEF Continues
  <2> QED
    BY <1>1, <2>1, <2>3, <2>4 DEF FeedInv, IsGame
<1>3. CASE Poll
  BY <1>1, <1>3 DEF Poll, FeedInv, IsGame
<1>4. CASE UNCHANGED vars
  BY <1>4 DEF vars, FeedInv, IsGame
<1> QED
  BY <1>2, <1>3, <1>4 DEF Next

\* Every play of the feed is one of a game, and what the watcher has merged is of them.
THEOREM FeedsAreGames == Spec => []FeedInv
<1> QED
  BY FeedStarts, FeedStep, PTL DEF Spec

\* However a game was cut into polls, what was saved are the events of all its plays.
PollsInv == FeedInv /\ PollsDoNotShow

LEMMA NothingToShow == Detect(<<>>) = {}
<1>1. DOMAIN <<>> = {}
  OBVIOUS
<1> QED
  BY <1>1 DEF Detect, DetectRuns, DetectComebacks, DetectCloseFinish

LEMMA PollsStart == Init => PollsInv
<1>1. ASSUME Init
      PROVE  PollsInv
  <2>1. feed = <<>> /\ heard = 0 /\ saved = {}
    BY <1>1 DEF Init
  <2>2. SubSeq(feed, 1, heard) = <<>>
    BY <2>1
  <2> QED
    BY <1>1, <2>1, <2>2, NothingToShow, FeedStarts DEF PollsInv, PollsDoNotShow
<1> QED
  BY <1>1

LEMMA PollsStep == PollsInv /\ [Next]_vars => PollsInv'
<1> SUFFICES ASSUME PollsInv, [Next]_vars
             PROVE  PollsInv'
  OBVIOUS
<1>1. FeedInv /\ saved = Detect(SubSeq(feed, 1, heard))
  BY DEF PollsInv, PollsDoNotShow
<1>2. feed \in Seq(Plays) /\ Len(feed) \in Nat /\ heard \in 0..Len(feed)
  BY <1>1 DEF FeedInv, IsGame
<1>3. FeedInv'
  BY <1>1, FeedStep
<1>4. CASE PlayHappens
  <2>1. PICK p : Continues(p) /\ feed' = Append(feed, p) /\ heard' = heard /\ saved' = saved
    BY <1>2, <1>4, PlaysContinue
  <2>2. p \in Plays
    BY <2>1 DEF Continues
  <2>3. SubSeq(feed', 1, heard) = SubSeq(feed, 1, heard)
    BY <1>2, <2>1, <2>2
  <2> QED
    BY <1>1, <1>3, <2>1, <2>3 DEF PollsInv, PollsDoNotShow
<1>5. CASE Poll
  <2>1. heard' = Len(feed) /\ feed' = feed /\ saved' = saved \cup Unsaved(Detect(feed))
    BY <1>5 DEF Poll
  <2>2. SubSeq(feed, 1, Len(feed)) = feed
    BY <1>2
  <2>3. saved \subseteq Detect(feed)
    BY <1>1, <1>2, SubSeqIsPrefix, DetectGrows
  <2>4. ASSUME NEW e \in Detect(feed), e \notin Unsaved(Detect(feed))
        PROVE  e \in saved
    <3>1. PICK s \in saved : <<s.kind, s.play>> = <<e.kind, e.play>>
      BY <2>4 DEF Unsaved
    <3>2. s.kind = e.kind /\ s.play = e.play /\ s \in Detect(feed)
      BY <2>3, <3>1
    <3>3. s = e
      BY <1>2, <3>2, EventsAreIdentified
    <3> QED
      BY <3>3
  <2>5. saved' = Detect(feed)
    BY <2>1, <2>3, <2>4 DEF Unsaved
  <2> QED
    BY <1>3, <2>1, <2>2, <2>5 DEF PollsInv, PollsDoNotShow
<1>6. CASE UNCHANGED vars
  BY <1>1, <1>3, <1>6 DEF vars, PollsInv, PollsDoNotShow
<1> QED
  BY <1>4, <1>5, <1>6 DEF Next

\* However the polls cut a game, saved is what all the plays heard show at once: no
\* poll finds again, at another play or with another team, what an earlier one saved.
THEOREM PollsAreInvisible == Spec => []PollsDoNotShow
<1>1. PollsInv => PollsDoNotShow
  BY DEF PollsInv
<1> QED
  BY <1>1, PollsStart, PollsStep, PTL DEF Spec

(******************************* Statistics ******************************)

LEMMA MaxIsThere ==
  ASSUME NEW n \in Nat, NEW S, S \subseteq 1..n, S # {}
  PROVE  Max(S) \in S /\ \A y \in S : y <= Max(S)
<1> DEFINE Some(k) == (\A y \in S : y > k) \/ \E x \in S : \A y \in S : y <= k => y <= x
           P == {k \in 0..n : Some(k)}
<1>1. 0 \in P
  OBVIOUS
<1>2. ASSUME NEW k \in 1..n, k - 1 \in P
      PROVE  k \in P
  <2>1. k - 1 \in 0..n /\ \A y \in S : y \in Nat /\ (y <= k => y <= k - 1 \/ y = k)
    OBVIOUS
  <2>2. CASE k \in S
    <3>1. Some(k)
      BY <2>2
    <3> QED
      BY <3>1
  <2>3. CASE k \notin S
    <3>1. Some(k - 1)
      BY <1>2
    <3>2. Some(k)
      BY <2>1, <2>3, <3>1
    <3> QED
      BY <3>2
  <2> QED
    BY <2>2, <2>3
<1> HIDE DEF P
<1>3. \A k \in 0..n : k \in P
  BY <1>1, <1>2, UpTo
<1>4. n \in P
  BY <1>3
<1>5. Some(n)
  BY <1>4 DEF P
<1>6. \A y \in S : y \in Nat /\ y <= n
  OBVIOUS
<1>7. \E x \in S : \A y \in S : x >= y
  <2>1. PICK z : z \in S
    OBVIOUS
  <2>2. z \in Nat /\ z <= n
    BY <1>6, <2>1
  <2>3. ~(\A y \in S : y > n)
    BY <2>1, <2>2
  <2>4. PICK x \in S : \A y \in S : y <= n => y <= x
    BY <1>5, <2>3
  <2>5. \A y \in S : x >= y
    BY <1>6, <2>4
  <2> QED
    BY <2>5
<1> QED
  BY <1>7 DEF Max

LEMMA ScoresAreKept ==
  ASSUME IsGame(feed), NEW t \in Teams
  PROVE  /\ ScoreAt(t, 0) = 0
         /\ \A i \in 0..Len(feed) : ScoreAt(t, i) \in Nat
         /\ \A i \in 1..Len(feed) :
              /\ ScoreAt(t, i) = ScoreAt(t, i - 1) + Gains(feed[i], t)
              /\ feed[i].score[t] = ScoreAt(t, i)
         /\ Score[t] = ScoreAt(t, Len(feed))
<1>1. feed \in Seq(Plays) /\ Len(feed) \in Nat /\ (feed = <<>> <=> Len(feed) = 0)
  BY DEF IsGame
<1>2. \A i \in 1..Len(feed) : feed[i] \in Plays /\ feed[i].score[t] \in Nat
  BY GameType
<1>3. ASSUME NEW i \in 1..Len(feed)
      PROVE  ScoreAt(t, i) = ScoreAt(t, i - 1) + Gains(feed[i], t)
  <2>1. feed[i].score[t] = (IF i = 1 THEN 0 ELSE feed[i - 1].score[t]) + Gains(feed[i], t)
    BY DEF IsGame
  <2> QED
    BY <1>1, <2>1 DEF ScoreAt
<1>4. Score[t] = ScoreAt(t, Len(feed))
  BY <1>1, ScoreType DEF ScoreAt
<1> QED
  BY <1>1, <1>2, <1>3, <1>4 DEF ScoreAt

\* The last play before the clutch, or 0: all up to it are before the clutch, and none after.
LEMMA ClutchStarts ==
  ASSUME IsGame(feed)
  PROVE  \E c \in 0..Len(feed) :
           /\ \A i \in 1..Len(feed) : IsClutch(feed[i]) <=> i > c
           /\ \A t \in Teams : ScoreBefore[t] = ScoreAt(t, c)
<1> DEFINE n == Len(feed)
<1>1. n \in Nat /\ DOMAIN feed = 1..n /\ \A i \in 1..n : feed[i].period \in Nat
  BY GameType
<1>2. ClutchFromPeriod \in Nat
  BY RulesType
<1>3. \A i \in 1..n : IsClutch(feed[i]) <=> i \notin BeforeClutch
  BY <1>1, <1>2 DEF IsClutch, BeforeClutch
<1>4. CASE BeforeClutch = {}
  <2>1. \A i \in 1..n : IsClutch(feed[i]) <=> i > 0
    BY <1>1, <1>3, <1>4
  <2>2. \A t \in Teams : ScoreBefore[t] = ScoreAt(t, 0)
    BY <1>4 DEF ScoreBefore, ScoreAt
  <2> QED
    BY <1>1, <2>1, <2>2
<1>5. CASE BeforeClutch # {}
  <2> DEFINE c == Max(BeforeClutch)
  <2>1. BeforeClutch \subseteq 1..n
    BY <1>1 DEF BeforeClutch
  <2>2. c \in BeforeClutch /\ \A i \in BeforeClutch : i <= c
    BY <1>1, <1>5, <2>1, MaxIsThere
  <2>3. ScoreBefore = feed[c].score
    BY <1>5 DEF ScoreBefore
  <2> HIDE DEF c
  <2>4. ASSUME NEW i \in 1..n, i <= c
        PROVE  i \in BeforeClutch
    <3>1. feed[i].period <= feed[c].period /\ feed[c].period < ClutchFromPeriod
      BY <2>1, <2>2, <2>4 DEF IsGame, BeforeClutch
    <3>2. feed[i].period < ClutchFromPeriod
      BY <1>1, <1>2, <2>1, <2>2, <3>1
    <3> QED
      BY <1>1, <3>2 DEF BeforeClutch
  <2>5. \A i \in 1..n : IsClutch(feed[i]) <=> i > c
    BY <1>1, <1>3, <2>1, <2>2, <2>4
  <2>6. c \in 0..n /\ c # 0
    BY <1>1, <2>1, <2>2
  <2>7. \A t \in Teams : ScoreBefore[t] = ScoreAt(t, c)
    BY <2>3, <2>6 DEF ScoreAt
  <2> QED
    BY <2>5, <2>6, <2>7
<1> QED
  BY <1>4, <1>5

(* The lines of a box score *)

Credits == [Players -> Nat]

IsBox(box) ==
  box \in Seq(Players) /\ \A i, j \in DOMAIN box : box[i] = box[j] => i = j

\* What a line adds to the total of a team.
Adds(box, clutch, t, k) == IF TeamOf[box[k]] = t THEN clutch[box[k]] ELSE 0

Total(box, clutch, t) == PointsOfLines(LinesOf(box, clutch), t)

IsSumming(f, box, clutch, t) ==
  /\ f \in [0..Len(box) -> Nat] /\ f[0] = 0
  /\ \A k \in 1..Len(box) : f[k] = f[k - 1] + Adds(box, clutch, t, k)

LEMMA TotalUnfold ==
  ASSUME NEW box, IsBox(box), NEW clutch \in Credits, NEW t
  PROVE  \E f : IsSumming(f, box, clutch, t) /\ Total(box, clutch, t) = f[Len(box)]
<1> DEFINE n == Len(box)
           a(k) == Adds(box, clutch, t, k)
           G(g) == [k \in 0..n |-> IF k = 0 THEN 0 ELSE g[k - 1] + a(k)]
           step == [k \in 1..n |-> [m \in Nat |-> m + a(k)]]
           g == CHOOSE h : h = G(h)
           lines == LinesOf(box, clutch)
<1>1. /\ box \in Seq(Players) /\ n \in Nat /\ DOMAIN box = 1..n
      /\ \A k \in 1..n : box[k] \in Players
  BY DEF IsBox
<1>2. \A k \in 1..n : a(k) \in Nat
  BY <1>1 DEF Adds, Credits
<1>3. Total(box, clutch, t) = g[n]
  <2>1. Len(lines) = n /\ \A k \in 1..n : /\ lines[k].player = box[k]
                                         /\ lines[k].clutch = clutch[box[k]]
    BY <1>1 DEF LinesOf
  <2> DEFINE F(h) == [k \in 0..n |-> IF k = 0 THEN 0
                        ELSE h[k - 1] + (IF TeamOf[lines[k].player] = t
                                         THEN lines[k].clutch ELSE 0)]
  <2>2. ASSUME NEW h
        PROVE  F(h) = G(h)
    BY <1>1, <2>1 DEF Adds
  <2>3. PointsOfLines(lines, t) = (CHOOSE h : h = F(h))[n]
    BY <2>1 DEF PointsOfLines
  <2> HIDE DEF F, G, lines, n
  <2>4. (CHOOSE h : h = F(h)) = (CHOOSE h : h = G(h))
    BY <2>2
  <2> QED
    BY <2>3, <2>4 DEF Total, lines
<1> HIDE DEF n, a
<1>4. step \in Loops(n, Nat)
  BY <1>1, <1>2 DEF Loops
<1>5. PICK f : IsLoop(f, n, Nat, 0, step)
  <2> HIDE DEF step
  <2> QED
    BY <1>1, <1>4, LoopsEnd, Zenon
<1>6. f \in [0..n -> Nat] /\ f[0] = 0 /\ \A k \in 1..n : f[k] = step[k][f[k - 1]]
  BY <1>5 DEF IsLoop
<1>7. ASSUME NEW k \in 1..n
      PROVE  f[k] = f[k - 1] + a(k)
  <2>1. f[k - 1] \in Nat
    BY <1>1, <1>6
  <2> QED
    BY <1>6, <2>1
<1>8. f = G(f)
  BY <1>1, <1>6, <1>7
<1>9. g = G(g)
  <2> HIDE DEF G
  <2> QED
    BY <1>8, Zenon
<1> HIDE DEF g
<1>10. g[0] = 0 /\ \A k \in 1..n : g[k] = g[k - 1] + a(k)
  BY <1>1, <1>9
<1> DEFINE P == {k \in 0..n : g[k] \in Nat}
<1>11. 0 \in P
  BY <1>1, <1>10
<1>12. \A k \in 1..n : k - 1 \in P => k \in P
  BY <1>1, <1>2, <1>10
<1> HIDE DEF P
<1>13. \A k \in 0..n : k \in P
  BY <1>1, <1>11, <1>12, UpTo
<1>14. g \in [0..n -> Nat]
  <2>1. \A k \in 0..n : g[k] \in Nat
    BY <1>13 DEF P
  <2> QED
    BY <1>9, <2>1
<1> QED
  BY <1>3, <1>10, <1>14 DEF IsSumming, n, a

LEMMA NobodyHasPoints ==
  ASSUME NEW box, IsBox(box), NEW t
  PROVE  Total(box, NoStats.clutch, t) = 0
<1> DEFINE n == Len(box)
           none == NoStats.clutch
<1>1. n \in Nat /\ none \in Credits /\ \A k \in 1..n : box[k] \in Players
  BY DEF IsBox, NoStats, Credits
<1>2. PICK f : IsSumming(f, box, none, t) /\ Total(box, none, t) = f[n]
  BY <1>1, TotalUnfold
<1>3. \A k \in 1..n : Adds(box, none, t, k) = 0
  BY <1>1 DEF Adds, NoStats
<1>4. f[0] = 0 /\ \A k \in 1..n : f[k] = f[k - 1] + Adds(box, none, t, k)
  BY <1>2 DEF IsSumming
<1> HIDE DEF n, none
<1> DEFINE P == {k \in 0..n : f[k] = 0}
<1>5. 0 \in P
  BY <1>1, <1>4
<1>6. \A k \in 1..n : k - 1 \in P => k \in P
  BY <1>1, <1>3, <1>4
<1> HIDE DEF P
<1>7. \A k \in 0..n : k \in P
  BY <1>1, <1>5, <1>6, UpTo
<1> QED
  BY <1>1, <1>2, <1>7 DEF P, n, none

\* Points credited to a player are in the total of the team of the player, once, when
\* the player has a line, and in no other.
LEMMA TotalsGrow ==
  ASSUME NEW box, IsBox(box), NEW c \in Credits, NEW q \in Players, NEW m \in Nat, NEW t
  PROVE  /\ Total(box, c, t) \in Nat
         /\ Total(box, [c EXCEPT ![q] = @ + m], t) =
              Total(box, c, t) + (IF q \in Range(box) /\ TeamOf[q] = t THEN m ELSE 0)
<1> DEFINE n == Len(box)
           d == [c EXCEPT ![q] = @ + m]
<1>1. /\ n \in Nat /\ DOMAIN box = 1..n /\ \A k \in 1..n : box[k] \in Players
      /\ \A i, j \in 1..n : box[i] = box[j] => i = j
  BY DEF IsBox
<1>2. d \in Credits /\ d[q] = c[q] + m /\ c[q] \in Nat /\ \A r \in Players : r # q => d[r] = c[r]
  BY DEF Credits
<1>3. PICK f : IsSumming(f, box, c, t) /\ Total(box, c, t) = f[n]
  BY TotalUnfold
<1> HIDE DEF d
<1>4. PICK g : IsSumming(g, box, d, t) /\ Total(box, d, t) = g[n]
  BY <1>2, TotalUnfold
<1>5. /\ f[0] = 0 /\ \A k \in 0..n : f[k] \in Nat
      /\ \A k \in 1..n : f[k] = f[k - 1] + Adds(box, c, t, k)
  BY <1>3 DEF IsSumming
<1>6. /\ g[0] = 0 /\ \A k \in 0..n : g[k] \in Nat
      /\ \A k \in 1..n : g[k] = g[k - 1] + Adds(box, d, t, k)
  BY <1>4 DEF IsSumming
<1>7. \A k \in 1..n : Adds(box, c, t, k) \in Nat
  BY <1>1 DEF Adds, Credits
<1>8. \A k \in 1..n :
        Adds(box, d, t, k) =
          Adds(box, c, t, k) + (IF box[k] = q /\ TeamOf[q] = t THEN m ELSE 0)
  BY <1>1, <1>2 DEF Adds, Credits
<1> HIDE DEF n
<1> DEFINE In(k) == \E j \in 1..k : box[j] = q
           P == {k \in 0..n : g[k] = f[k] + (IF In(k) /\ TeamOf[q] = t THEN m ELSE 0)}
<1>9. 0 \in P
  BY <1>1, <1>5, <1>6
<1>10. ASSUME NEW k \in 1..n, k - 1 \in P
       PROVE  k \in P
  <2>1. k - 1 \in 0..n /\ k \in 0..n /\ f[k - 1] \in Nat
    BY <1>1, <1>5
  <2>2. In(k) <=> In(k - 1) \/ box[k] = q
    <3>1. 1..k = (1..(k - 1)) \cup {k}
      BY <1>1
    <3> QED
      BY <3>1
  <2>3. ~(In(k - 1) /\ box[k] = q)
    <3>1. \A j \in 1..(k - 1) : j \in 1..n /\ j # k
      BY <1>1
    <3> QED
      BY <1>1, <3>1
  <2>4. g[k - 1] = f[k - 1] + (IF In(k - 1) /\ TeamOf[q] = t THEN m ELSE 0)
    BY <1>10
  <2> HIDE DEF In
  <2>5. g[k] = f[k] + (IF In(k) /\ TeamOf[q] = t THEN m ELSE 0)
    BY <1>5, <1>6, <1>7, <1>8, <2>1, <2>2, <2>3, <2>4
  <2> QED
    BY <2>1, <2>5
<1> HIDE DEF P
<1>11. \A k \in 0..n : k \in P
  BY <1>1, <1>9, <1>10, UpTo
<1>12. g[n] = f[n] + (IF In(n) /\ TeamOf[q] = t THEN m ELSE 0)
  BY <1>1, <1>11 DEF P
<1>13. In(n) <=> q \in Range(box)
  BY <1>1 DEF Range
<1> QED
  BY <1>1, <1>3, <1>4, <1>5, <1>12, <1>13 DEF d, n

(* The loop over the plays *)

\* Every basket of a team after play c and up to play i is of a player with a line.
InLines(box, t, c, i) ==
  \A j \in 1..i : j > c /\ feed[j].team = t => feed[j].player \in Range(box)

\* What the statistics are after each play, with c the last play before the clutch.
Tallies(s, box, c, i) ==
  /\ i <= c => /\ s.clutch = NoStats.clutch
               /\ s.margin = Abs(ScoreAt("home", i) - ScoreAt("away", i))
  /\ i >= c => /\ s.margin = Abs(ScoreAt("home", c) - ScoreAt("away", c))
               /\ \A t \in Teams :
                    /\ Total(box, s.clutch, t) <= ScoreAt(t, i) - ScoreAt(t, c)
                    /\ InLines(box, t, c, i) =>
                         Total(box, s.clutch, t) = ScoreAt(t, i) - ScoreAt(t, c)

LEMMA TalliesGoOn ==
  ASSUME IsGame(feed), NEW box, IsBox(box), NEW c \in 0..Len(feed), NEW i \in 1..Len(feed),
         IsClutch(feed[i]) <=> i > c, NEW s \in Stats, Tallies(s, box, c, i - 1)
  PROVE  Tallies(Count(s, feed[i]), box, c, i)
<1> DEFINE p == feed[i]
           r == Count(s, p)
<1>1. /\ p \in Plays /\ Len(feed) \in Nat /\ (p.points = 0 <=> p.team = "none")
      /\ p.points \in Nat /\ p.team \in Teams \cup {"none"} /\ s.clutch \in Credits
      /\ "none" \notin Teams
  BY GameType DEF Stats, Credits, Teams
<1>2. \A t \in Teams : /\ ScoreAt(t, c) \in Nat /\ ScoreAt(t, i) \in Nat
                       /\ ScoreAt(t, i - 1) \in Nat
                       /\ ScoreAt(t, i) = ScoreAt(t, i - 1) + Gains(p, t)
                       /\ p.score[t] = ScoreAt(t, i)
  BY <1>1, ScoresAreKept
<1>3. CASE i <= c
  <2>1. i - 1 <= c /\ ~IsClutch(p)
    BY <1>1, <1>3
  <2>2. s.clutch = NoStats.clutch
    BY <2>1 DEF Tallies
  <2>3. r = [s EXCEPT !.margin = Margin(p)]
    BY <2>1 DEF Count
  <2>4. r.clutch = s.clutch /\ r.margin = Margin(p)
    BY <2>3 DEF Stats
  <2>5. Margin(p) = Abs(ScoreAt("home", i) - ScoreAt("away", i))
    BY <1>2 DEF Margin, Lead, Teams
  <2> HIDE DEF r
  <2>6. i >= c => i = c
    BY <1>1, <1>3
  <2>7. \A t \in Teams : ScoreAt(t, c) - ScoreAt(t, c) = 0 /\ Total(box, r.clutch, t) = 0
    BY <1>2, <2>2, <2>4, NobodyHasPoints
  <2>8. Tallies(r, box, c, i)
    BY <2>2, <2>4, <2>5, <2>6, <2>7 DEF Tallies
  <2> QED
    BY <2>8 DEF r
<1>4. CASE i > c
  <2>1. i - 1 >= c /\ ~(i <= c) /\ IsClutch(p)
    BY <1>1, <1>4
  <2>2. s.margin = Abs(ScoreAt("home", c) - ScoreAt("away", c))
    BY <2>1 DEF Tallies
  <2>3. r.margin = s.margin
    BY <2>1 DEF Count, Stats
  <2>4. ASSUME NEW t \in Teams
        PROVE  /\ Total(box, r.clutch, t) <= ScoreAt(t, i) - ScoreAt(t, c)
               /\ InLines(box, t, c, i) =>
                    Total(box, r.clutch, t) = ScoreAt(t, i) - ScoreAt(t, c)
    <3> DEFINE before == Total(box, s.clutch, t)
               after == Total(box, r.clutch, t)
               had == ScoreAt(t, i - 1) - ScoreAt(t, c)
               credited == p.player # Nobody /\ p.player \in Range(box)
    <3>1. before <= had /\ (InLines(box, t, c, i - 1) => before = had)
      BY <2>1 DEF Tallies
    <3>2. InLines(box, t, c, i) =>
            InLines(box, t, c, i - 1) /\ (p.team = t => p.player \in Range(box))
      <4>1. \A j \in 1..(i - 1) : j \in 1..i
        BY <1>1
      <4>2. i \in 1..i
        BY <1>1
      <4> QED
        BY <1>4, <4>1, <4>2 DEF InLines
    <3>3. Nobody \notin Range(box)
      BY DetectorAssumption DEF IsBox, Range
    <3>4. IsOfTeam(p)
      BY DEF IsGame
    <3>5. before \in Nat
      <4>1. before = 0 \/ Players # {}
        <5>1. ASSUME Players = {}
              PROVE  s.clutch = NoStats.clutch
          BY <1>1, <5>1 DEF Credits, NoStats
        <5> QED
          BY <5>1, NobodyHasPoints
      <4>2. \A q \in Players : before \in Nat
        BY <1>1, TotalsGrow
      <4> QED
        BY <4>1, <4>2
    <3>6. after = before + (IF p.team = t /\ credited THEN p.points ELSE 0)
      <4>1. CASE IsCredited(p)
        <5>1. p.player \in Players /\ TeamOf[p.player] = p.team
          BY <3>4, <4>1 DEF IsCredited, IsOfTeam
        <5>2. r.clutch = [s.clutch EXCEPT ![p.player] = @ + p.points]
          BY <2>1, <4>1 DEF Count, Stats
        <5>3. after = before + (IF p.player \in Range(box) /\ TeamOf[p.player] = t
                                THEN p.points ELSE 0)
          BY <1>1, <5>1, <5>2, TotalsGrow
        <5> QED
          BY <4>1, <5>1, <5>3 DEF IsCredited
      <4>2. CASE ~IsCredited(p)
        <5>1. r = s
          BY <2>1, <4>2 DEF Count
        <5>2. ~(p.team = t /\ credited)
          BY <1>1, <4>2 DEF IsCredited
        <5> HIDE DEF credited
        <5> QED
          BY <3>5, <5>1, <5>2
      <4> QED
        BY <4>1, <4>2
    <3>7. ScoreAt(t, i) = ScoreAt(t, i - 1) + (IF p.team = t THEN p.points ELSE 0)
      BY <1>2 DEF Gains
    <3>8. credited <=> p.player \in Range(box)
      BY <3>3
    <3>9. had \in Int /\ ScoreAt(t, i) - ScoreAt(t, c) = had + (IF p.team = t THEN p.points ELSE 0)
      BY <1>1, <1>2, <3>7
    <3> HIDE DEF before, after, had, credited, p
    <3>10. after <= ScoreAt(t, i) - ScoreAt(t, c)
      BY <1>1, <3>1, <3>5, <3>6, <3>9
    <3>11. ASSUME InLines(box, t, c, i)
           PROVE  after = ScoreAt(t, i) - ScoreAt(t, c)
      <4>1. before = had /\ (p.team = t => credited)
        BY <3>1, <3>2, <3>8, <3>11
      <4> QED
        BY <1>1, <3>5, <3>6, <3>9, <4>1
    <3> QED
      BY <3>10, <3>11 DEF after, p
  <2> HIDE DEF r
  <2>5. Tallies(r, box, c, i)
    BY <2>1, <2>2, <2>3, <2>4 DEF Tallies
  <2> QED
    BY <2>5 DEF r
<1>5. i <= c \/ i > c
  BY <1>1
<1> QED
  BY <1>3, <1>4, <1>5

LEMMA PointsAddUp ==
  ASSUME IsGame(feed)
  PROVE  ClutchPointsAddUp
<1> DEFINE n == Len(feed)
<1>1. PICK c \in 0..n : /\ \A i \in 1..n : IsClutch(feed[i]) <=> i > c
                        /\ \A t \in Teams : ScoreBefore[t] = ScoreAt(t, c)
  BY ClutchStarts
<1>2. n \in Nat /\ feed \in Seq(Plays) /\ DOMAIN feed = 1..n
  BY GameType
<1>3. SUFFICES ASSUME NEW box \in Boxes
               PROVE  LET stats == Aggregate(box, feed)
                      IN  /\ stats.margin = Abs(ScoreBefore["home"] - ScoreBefore["away"])
                          /\ \A t \in Teams :
                               /\ PointsOfLines(stats.lines, t) <= Score[t] - ScoreBefore[t]
                               /\ AllInLines(box, t) =>
                                    PointsOfLines(stats.lines, t) = Score[t] - ScoreBefore[t]
  BY DEF ClutchPointsAddUp
<1>4. IsBox(box)
  BY DetectorAssumption DEF IsBox
<1>5. PICK g : /\ IsCounting(g, feed)
               /\ Aggregate(box, feed) =
                    [margin |-> g[n].margin, lines |-> LinesOf(box, g[n].clutch)]
  BY <1>2, AggregateUnfold
<1>6. /\ \A i \in 0..n : g[i] \in Stats
      /\ g[0] = NoStats /\ \A i \in 1..n : g[i] = Count(g[i - 1], feed[i])
  BY <1>5 DEF IsCounting
<1> DEFINE P == {i \in 0..n : Tallies(g[i], box, c, i)}
<1>7. 0 \in P
  <2>1. ScoreAt("home", 0) = 0 /\ ScoreAt("away", 0) = 0 /\ \A t \in Teams : ScoreAt(t, 0) = 0
    BY ScoresAreKept DEF Teams
  <2>2. 0 >= c => c = 0
    BY <1>2
  <2>3. NoStats.margin = 0 /\ Abs(0 - 0) = 0
    BY DEF NoStats, Abs
  <2>4. \A t \in Teams : Total(box, NoStats.clutch, t) = 0
    BY <1>4, NobodyHasPoints
  <2>5. Tallies(g[0], box, c, 0)
    BY <1>6, <2>1, <2>2, <2>3, <2>4 DEF Tallies
  <2> QED
    BY <1>2, <2>5
<1>8. ASSUME NEW i \in 1..n, i - 1 \in P
      PROVE  i \in P
  <2>1. i \in 0..n /\ i - 1 \in 0..n
    BY <1>2
  <2>2. g[i - 1] \in Stats /\ g[i] = Count(g[i - 1], feed[i]) /\ Tallies(g[i - 1], box, c, i - 1)
    BY <1>6, <1>8, <2>1
  <2>3. Tallies(g[i], box, c, i)
    BY <1>1, <1>4, <2>2, TalliesGoOn
  <2> QED
    BY <2>1, <2>3
<1> HIDE DEF P
<1>9. \A i \in 0..n : i \in P
  BY <1>2, <1>7, <1>8, UpTo
<1>10. Tallies(g[n], box, c, n) /\ n >= c
  BY <1>2, <1>9 DEF P
<1>11. \A t \in Teams : Score[t] = ScoreAt(t, n)
  BY ScoresAreKept
<1>12. ASSUME NEW t \in Teams, AllInLines(box, t)
       PROVE  InLines(box, t, c, n)
  <2>1. ClutchFromPeriod \in Nat /\ \A j \in 1..n : feed[j].period \in Nat
    BY RulesType, GameType
  <2>2. \A j \in 1..n : j > c => j \notin BeforeClutch
    BY <1>1, <2>1 DEF IsClutch, BeforeClutch
  <2> QED
    BY <1>2, <1>12, <2>2 DEF AllInLines, InLines
<1>13. g[n].margin = Abs(ScoreBefore["home"] - ScoreBefore["away"])
  BY <1>1, <1>10 DEF Tallies, Teams
<1>14. ASSUME NEW t \in Teams
       PROVE  /\ Total(box, g[n].clutch, t) <= Score[t] - ScoreBefore[t]
              /\ AllInLines(box, t) => Total(box, g[n].clutch, t) = Score[t] - ScoreBefore[t]
  <2>1. /\ Total(box, g[n].clutch, t) <= ScoreAt(t, n) - ScoreAt(t, c)
        /\ InLines(box, t, c, n) =>
             Total(box, g[n].clutch, t) = ScoreAt(t, n) - ScoreAt(t, c)
    BY <1>10 DEF Tallies
  <2>2. Score[t] = ScoreAt(t, n) /\ ScoreBefore[t] = ScoreAt(t, c)
    BY <1>1, <1>11
  <2> QED
    BY <1>12, <2>1, <2>2
<1> QED
  BY <1>5, <1>13, <1>14 DEF Total

\* The clutch points in the lines of a team are at most what its score has grown by since
\* the last play before the clutch, and just that when every basket of it since then is of
\* a player with a line; the clutch margin is the margin of then.
THEOREM ClutchPointsAreReal == Spec => []ClutchPointsAddUp
<1>1. FeedInv => ClutchPointsAddUp
  BY PointsAddUp DEF FeedInv
<1> QED
  BY <1>1, FeedsAreGames, PTL

(******************************* Comebacks *******************************)

LEMMA LeadsAreScores ==
  ASSUME IsGame(feed), NEW t \in Teams, NEW i \in 0..Len(feed)
  PROVE  LeadAt(t, i) \in Int /\ LeadAfter(feed, t, i) = LeadAt(t, i)
<1>1. Other(t) \in Teams /\ (t = "home" => Other(t) = "away") /\ (t = "away" => Other(t) = "home")
  BY DEF Other, Teams
<1>2. ScoreAt(t, i) \in Nat /\ ScoreAt(Other(t), i) \in Nat
  BY <1>1, ScoresAreKept
<1>3. CASE i = 0
  BY <1>2, <1>3 DEF LeadAt, LeadAfter, ScoreAt
<1>4. CASE i # 0
  <2>1. \A u \in Teams : ScoreAt(u, i) = feed[i].score[u]
    BY <1>4 DEF ScoreAt
  <2>2. t = "home" \/ t = "away"
    BY DEF Teams
  <2>3. feed[i].score[t] \in Nat /\ feed[i].score[Other(t)] \in Nat
    BY <1>1, <1>2, <2>1
  <2>4. LeadAfter(feed, t, i) = feed[i].score[t] - feed[i].score[Other(t)]
    BY <1>1, <1>4, <2>2, <2>3 DEF LeadAfter, LeadOf, Lead
  <2> QED
    BY <1>1, <1>2, <2>1, <2>4 DEF LeadAt
<1> QED
  BY <1>3, <1>4

\* By play i the team has trailed by enough, and has not led since.
Trailed(t, i) ==
  \E j \in 1..i : LeadAt(t, j) <= -ComebackDeficit /\ \A k \in j..i : LeadAt(t, k) <= 0

\* The deficit that the loop keeps tells just that.
DeficitTells(d, t, i) ==
  (LeadAt(t, i) > 0 => d = 0) /\ (d >= ComebackDeficit <=> Trailed(t, i))

LEMMA TrailingGoesOn ==
  ASSUME IsGame(feed), NEW t \in Teams, NEW i \in 1..Len(feed)
  PROVE  Trailed(t, i) <=>
           LeadAt(t, i) <= 0 /\ (Trailed(t, i - 1) \/ LeadAt(t, i) <= -ComebackDeficit)
<1>1. i \in Nat /\ Len(feed) \in Nat /\ ComebackDeficit \in Nat
  BY GameType, RulesType
<1>2. LeadAt(t, i) \in Int
  BY LeadsAreScores, <1>1
<1> DEFINE L(k) == LeadAt(t, k)
<1> HIDE DEF L
<1>3. ASSUME \E j \in 1..i : L(j) <= -ComebackDeficit /\ \A k \in j..i : L(k) <= 0
      PROVE  /\ L(i) <= 0
             /\ \/ L(i) <= -ComebackDeficit
                \/ \E j \in 1..(i - 1) :
                     L(j) <= -ComebackDeficit /\ \A k \in j..(i - 1) : L(k) <= 0
  <2>1. PICK j \in 1..i : L(j) <= -ComebackDeficit /\ \A k \in j..i : L(k) <= 0
    BY <1>3
  <2>2. i \in j..i /\ \A k \in j..(i - 1) : k \in j..i
    BY <1>1
  <2>3. CASE j = i
    BY <2>1, <2>2, <2>3
  <2>4. CASE j # i
    <3>1. j \in 1..(i - 1)
      BY <1>1, <2>4
    <3> QED
      BY <2>1, <2>2, <3>1
  <2> QED
    BY <2>3, <2>4
<1>4. ASSUME L(i) <= 0, L(i) <= -ComebackDeficit
      PROVE  \E j \in 1..i : L(j) <= -ComebackDeficit /\ \A k \in j..i : L(k) <= 0
  <2>1. i \in 1..i /\ \A k \in i..i : k = i
    BY <1>1
  <2> QED
    BY <1>4, <2>1
<1>5. ASSUME L(i) <= 0, NEW j \in 1..(i - 1), L(j) <= -ComebackDeficit,
             \A k \in j..(i - 1) : L(k) <= 0
      PROVE  \E m \in 1..i : L(m) <= -ComebackDeficit /\ \A k \in m..i : L(k) <= 0
  <2>1. j \in 1..i /\ \A k \in j..i : k = i \/ k \in j..(i - 1)
    BY <1>1
  <2>2. \A k \in j..i : L(k) <= 0
    BY <1>5, <2>1
  <2> QED
    BY <1>5, <2>1, <2>2
<1> QED
  BY <1>3, <1>4, <1>5 DEF Trailed, L

LEMMA DeficitsTell ==
  ASSUME IsGame(feed), NEW t \in Teams
  PROVE  \A i \in 0..Len(feed) : DeficitTells(Deficits(feed, t)[i], t, i)
<1> DEFINE n == Len(feed)
           d == Deficits(feed, t)
           P == {i \in 0..n : DeficitTells(d[i], t, i)}
<1>1. n \in Nat /\ feed \in Seq(Plays) /\ ComebackDeficit \in Nat /\ ComebackDeficit # 0
  BY GameType, RulesType
<1>2. /\ \A i \in 0..n : d[i] \in Nat
      /\ d[0] = 0
      /\ \A i \in 1..n : d[i] = IF TakesLead(feed, t, i) THEN 0
                                ELSE Deeper(d[i - 1], LeadAfter(feed, t, i))
  BY <1>1, DeficitsUnfold
<1>3. \A i \in 0..n : LeadAt(t, i) \in Int /\ LeadAfter(feed, t, i) = LeadAt(t, i)
  BY LeadsAreScores
<1> HIDE DEF d, n
<1>4. 0 \in P
  <2>1. ~Trailed(t, 0)
    BY DEF Trailed
  <2> QED
    BY <1>1, <1>2, <2>1 DEF DeficitTells
<1>5. ASSUME NEW i \in 1..n, i - 1 \in P
      PROVE  i \in P
  <2>1. i \in 0..n /\ i - 1 \in 0..n
    BY <1>1
  <2>2. Trailed(t, i) <=>
          LeadAt(t, i) <= 0 /\ (Trailed(t, i - 1) \/ LeadAt(t, i) <= -ComebackDeficit)
    BY TrailingGoesOn DEF n
  <2>3. /\ LeadAt(t, i - 1) > 0 => d[i - 1] = 0
        /\ d[i - 1] >= ComebackDeficit <=> Trailed(t, i - 1)
    BY <1>5 DEF DeficitTells
  <2>4. d[i] = IF LeadAt(t, i) > 0 /\ LeadAt(t, i - 1) <= 0 THEN 0
               ELSE IF -LeadAt(t, i) > d[i - 1] THEN -LeadAt(t, i) ELSE d[i - 1]
    BY <1>2, <1>3, <2>1 DEF TakesLead, Deeper
  <2>5. d[i] \in Nat /\ d[i - 1] \in Nat /\ LeadAt(t, i) \in Int /\ LeadAt(t, i - 1) \in Int
    BY <1>2, <1>3, <2>1
  <2>6. CASE LeadAt(t, i) > 0
    <3>1. d[i] = 0
      BY <2>3, <2>4, <2>5, <2>6
    <3>2. ~Trailed(t, i)
      BY <2>2, <2>5, <2>6
    <3> QED
      BY <1>1, <2>1, <3>1, <3>2 DEF DeficitTells
  <2>7. CASE LeadAt(t, i) <= 0
    <3>1. d[i] = IF -LeadAt(t, i) > d[i - 1] THEN -LeadAt(t, i) ELSE d[i - 1]
      BY <2>4, <2>5, <2>7
    <3>2. d[i] >= ComebackDeficit <=>
            d[i - 1] >= ComebackDeficit \/ LeadAt(t, i) <= -ComebackDeficit
      BY <1>1, <2>5, <3>1
    <3>3. d[i] >= ComebackDeficit <=> Trailed(t, i)
      BY <2>2, <2>3, <2>7, <3>2
    <3> QED
      BY <2>1, <2>5, <2>7, <3>3 DEF DeficitTells
  <2> QED
    BY <2>5, <2>6, <2>7
<1> HIDE DEF P
<1>6. \A i \in 0..n : i \in P
  BY <1>1, <1>4, <1>5, UpTo
<1> QED
  BY <1>6 DEF P, n, d

LEMMA ComesBackMeans ==
  ASSUME IsGame(feed), NEW t \in Teams, NEW i \in 1..Len(feed)
  PROVE  ComesBack(feed, t, i) <=> IsComeback(t, i)
<1> DEFINE d == Deficits(feed, t)[i - 1]
<1>1. /\ i \in 0..Len(feed) /\ i - 1 \in 0..Len(feed) /\ feed \in Seq(Plays)
      /\ ComebackDeficit \in Nat
  BY GameType, RulesType
<1>2. d \in Nat
  BY <1>1, DeficitsUnfold
<1>3. /\ LeadAt(t, i) \in Int /\ LeadAt(t, i - 1) \in Int
      /\ LeadAfter(feed, t, i) = LeadAt(t, i) /\ LeadAfter(feed, t, i - 1) = LeadAt(t, i - 1)
  BY <1>1, LeadsAreScores
<1>4. d >= ComebackDeficit <=> Trailed(t, i - 1)
  BY <1>1, DeficitsTell DEF DeficitTells
<1>5. ComesBack(feed, t, i) <=>
        /\ LeadAt(t, i) > 0 /\ LeadAt(t, i - 1) <= 0
        /\ Deeper(d, LeadAt(t, i)) >= ComebackDeficit
  BY <1>3 DEF ComesBack, TakesLead
<1> HIDE DEF d
<1>6. LeadAt(t, i) > 0 => Deeper(d, LeadAt(t, i)) = d
  BY <1>2, <1>3 DEF Deeper
<1>7. IsComeback(t, i) <=>
        LeadAt(t, i) > 0 /\ LeadAt(t, i - 1) <= 0 /\ Trailed(t, i - 1)
  BY DEF IsComeback, Trailed
<1> QED
  BY <1>4, <1>5, <1>6, <1>7

LEMMA ComebacksAreDetected ==
  ASSUME PollsInv
  PROVE  ComebacksAreReal
<1> DEFINE b == SubSeq(feed, 1, heard)
<1>1. IsGame(feed) /\ heard \in 0..Len(feed) /\ saved = Detect(b)
  BY DEF PollsInv, FeedInv, PollsDoNotShow
<1>2. feed \in Seq(Plays) /\ Len(feed) \in Nat
  BY <1>1, GameType
<1>3. IsPrefixOf(b, feed) /\ Len(b) = heard
  BY <1>1, <1>2, SubSeqIsPrefix
<1>4. DOMAIN b = 1..heard
  BY <1>3 DEF IsPrefixOf
<1> HIDE DEF b
<1>5. ASSUME NEW t \in Teams, NEW i \in 1..heard
      PROVE  (EventAt("lead_change", i, t) \in saved) <=> IsComeback(t, i)
  <2>1. i \in 1..Len(b) /\ i \in 0..Len(b) /\ i - 1 \in 0..Len(b) /\ i \in 1..Len(feed)
    BY <1>1, <1>2, <1>3
  <2>2. (EventAt("lead_change", i, t) \in Detect(b)) <=> ComesBack(b, t, i)
    <3>1. EventAt("lead_change", i, t) \notin DetectRuns(b)
      BY DEF DetectRuns, EventAt
    <3>2. EventAt("lead_change", i, t) \notin DetectCloseFinish(b)
      BY DEF DetectCloseFinish, EventAt
    <3>3. ASSUME EventAt("lead_change", i, t) \in DetectComebacks(b)
          PROVE  ComesBack(b, t, i)
      <4>1. PICK j \in 1..heard, u \in Teams :
              ComesBack(b, u, j) /\ EventAt("lead_change", i, t) = EventAt("lead_change", j, u)
        BY <1>4, <3>3 DEF DetectComebacks
      <4>2. i = j /\ t = u
        BY <4>1 DEF EventAt
      <4> QED
        BY <4>1, <4>2
    <3>4. ComesBack(b, t, i) => EventAt("lead_change", i, t) \in DetectComebacks(b)
      BY <1>4 DEF DetectComebacks
    <3> QED
      BY <3>1, <3>2, <3>3, <3>4 DEF Detect
  <2>3. /\ TakesLead(b, t, i) = TakesLead(feed, t, i)
        /\ LeadAfter(b, t, i) = LeadAfter(feed, t, i)
        /\ Deficits(b, t)[i - 1] = Deficits(feed, t)[i - 1]
    BY <1>3, <2>1, LeadsOfPrefix, DeficitsOfPrefix
  <2>4. ComesBack(b, t, i) <=> ComesBack(feed, t, i)
    BY <2>3 DEF ComesBack
  <2> QED
    BY <1>1, <2>1, <2>2, <2>4, ComesBackMeans
<1> QED
  BY <1>5 DEF ComebacksAreReal

\* A comeback is saved for a play just when a team takes the lead there that has
\* trailed by ComebackDeficit and has not led since, however the polls cut the game.
THEOREM ComebacksAreFound == Spec => []ComebacksAreReal
<1> QED
  BY PollsStart, PollsStep, ComebacksAreDetected, PTL DEF Spec

(********************************* Runs **********************************)

LEMMA OtherTeam ==
  ASSUME NEW t \in Teams
  PROVE  Other(t) \in Teams /\ Other(t) # t /\ \A u \in Teams : u # t => u = Other(t)
BY DEF Other, Teams

\* A basket begins a run, lengthens it, breaks it or leaves it standing.
Begins(run, p, next) ==
  /\ run.team = "none"
  /\ next.team = p.team /\ next.scored = p.points /\ next.allowed = 0 /\ ~next.emitted
Lengthens(run, p, next) ==
  /\ run.team = p.team
  /\ next.team = p.team /\ next.scored = run.scored + p.points
  /\ next.allowed = run.allowed /\ next.emitted = run.emitted
Breaks(run, p, next) ==
  /\ run.team \in Teams /\ run.team # p.team
  /\ next.team = p.team /\ next.scored = run.allowed + p.points
  /\ next.allowed = 0 /\ ~next.emitted
LeavesStanding(run, p, next) ==
  /\ run.team \in Teams /\ run.team # p.team /\ run.allowed + p.points <= RunTolerance
  /\ next.team = run.team /\ next.scored = run.scored
  /\ next.allowed = run.allowed + p.points /\ next.emitted = run.emitted

LEMMA BasketCases ==
  ASSUME NEW r \in RunStates, NEW p \in Plays, IsScoring(p)
  PROVE  \/ Begins(r, p, AfterBasket(r, p))
         \/ Lengthens(r, p, AfterBasket(r, p))
         \/ Breaks(r, p, AfterBasket(r, p))
         \/ LeavesStanding(r, p, AfterBasket(r, p))
<1> DEFINE next == AfterBasket(r, p)
<1>1. /\ p.team \in Teams /\ p.points \in Nat /\ r.team \in Teams \cup {"none"}
      /\ r.allowed \in Nat /\ r.scored \in Nat /\ RunTolerance \in Nat
  BY RulesType DEF Plays, IsScoring, RunStates
<1>2. r.allowed + p.points \in Nat /\ p.team # "none"
  BY <1>1 DEF Teams
<1>3. CASE r.team = "none"
  <2>1. next = RunOf(p.team, p.points)
    BY <1>3 DEF AfterBasket
  <2>2. Begins(r, p, next)
    BY <1>1, <1>3, <2>1, RunOfType DEF Begins
  <2> QED
    BY <2>2
<1>4. CASE r.team = p.team
  <2>1. next = [r EXCEPT !.scored = @ + p.points]
    BY <1>2, <1>4 DEF AfterBasket
  <2>2. Lengthens(r, p, next)
    BY <1>4, <2>1 DEF Lengthens, RunStates
  <2> QED
    BY <2>2
<1>5. CASE r.team \in Teams /\ r.team # p.team /\ r.allowed + p.points > RunTolerance
  <2>1. next = RunOf(p.team, r.allowed + p.points)
    BY <1>5 DEF AfterBasket, Teams
  <2>2. Breaks(r, p, next)
    BY <1>1, <1>2, <1>5, <2>1, RunOfType DEF Breaks
  <2> QED
    BY <2>2
<1>6. CASE r.team \in Teams /\ r.team # p.team /\ ~(r.allowed + p.points > RunTolerance)
  <2>1. next = [r EXCEPT !.allowed = @ + p.points]
    BY <1>6 DEF AfterBasket, Teams
  <2>2. r.allowed + p.points <= RunTolerance
    BY <1>1, <1>2, <1>6
  <2>3. LeavesStanding(r, p, next)
    BY <1>6, <2>1, <2>2 DEF LeavesStanding, RunStates
  <2> QED
    BY <2>3
<1> QED
  BY <1>1, <1>3, <1>4, <1>5, <1>6

LEMMA PlayCases ==
  ASSUME NEW r \in RunStates, NEW p \in Plays
  PROVE  /\ ~IsScoring(p) => AfterPlay(r, p) = r
         /\ IsScoring(p) =>
              /\ AfterPlay(r, p).team = AfterBasket(r, p).team
              /\ AfterPlay(r, p).scored = AfterBasket(r, p).scored
              /\ AfterPlay(r, p).allowed = AfterBasket(r, p).allowed
              /\ AfterPlay(r, p).emitted <=> (AfterBasket(r, p).emitted \/ Due(AfterBasket(r, p)))
<1>1. ~IsScoring(p) => AfterPlay(r, p) = r
  BY DEF AfterPlay
<1>2. ASSUME IsScoring(p)
      PROVE  /\ AfterPlay(r, p).team = AfterBasket(r, p).team
             /\ AfterPlay(r, p).scored = AfterBasket(r, p).scored
             /\ AfterPlay(r, p).allowed = AfterBasket(r, p).allowed
             /\ AfterPlay(r, p).emitted <=> (AfterBasket(r, p).emitted \/ Due(AfterBasket(r, p)))
  <2> DEFINE next == AfterBasket(r, p)
             e == next.emitted \/ Due(next)
  <2>1. next \in RunStates
    BY <1>2, AfterBasketType
  <2>2. AfterPlay(r, p) = [next EXCEPT !.emitted = e]
    BY <1>2 DEF AfterPlay
  <2> HIDE DEF next, e
  <2>3. /\ AfterPlay(r, p).team = next.team /\ AfterPlay(r, p).scored = next.scored
        /\ AfterPlay(r, p).allowed = next.allowed /\ AfterPlay(r, p).emitted = e
    BY <2>1, <2>2 DEF RunStates
  <2> QED
    BY <2>3 DEF next, e
<1> QED
  BY <1>1, <1>2

\* A run was reported at play m for a team.
ReportedAt(m, t) ==
  ReportsRun(Runs(feed)[m - 1], feed[m]) /\ Runs(feed)[m].team = t

\* A run that was reported, and what the other team scored since is in its tolerance.
WasReported(r, k) ==
  /\ r.team \in Teams
  /\ \E m \in 1..k : /\ ReportedAt(m, r.team)
                     /\ ScoreAt(Other(r.team), k) - ScoreAt(Other(r.team), m) <= r.allowed

\* What holds of the run at hand after play k: it is within its tolerance, and reported
\* when it is long enough.
RunStands(r, k) ==
  /\ r.allowed <= RunTolerance
  /\ r.scored >= RunMinPoints => r.emitted
  /\ r.emitted => WasReported(r, k)

\* A play that scores nothing leaves the scores; a basket adds to one of them.
LEMMA ScoreGrowth ==
  ASSUME IsGame(feed), NEW k \in 1..Len(feed), NEW t \in Teams
  PROVE  /\ ScoreAt(t, k) \in Nat /\ ScoreAt(t, k - 1) \in Nat
         /\ ~IsScoring(feed[k]) => ScoreAt(t, k) = ScoreAt(t, k - 1)
         /\ IsScoring(feed[k]) =>
              /\ feed[k].team = t => ScoreAt(t, k) = ScoreAt(t, k - 1) + feed[k].points
              /\ feed[k].team # t => ScoreAt(t, k) = ScoreAt(t, k - 1)
<1>1. /\ feed[k] \in Plays /\ feed[k].points \in Nat
      /\ feed[k].points = 0 <=> feed[k].team = "none"
  BY GameType
<1>2. k \in 0..Len(feed) /\ k - 1 \in 0..Len(feed)
  BY GameType
<1>3. ScoreAt(t, k) \in Nat /\ ScoreAt(t, k - 1) \in Nat
  BY <1>2, ScoresAreKept
<1>4. ScoreAt(t, k) = ScoreAt(t, k - 1) + Gains(feed[k], t)
  BY ScoresAreKept
<1>5. ~IsScoring(feed[k]) => feed[k].points = 0
  BY <1>1 DEF IsScoring
<1> QED
  BY <1>1, <1>3, <1>4, <1>5 DEF Gains

LEMMA RunsStandStep ==
  ASSUME IsGame(feed), NEW k \in 1..Len(feed), RunStands(Runs(feed)[k - 1], k - 1)
  PROVE  RunStands(Runs(feed)[k], k)
<1> DEFINE r == Runs(feed)[k - 1]
           s == Runs(feed)[k]
           p == feed[k]
           next == AfterBasket(r, p)
<1>1. feed \in Seq(Plays) /\ Len(feed) \in Nat /\ p \in Plays /\ p.points \in Nat /\ k \in Nat
  BY GameType
<1>2. r \in RunStates /\ s = AfterPlay(r, p)
  BY <1>1, RunsUnfold
<1>3. /\ RunMinPoints \in Nat /\ RunMinPoints # 0 /\ RunTolerance \in Nat
      /\ r.allowed \in Nat /\ r.scored \in Nat /\ r.emitted \in BOOLEAN
  BY <1>2, RulesType DEF RunStates
<1>4. /\ r.allowed <= RunTolerance
      /\ r.scored >= RunMinPoints => r.emitted
      /\ r.emitted => WasReported(r, k - 1)
  BY DEF RunStands
<1>5. CASE ~IsScoring(p)
  <2>1. s = r
    BY <1>1, <1>2, <1>5, PlayCases
  <2>2. ASSUME WasReported(r, k - 1)
        PROVE  WasReported(r, k)
    <3>1. r.team \in Teams
      BY <2>2 DEF WasReported
    <3>2. PICK m \in 1..(k - 1) :
            /\ ReportedAt(m, r.team)
            /\ ScoreAt(Other(r.team), k - 1) - ScoreAt(Other(r.team), m) <= r.allowed
      BY <2>2 DEF WasReported
    <3>3. ScoreAt(Other(r.team), k) = ScoreAt(Other(r.team), k - 1)
      BY <1>5, <3>1, OtherTeam, ScoreGrowth
    <3>4. m \in 1..k
      BY <1>1
    <3> QED
      BY <3>1, <3>2, <3>3, <3>4 DEF WasReported
  <2> QED
    BY <1>4, <2>1, <2>2 DEF RunStands
<1>6. CASE IsScoring(p)
  <2>1. next \in RunStates /\ p.team \in Teams
    BY <1>1, <1>2, <1>6, AfterBasketType DEF IsScoring, Plays
  <2>2. /\ s.team = next.team /\ s.scored = next.scored /\ s.allowed = next.allowed
        /\ s.emitted <=> (next.emitted \/ Due(next))
    BY <1>1, <1>2, <1>6, PlayCases
  <2>3. \/ Begins(r, p, next) \/ Lengthens(r, p, next)
        \/ Breaks(r, p, next) \/ LeavesStanding(r, p, next)
    BY <1>1, <1>2, <1>6, BasketCases
  <2>4. Due(next) => ReportedAt(k, s.team)
    BY <1>6, <2>2 DEF ReportedAt, ReportsRun
  <2>5. /\ next.allowed \in Nat /\ next.scored \in Nat /\ next.emitted \in BOOLEAN
        /\ next.team \in Teams \cup {"none"}
    BY <2>1 DEF RunStates
  <2>6. \A t \in Teams : ScoreAt(t, k) - ScoreAt(t, k) = 0
    BY ScoreGrowth
  <2>7. s.scored >= RunMinPoints => s.emitted
    BY <2>2 DEF Due
  <2> HIDE DEF s, next
  <2>8. s.allowed <= RunTolerance
    BY <1>1, <1>3, <1>4, <2>2, <2>3 DEF Begins, Lengthens, Breaks, LeavesStanding
  <2>9. next.team \in Teams
    BY <2>1, <2>3 DEF Begins, Lengthens, Breaks, LeavesStanding
  <2>10. ASSUME Due(next)
         PROVE  WasReported(s, k)
    <3>1. k \in 1..k /\ ReportedAt(k, s.team) /\ s.team \in Teams /\ s.allowed \in Nat
      BY <1>1, <2>2, <2>4, <2>5, <2>9, <2>10
    <3>2. ScoreAt(Other(s.team), k) - ScoreAt(Other(s.team), k) <= s.allowed
      BY <2>6, <3>1, OtherTeam
    <3> QED
      BY <3>1, <3>2 DEF WasReported
  <2>11. ASSUME next.emitted
         PROVE  WasReported(s, k)
    <3>1. Lengthens(r, p, next) \/ LeavesStanding(r, p, next)
      BY <2>3, <2>11 DEF Begins, Breaks
    <3>2. r.emitted /\ s.team = r.team
      BY <2>2, <2>11, <3>1 DEF Lengthens, LeavesStanding
    <3>3. WasReported(r, k - 1)
      BY <1>4, <3>2
    <3>4. r.team \in Teams
      BY <3>3 DEF WasReported
    <3> DEFINE o == Other(r.team)
    <3>5. PICK m \in 1..(k - 1) :
            ReportedAt(m, r.team) /\ ScoreAt(o, k - 1) - ScoreAt(o, m) <= r.allowed
      BY <3>3 DEF WasReported
    <3>6. o \in Teams /\ o # r.team /\ (p.team # r.team => p.team = o)
      BY <2>1, <3>4, OtherTeam
    <3>7. m \in 1..k /\ m \in 0..Len(feed)
      BY <1>1
    <3>8. ScoreAt(o, m) \in Nat
      BY <3>6, <3>7, ScoresAreKept
    <3>9. /\ ScoreAt(o, k) \in Nat /\ ScoreAt(o, k - 1) \in Nat
          /\ p.team = o => ScoreAt(o, k) = ScoreAt(o, k - 1) + p.points
          /\ p.team # o => ScoreAt(o, k) = ScoreAt(o, k - 1)
      BY <1>6, <3>6, ScoreGrowth
    <3> HIDE DEF o, r, p
    <3>10. CASE Lengthens(r, p, next)
      <4>1. p.team # o /\ s.allowed = r.allowed
        BY <2>2, <3>6, <3>10 DEF Lengthens
      <4>2. ScoreAt(o, k) - ScoreAt(o, m) <= s.allowed
        BY <3>5, <3>9, <4>1
      <4> QED
        BY <3>2, <3>4, <3>5, <3>7, <4>2 DEF WasReported, o
    <3>11. CASE LeavesStanding(r, p, next)
      <4>1. p.team = o /\ s.allowed = r.allowed + p.points
        BY <2>2, <3>6, <3>11 DEF LeavesStanding
      <4>2. ScoreAt(o, k) - ScoreAt(o, m) <= s.allowed
        BY <1>1, <1>3, <3>5, <3>8, <3>9, <4>1
      <4> QED
        BY <3>2, <3>4, <3>5, <3>7, <4>2 DEF WasReported, o
    <3> QED
      BY <3>1, <3>10, <3>11
  <2>12. s.emitted => WasReported(s, k)
    BY <2>2, <2>10, <2>11
  <2>13. RunStands(s, k)
    BY <2>7, <2>8, <2>12 DEF RunStands
  <2> QED
    BY <2>13 DEF s
<1> QED
  BY <1>5, <1>6

LEMMA RunsStand ==
  ASSUME IsGame(feed)
  PROVE  \A k \in 0..Len(feed) : RunStands(Runs(feed)[k], k)
<1> DEFINE n == Len(feed)
           P == {k \in 0..n : RunStands(Runs(feed)[k], k)}
<1>1. n \in Nat /\ feed \in Seq(Plays)
  BY GameType
<1>2. 0 \in P
  <2>1. Runs(feed)[0] = NoRun
    BY <1>1, RunsUnfold
  <2>2. RunStands(NoRun, 0)
    BY RulesType DEF RunStands, NoRun
  <2> QED
    BY <1>1, <2>1, <2>2
<1>3. ASSUME NEW k \in 1..n, k - 1 \in P
      PROVE  k \in P
  <2>1. k \in 0..n /\ RunStands(Runs(feed)[k - 1], k - 1)
    BY <1>1, <1>3
  <2>2. RunStands(Runs(feed)[k], k)
    BY <2>1, RunsStandStep
  <2> QED
    BY <2>1, <2>2
<1> HIDE DEF P
<1>4. \A k \in 0..n : k \in P
  BY <1>1, <1>2, <1>3, UpTo
<1> QED
  BY <1>4 DEF P

\* Since play i the other team has not scored: then the run at hand holds all that the
\* team has scored since, be it the run of that team or what the other one allowed.
Holds(r, t, q) ==
  \/ r.team = t /\ r.scored >= q
  \/ r.team = Other(t) /\ r.allowed >= q
  \/ r.team = "none" /\ q = 0

CleanSince(t, i, k) ==
  /\ PointsOf(Other(t), i, k) >= 0 /\ PointsOf(t, i, k) >= 0
  /\ PointsOf(Other(t), i, k) = 0 => Holds(Runs(feed)[k], t, PointsOf(t, i, k))

LEMMA CleanStep ==
  ASSUME IsGame(feed), NEW t \in Teams, NEW i \in 1..Len(feed), NEW k \in 1..Len(feed),
         CleanSince(t, i, k - 1)
  PROVE  CleanSince(t, i, k)
<1> DEFINE r == Runs(feed)[k - 1]
           s == Runs(feed)[k]
           p == feed[k]
           next == AfterBasket(r, p)
           o == Other(t)
           qb == PointsOf(t, i, k - 1)
           q == PointsOf(t, i, k)
           ob == PointsOf(o, i, k - 1)
           oa == PointsOf(o, i, k)
<1>1. feed \in Seq(Plays) /\ Len(feed) \in Nat /\ p \in Plays /\ p.points \in Nat /\ k \in Nat
  BY GameType
<1>2. r \in RunStates /\ s = AfterPlay(r, p)
  <2>1. k - 1 \in 0..Len(feed)
    BY <1>1
  <2> QED
    BY <1>1, <2>1, RunsUnfold
<1>3. r.allowed \in Nat /\ r.scored \in Nat /\ r.team \in Teams \cup {"none"}
  BY <1>2 DEF RunStates
<1>4. o \in Teams /\ o # t /\ t # "none" /\ o # "none" /\ \A u \in Teams : u # t => u = o
  BY OtherTeam DEF Teams
<1>5. i - 1 \in 0..Len(feed)
  BY <1>1
<1>6. ScoreAt(t, i - 1) \in Nat /\ ScoreAt(o, i - 1) \in Nat
  BY <1>4, <1>5, ScoresAreKept
<1>7. /\ ScoreAt(t, k) \in Nat /\ ScoreAt(t, k - 1) \in Nat
      /\ ScoreAt(o, k) \in Nat /\ ScoreAt(o, k - 1) \in Nat
  BY <1>4, ScoreGrowth
<1>8. qb \in Int /\ q \in Int /\ ob \in Int /\ oa \in Int
  BY <1>6, <1>7 DEF PointsOf
<1>9. ob >= 0 /\ qb >= 0 /\ (ob = 0 => Holds(r, t, qb))
  BY DEF CleanSince
<1>10. CASE ~IsScoring(p)
  <2>1. q = qb /\ oa = ob
    BY <1>4, <1>10, ScoreGrowth DEF PointsOf
  <2>2. s = r
    BY <1>1, <1>2, <1>10, PlayCases
  <2> HIDE DEF q, qb, oa, ob, s, r
  <2>3. oa >= 0 /\ q >= 0 /\ (oa = 0 => Holds(s, t, q))
    BY <1>9, <2>1, <2>2
  <2> QED
    BY <2>3 DEF CleanSince, q, oa, s, o
<1>11. CASE IsScoring(p)
  <2>1. p.team \in Teams /\ p.points > 0
    BY <1>1, <1>11 DEF IsScoring, Plays
  <2>2. /\ p.team = t => q = qb + p.points /\ oa = ob
        /\ p.team = o => q = qb /\ oa = ob + p.points
    <3>1. /\ p.team = t => ScoreAt(t, k) = ScoreAt(t, k - 1) + p.points
          /\ p.team # t => ScoreAt(t, k) = ScoreAt(t, k - 1)
          /\ p.team = o => ScoreAt(o, k) = ScoreAt(o, k - 1) + p.points
          /\ p.team # o => ScoreAt(o, k) = ScoreAt(o, k - 1)
      BY <1>4, <1>11, ScoreGrowth
    <3>2. /\ qb = ScoreAt(t, k - 1) - ScoreAt(t, i - 1) /\ q = ScoreAt(t, k) - ScoreAt(t, i - 1)
          /\ ob = ScoreAt(o, k - 1) - ScoreAt(o, i - 1) /\ oa = ScoreAt(o, k) - ScoreAt(o, i - 1)
      BY DEF PointsOf
    <3>3. o # t
      BY <1>4
    <3> HIDE DEF p, o, q, qb, oa, ob
    <3>4. ASSUME p.team = t
          PROVE  q = qb + p.points /\ oa = ob
      <4>1. ScoreAt(t, k) = ScoreAt(t, k - 1) + p.points /\ ScoreAt(o, k) = ScoreAt(o, k - 1)
        BY <3>1, <3>3, <3>4
      <4> QED
        BY <1>1, <1>6, <1>7, <3>2, <4>1
    <3>5. ASSUME p.team = o
          PROVE  q = qb /\ oa = ob + p.points
      <4>1. ScoreAt(t, k) = ScoreAt(t, k - 1) /\ ScoreAt(o, k) = ScoreAt(o, k - 1) + p.points
        BY <3>1, <3>3, <3>5
      <4>2. q = qb
        BY <3>2, <4>1
      <4>3. p.points \in Int /\ ScoreAt(o, k - 1) \in Int /\ ScoreAt(o, i - 1) \in Int
        BY <1>1, <1>6, <1>7
      <4>4. oa = ob + p.points
        BY <3>2, <4>1, <4>3
      <4> QED
        BY <4>2, <4>4
    <3> QED
      BY <3>4, <3>5
  <2>3. s.team = next.team /\ s.scored = next.scored /\ s.allowed = next.allowed
    BY <1>1, <1>2, <1>11, PlayCases
  <2>4. \/ Begins(r, p, next) \/ Lengthens(r, p, next)
        \/ Breaks(r, p, next) \/ LeavesStanding(r, p, next)
    BY <1>1, <1>2, <1>11, BasketCases
  <2> HIDE DEF q, qb, oa, ob, s, r, next, p
  <2>5. oa >= 0 /\ q >= 0
    BY <1>1, <1>4, <1>8, <1>9, <2>1, <2>2
  <2>6. ASSUME oa = 0
        PROVE  Holds(s, t, q)
    <3>1. p.team = t /\ ob = 0 /\ q = qb + p.points
      BY <1>1, <1>4, <1>8, <1>9, <2>1, <2>2, <2>6
    <3>2. Holds(r, t, qb)
      BY <1>9, <3>1
    <3>3. CASE Begins(r, p, next)
      <4>1. qb = 0 /\ s.team = t /\ s.scored = p.points
        BY <1>4, <2>3, <3>1, <3>2, <3>3 DEF Begins, Holds, o
      <4> QED
        BY <1>1, <3>1, <4>1 DEF Holds
    <3>4. CASE Lengthens(r, p, next)
      <4>1. r.scored >= qb /\ s.team = t /\ s.scored = r.scored + p.points
        BY <1>4, <2>3, <3>1, <3>2, <3>4 DEF Lengthens, Holds, o
      <4>2. s.scored >= q
        BY <1>1, <1>3, <1>8, <3>1, <4>1
      <4> QED
        BY <4>1, <4>2 DEF Holds
    <3>5. CASE Breaks(r, p, next)
      <4>1. r.allowed >= qb /\ s.team = t /\ s.scored = r.allowed + p.points
        BY <1>4, <2>3, <3>1, <3>2, <3>5 DEF Breaks, Holds, o, Teams
      <4>2. s.scored >= q
        BY <1>1, <1>3, <1>8, <3>1, <4>1
      <4> QED
        BY <4>1, <4>2 DEF Holds
    <3>6. CASE LeavesStanding(r, p, next)
      <4>1. r.allowed >= qb /\ s.team = o /\ s.allowed = r.allowed + p.points
        BY <1>4, <2>3, <3>1, <3>2, <3>6 DEF LeavesStanding, Holds, o, Teams
      <4>2. s.allowed >= q
        BY <1>1, <1>3, <1>8, <3>1, <4>1
      <4> QED
        BY <4>1, <4>2 DEF Holds, o
    <3> QED
      BY <2>4, <3>3, <3>4, <3>5, <3>6
  <2> QED
    BY <2>5, <2>6 DEF CleanSince, q, oa, s, o
<1> QED
  BY <1>10, <1>11

LEMMA StretchesAreHeld ==
  ASSUME IsGame(feed), NEW t \in Teams, NEW i \in 1..Len(feed)
  PROVE  \A k \in (i - 1)..Len(feed) : CleanSince(t, i, k)
<1> DEFINE n == Len(feed)
           P == {k \in 0..n : k >= i - 1 => CleanSince(t, i, k)}
<1>1. n \in Nat /\ feed \in Seq(Plays) /\ i - 1 \in 0..n
  BY GameType
<1>2. CleanSince(t, i, i - 1)
  <2>1. ScoreAt(t, i - 1) \in Nat /\ ScoreAt(Other(t), i - 1) \in Nat
    BY <1>1, OtherTeam, ScoresAreKept
  <2>2. PointsOf(t, i, i - 1) = 0 /\ PointsOf(Other(t), i, i - 1) = 0
    BY <2>1 DEF PointsOf
  <2>3. Runs(feed)[i - 1] \in RunStates
    BY <1>1, RunsUnfold
  <2> DEFINE r == Runs(feed)[i - 1]
  <2>4. r.scored \in Nat /\ r.allowed \in Nat /\ (r.team = t \/ r.team = Other(t) \/ r.team = "none")
    BY <2>3, OtherTeam DEF RunStates
  <2>5. Holds(r, t, 0)
    BY <2>4 DEF Holds
  <2> QED
    BY <2>2, <2>5 DEF CleanSince
<1>3. 0 \in P
  <2>1. 0 >= i - 1 => i - 1 = 0
    BY <1>1
  <2> QED
    BY <1>1, <1>2, <2>1
<1>4. ASSUME NEW k \in 1..n, k - 1 \in P
      PROVE  k \in P
  <2>1. k \in 0..n /\ (k >= i - 1 => k = i - 1 \/ k - 1 >= i - 1)
    BY <1>1
  <2>2. ASSUME k - 1 >= i - 1
        PROVE  CleanSince(t, i, k)
    BY <1>4, <2>2, CleanStep
  <2> QED
    BY <1>2, <2>1, <2>2
<1> HIDE DEF P
<1>5. \A k \in 0..n : k \in P
  BY <1>1, <1>3, <1>4, UpTo
<1>6. \A k \in (i - 1)..n : k \in 0..n /\ k >= i - 1
  BY <1>1
<1> QED
  BY <1>5, <1>6 DEF P

LEMMA RunsAreReported ==
  ASSUME PollsInv
  PROVE  CleanRunIsReported
<1> DEFINE b == SubSeq(feed, 1, heard)
<1>1. IsGame(feed) /\ heard \in 0..Len(feed) /\ saved = Detect(b)
  BY DEF PollsInv, FeedInv, PollsDoNotShow
<1>2. feed \in Seq(Plays) /\ Len(feed) \in Nat
  BY <1>1, GameType
<1>3. IsPrefixOf(b, feed) /\ Len(b) = heard
  BY <1>1, <1>2, SubSeqIsPrefix
<1>4. DOMAIN b = 1..heard /\ \A i \in 1..heard : b[i] = feed[i]
  BY <1>3 DEF IsPrefixOf
<1> HIDE DEF b
<1>5. SUFFICES ASSUME NEW t \in Teams, NEW i \in 1..heard, NEW j \in 1..heard, i <= j,
                      PointsOf(t, i, j) >= RunMinPoints, PointsOf(Other(t), i, j) = 0
               PROVE  \E e \in saved :
                        /\ e.kind = "run" /\ e.team = t /\ e.play <= j
                        /\ PointsOf(Other(t), e.play + 1, j) <= RunTolerance
  BY DEF CleanRunIsReported
<1> DEFINE r == Runs(feed)[j]
           q == PointsOf(t, i, j)
<1>6. i \in 1..Len(feed) /\ j \in 0..Len(feed) /\ j \in (i - 1)..Len(feed)
  BY <1>1, <1>2, <1>5
<1>7. r \in RunStates /\ RunStands(r, j)
  BY <1>1, <1>2, <1>6, RunsUnfold, RunsStand
<1>8. /\ r.scored \in Nat /\ r.allowed \in Nat /\ r.allowed <= RunTolerance
      /\ r.scored >= RunMinPoints => r.emitted
      /\ r.emitted => WasReported(r, j)
  BY <1>7 DEF RunStates, RunStands
<1>9. Holds(r, t, q)
  BY <1>1, <1>5, <1>6, StretchesAreHeld DEF CleanSince
<1>10. q \in Int
  <2>1. i - 1 \in 0..Len(feed)
    BY <1>1, <1>2, <1>6
  <2>2. ScoreAt(t, i - 1) \in Nat /\ ScoreAt(t, j) \in Nat
    BY <1>1, <1>6, <2>1, ScoresAreKept
  <2> QED
    BY <2>2 DEF PointsOf
<1> HIDE DEF r, q
<1>11. q >= RunMinPoints
  BY <1>5 DEF q
<1>12. r.team = t /\ r.scored >= RunMinPoints
  BY <1>8, <1>9, <1>10, <1>11, RulesType DEF Holds
<1>13. WasReported(r, j)
  BY <1>8, <1>12
<1>14. PICK m \in 1..j :
         ReportedAt(m, t) /\ ScoreAt(Other(t), j) - ScoreAt(Other(t), m) <= r.allowed
  BY <1>12, <1>13 DEF WasReported
<1>15. m \in 1..heard /\ m \in 0..Len(feed) /\ m <= j /\ (m + 1) - 1 = m
  BY <1>1, <1>2, <1>5
<1>16. PointsOf(Other(t), m + 1, j) <= RunTolerance
  <2>1. ScoreAt(Other(t), j) \in Nat /\ ScoreAt(Other(t), m) \in Nat
    BY <1>1, <1>6, <1>15, OtherTeam, ScoresAreKept
  <2>2. PointsOf(Other(t), m + 1, j) = ScoreAt(Other(t), j) - ScoreAt(Other(t), m)
    BY <1>15 DEF PointsOf
  <2> QED
    BY <1>8, <1>14, <2>1, <2>2, RulesType
<1> DEFINE e == EventAt("run", m, t)
<1>17. e \in saved
  <2>1. m \in 0..Len(b) /\ m - 1 \in 0..Len(b)
    BY <1>1, <1>2, <1>3, <1>15
  <2>2. Runs(b)[m] = Runs(feed)[m] /\ Runs(b)[m - 1] = Runs(feed)[m - 1]
    BY <1>3, <2>1, RunsOfPrefix
  <2>3. ReportsRun(Runs(b)[m - 1], b[m]) /\ Runs(b)[m].team = t
    BY <1>4, <1>14, <1>15, <2>2 DEF ReportedAt
  <2>4. e \in DetectRuns(b)
    BY <1>4, <1>15, <2>3 DEF DetectRuns
  <2> QED
    BY <1>1, <2>4 DEF Detect
<1>18. e.kind = "run" /\ e.team = t /\ e.play = m
  BY DEF EventAt
<1> HIDE DEF e
<1> QED
  BY <1>15, <1>16, <1>17, <1>18

\* A team that scores enough without an answer has its run reported, at the latest by
\* then, and since the report the other team has not broken it.
THEOREM LongRunsAreReported == Spec => []CleanRunIsReported
<1> QED
  BY PollsStart, PollsStep, RunsAreReported, PTL DEF Spec
=============================================================================
