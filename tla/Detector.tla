------------------------------ MODULE Detector ------------------------------
(***************************************************************************)
(* What the plays of a game mean: runs, comebacks and a close finish, and  *)
(* the clutch points of the statistics.  All of it is computed afresh at   *)
(* every poll from all the plays heard so far; only the identifiers of the *)
(* events, a kind and the number of a play, tie one poll to the next.      *)
(*                                                                         *)
(* A game is played, basket by basket, and polled at any time.  The plays  *)
(* arrive in order and their scores add up; who has no team scores nothing.*)
(* A basket may come without the player who made it, and the box score may *)
(* have no line for a player who did: it then counts for the team alone.   *)
(***************************************************************************)
EXTENDS Integers, SequencesExt

CONSTANTS
  RunMinPoints, RunTolerance, ComebackDeficit, CloseFinishWindow, CloseFinishMargin,
  ClutchFromPeriod,
  Points,     \* what a basket may count, and 0 for a play that is none
  Phases,     \* pairs of a period and the minutes left in it
  MaxPlays,   \* bound: plays of the game
  Players, TeamOf,
  Boxes       \* the players with a line in the box score: what it may be

Teams  == {"home", "away"}
Nobody == "none"    \* of a play without participants

ASSUME DetectorAssumption ==
  /\ RunMinPoints \in Nat \ {0} /\ RunTolerance \in 0..(RunMinPoints - 1)
  /\ ComebackDeficit \in Nat \ {0} /\ CloseFinishWindow \in Nat
  /\ CloseFinishMargin \in Nat /\ ClutchFromPeriod \in Nat
  /\ Points \subseteq Nat /\ Phases \subseteq Nat \X Nat /\ MaxPlays \in Nat
  /\ Nobody \notin Players /\ TeamOf \in [Players -> Teams]
  /\ \A box \in Boxes : /\ box \in Seq(Players)
                        /\ \A i, j \in DOMAIN box : box[i] = box[j] => i = j

VARIABLES
  feed,   \* the plays of the game
  heard,  \* how many of them the watcher has merged
  saved   \* rows of game_events, of the kinds that plays make

vars == <<feed, heard, saved>>

Other(team) == IF team = "home" THEN "away" ELSE "home"

IsScoring(p) == p.points > 0 /\ p.team # "none"
Lead(p)      == p.score["home"] - p.score["away"]
Abs(n)       == IF n < 0 THEN -n ELSE n
Margin(p)    == Abs(Lead(p))

\* A bug: the clutch begins a period late.
IsOvertime(p) == p.period > ClutchFromPeriod

IsClutch(p) == p.period >= ClutchFromPeriod

\* An event: its kind and play are its identifier, the rest is what it tells.
EventAt(kind, i, team) == [kind |-> kind, play |-> i, team |-> team]

(******************************** Runs ***********************************)

NoRun == [team |-> "none", scored |-> 0, allowed |-> 0, emitted |-> FALSE]

RunOf(team, points) == [NoRun EXCEPT !.team = team, !.scored = points]

\* A bug: the points that broke the last run do not count for the next.
AfterBasketForgetting(run, p) ==
  IF run.team = "none" THEN RunOf(p.team, p.points)
  ELSE IF p.team = run.team THEN [run EXCEPT !.scored = @ + p.points]
  ELSE IF run.allowed + p.points > RunTolerance THEN RunOf(p.team, p.points)
  ELSE [run EXCEPT !.allowed = @ + p.points]

AfterBasket(run, p) ==
  IF run.team = "none" THEN RunOf(p.team, p.points)
  ELSE IF p.team = run.team THEN [run EXCEPT !.scored = @ + p.points]
  ELSE IF run.allowed + p.points > RunTolerance
       THEN RunOf(p.team, run.allowed + p.points)
  ELSE [run EXCEPT !.allowed = @ + p.points]

\* A run that is long enough and not reported yet.
Due(run) == ~run.emitted /\ run.scored >= RunMinPoints

AfterPlay(run, p) ==
  IF ~IsScoring(p) THEN run
  ELSE LET next == AfterBasket(run, p) IN [next EXCEPT !.emitted = @ \/ Due(next)]

\* The run at hand after each of the plays.
Runs(plays) ==
  LET run[i \in 0..Len(plays)] ==
        IF i = 0 THEN NoRun ELSE AfterPlay(run[i - 1], plays[i])
  IN  run

\* A run is reported at the basket that makes it long enough, and once.
ReportsRun(run, p) == IsScoring(p) /\ Due(AfterBasket(run, p))

DetectRuns(plays) ==
  {EventAt("run", i, Runs(plays)[i].team) :
     i \in {j \in DOMAIN plays : ReportsRun(Runs(plays)[j - 1], plays[j])}}

(***************************** Comebacks *********************************)

\* The lead that a team has at a play, negative when it trails.
LeadOf(team, p) == IF team = "home" THEN Lead(p) ELSE -Lead(p)

\* The margin of the loop, before play i and after it, for either team.
LeadAfter(plays, team, i) == IF i = 0 THEN 0 ELSE LeadOf(team, plays[i])

\* A bug: a team that comes from a tie takes no lead.
TakesLeadFromBehind(plays, team, i) ==
  LeadAfter(plays, team, i) > 0 /\ LeadAfter(plays, team, i - 1) < 0

TakesLead(plays, team, i) ==
  LeadAfter(plays, team, i) > 0 /\ LeadAfter(plays, team, i - 1) <= 0

Deeper(deficit, lead) == IF -lead > deficit THEN -lead ELSE deficit

\* The deepest deficit of a team since it last took the lead, after each of the plays.
Deficits(plays, team) ==
  LET deficit[i \in 0..Len(plays)] ==
        IF i = 0 \/ TakesLead(plays, team, i) THEN 0
        ELSE Deeper(deficit[i - 1], LeadAfter(plays, team, i))
  IN  deficit

\* A comeback is reported where a lead is taken after a deficit that is deep enough.
ComesBack(plays, team, i) ==
  /\ TakesLead(plays, team, i)
  /\ Deeper(Deficits(plays, team)[i - 1], LeadAfter(plays, team, i)) >= ComebackDeficit

DetectComebacks(plays) ==
  UNION {{EventAt("lead_change", i, t) : t \in {u \in Teams : ComesBack(plays, u, i)}} :
           i \in DOMAIN plays}

(**************************** Close finish *******************************)

IsClose(p) ==
  IsClutch(p) /\ Margin(p) <= CloseFinishMargin /\ p.remaining <= CloseFinishWindow

\* A bug: the latest play that is close, and not the first.
LatestCloseFinish(plays) ==
  {EventAt("close_finish", i, "none") : i \in
     {j \in DOMAIN plays : IsClose(plays[j])
        /\ \A k \in (j + 1)..Len(plays) : ~IsClose(plays[k])}}

DetectCloseFinish(plays) ==
  {EventAt("close_finish", i, "none") : i \in
     {j \in DOMAIN plays : IsClose(plays[j]) /\ \A k \in 1..(j - 1) : ~IsClose(plays[k])}}

Detect(plays) ==
  DetectRuns(plays) \cup DetectComebacks(plays) \cup DetectCloseFinish(plays)

(***************************** Statistics ********************************)

\* The clutch margin, and the clutch points that each player is credited with.
NoStats == [margin |-> 0, clutch |-> [q \in Players |-> 0]]

IsCredited(p) == p.points > 0 /\ p.player # Nobody

Count(stats, p) ==
  IF ~IsClutch(p) THEN [stats EXCEPT !.margin = Margin(p)]
  ELSE IF IsCredited(p) THEN [stats EXCEPT !.clutch[p.player] = @ + p.points]
  ELSE stats

\* The lines of the box score with the clutch points of their players.
LinesOf(box, clutch) ==
  [k \in DOMAIN box |-> [player |-> box[k], clutch |-> clutch[box[k]]]]

Aggregate(box, plays) ==
  LET stats[i \in 0..Len(plays)] ==
        IF i = 0 THEN NoStats ELSE Count(stats[i - 1], plays[i])
      all == stats[Len(plays)]
  IN  [margin |-> all.margin, lines |-> LinesOf(box, all.clutch)]

(******************************* The game ********************************)

Init == feed = <<>> /\ heard = 0 /\ saved = {}

Score == IF feed = <<>> THEN [t \in Teams |-> 0] ELSE Last(feed).score

\* The clock runs down within a period, and periods follow each other.
Follows(phase) ==
  feed = <<>> \/ LET p == Last(feed)
                 IN  \/ phase[1] > p.period
                     \/ phase[1] = p.period /\ phase[2] <= p.remaining

PlayHappens ==
  /\ Len(feed) < MaxPlays
  /\ \E points \in Points, phase \in {p \in Phases : Follows(p)} :
     \E team \in (IF points = 0 THEN {"none"} ELSE Teams) :
     \E player \in {Nobody} \cup {q \in Players : TeamOf[q] = team} :
       feed' = Append(feed,
         [team |-> team, player |-> player, points |-> points,
          period |-> phase[1], remaining |-> phase[2],
          score |-> [t \in Teams |-> Score[t] + (IF t = team THEN points ELSE 0)]])
  /\ UNCHANGED <<heard, saved>>

\* SaveEvents inserts the events whose identifier is new.
Unsaved(events) ==
  {e \in events : \A s \in saved : <<s.kind, s.play>> # <<e.kind, e.play>>}

Poll ==
  /\ heard' = Len(feed)
  /\ saved' = saved \cup Unsaved(Detect(feed))
  /\ UNCHANGED feed

Next == PlayHappens \/ Poll

Spec == Init /\ [][Next]_vars

(***************************** Properties ********************************)

\* However the game was cut into polls, the events of it are those of all its plays
\* at once: what one poll has found, no later poll finds at another play.
PollsDoNotShow == saved = Detect(SubSeq(feed, 1, heard))

\* The points of a team from play i to play j: what its score grows by.
ScoreAt(team, i) == IF i = 0 THEN 0 ELSE feed[i].score[team]
PointsOf(team, i, j) == ScoreAt(team, j) - ScoreAt(team, i - 1)

\* A team that scores enough without an answer has its run reported, at the latest
\* by then, and since the report the other team has not broken it.
CleanRunIsReported ==
  \A team \in Teams, i, j \in 1..heard :
    (i <= j /\ PointsOf(team, i, j) >= RunMinPoints /\ PointsOf(Other(team), i, j) = 0) =>
      \E e \in saved :
        /\ e.kind = "run" /\ e.team = team /\ e.play <= j
        /\ PointsOf(Other(team), e.play + 1, j) <= RunTolerance

\* A comeback is a lead taken by a team that has trailed by ComebackDeficit and has
\* not led since, through ties or at once: all of these are reported, and no other.
LeadAt(team, i) == ScoreAt(team, i) - ScoreAt(Other(team), i)
IsComeback(team, i) ==
  /\ LeadAt(team, i) > 0 /\ LeadAt(team, i - 1) <= 0
  /\ \E j \in 1..(i - 1) :
       /\ LeadAt(team, j) <= -ComebackDeficit
       /\ \A k \in j..(i - 1) : LeadAt(team, k) <= 0
ComebacksAreReal ==
  \A team \in Teams, i \in 1..heard :
    (EventAt("lead_change", i, team) \in saved) <=> IsComeback(team, i)

\* The clutch points in the lines of a team are never more than what its score has
\* grown by since the last play before the clutch, and just that when every basket of
\* it since then is of a player with a line; the clutch margin is the margin of then.
BeforeClutch == {i \in DOMAIN feed : feed[i].period < ClutchFromPeriod}
ScoreBefore ==
  IF BeforeClutch = {} THEN [t \in Teams |-> 0] ELSE feed[Max(BeforeClutch)].score
PointsOfLines(lines, team) ==
  LET sum[k \in 0..Len(lines)] ==
        IF k = 0 THEN 0
        ELSE sum[k - 1] + (IF TeamOf[lines[k].player] = team THEN lines[k].clutch ELSE 0)
  IN  sum[Len(lines)]
AllInLines(box, team) ==
  \A i \in DOMAIN feed \ BeforeClutch :
    feed[i].team = team => feed[i].player \in Range(box)
ClutchPointsAddUp ==
  \A box \in Boxes :
    LET stats == Aggregate(box, feed)
    IN  /\ stats.margin = Abs(ScoreBefore["home"] - ScoreBefore["away"])
        /\ \A t \in Teams :
             /\ PointsOfLines(stats.lines, t) <= Score[t] - ScoreBefore[t]
             /\ AllInLines(box, t) =>
                  PointsOfLines(stats.lines, t) = Score[t] - ScoreBefore[t]

\* What TestDetectRuns says of a run: three points of the opponent break it, and eleven
\* points are not enough.
RunsAreRuns ==
  \A e \in saved : e.kind = "run" =>
    \E i \in 1..e.play :
      /\ PointsOf(e.team, i, e.play) >= RunMinPoints
      /\ PointsOf(Other(e.team), i, e.play) <= RunTolerance
=============================================================================
