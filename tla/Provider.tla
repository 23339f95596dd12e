------------------------------ MODULE Provider ------------------------------
(***************************************************************************)
(* The two providers of scores, and the watcher of one game that asks      *)
(* them.  ESPN gives plays in pages, which are read one by one while the   *)
(* game goes on, each request tried again by the transport; a recording    *)
(* gives those whose time has come on a faster clock.                      *)
(*                                                                         *)
(* A play is its number.  What ESPN does is external: its pages only grow. *)
(***************************************************************************)
EXTENDS Integers, FiniteSets, FiniteSetsExt

CONSTANTS
  Total,      \* plays of the game
  PageSize,   \* pageSize
  Attempts,   \* of a request, policy.attempts()
  Offsets,    \* of the plays of a recording, in seconds
  PerTick,    \* seconds of a recording that pass in a tick
  MaxClock,   \* bound: ticks in the life of a process
  MaxProcesses   \* bound: how often the process starts

ASSUME ProviderAssumption ==
  /\ Total \in Nat \ {0} /\ PageSize \in Nat \ {0} /\ Attempts \in Nat \ {0}
  /\ PerTick \in Nat \ {0} /\ MaxClock \in Nat /\ MaxProcesses \in Nat \ {0}
  /\ Offsets \in [1..Total -> Nat]
  /\ \A i, j \in 1..Total : i < j => Offsets[i] <= Offsets[j]

VARIABLES
  kind,       \* what the configuration says, "espn" or "replay"
  made,       \* ESPN: plays made so far
  phase,      \* ESPN: where the game stands
  clock,      \* ticks since the process started
  processes,  \* bounded by MaxProcesses
  codes,      \* the codes of the teams are cached
  request,    \* of the watcher
  cursor,     \* of the watcher, 0 for none
  got,        \* plays the watcher has
  shown       \* the status of the game that Games gave last

providerVars == <<kind, made, phase, clock, processes, codes, request, cursor, got, shown>>

Nobody  == -1
Resting == [pc |-> "idle", page |-> 0, attempt |-> 1, plays |-> {}, asked |-> Nobody]

\* syncTeams has asked for the teams before, with or without success.
Cached == IF kind = "espn" THEN BOOLEAN ELSE {FALSE}

ProviderInit ==
  /\ kind \in {"espn", "replay"} /\ made = 0 /\ phase = "before"
  /\ clock = 0 /\ processes = 1 /\ codes \in Cached /\ request = Resting
  /\ cursor = 0 /\ got = {} /\ shown = "scheduled"

(****************************** The games ********************************)

\* Of no interest to a recording.

PlayHappens ==
  /\ kind = "espn" /\ phase = "on" /\ made < Total /\ made' = made + 1
  /\ UNCHANGED <<kind, phase, clock, processes, codes, request, cursor, got, shown>>

GameMovesOn ==
  /\ kind = "espn"
  /\ \/ phase = "before" /\ phase' \in {"on", "off"}
     \/ phase = "on" /\ phase' = "off"
     \/ phase = "on" /\ made = Total /\ phase' = "over"
  /\ UNCHANGED <<kind, made, clock, processes, codes, request, cursor, got, shown>>

\* What the scoreboard of ESPN says of it: a name, a state, and whether it is completed.
Reports(ph) ==
  CASE ph = "before" -> {<<"STATUS_SCHEDULED", "pre", FALSE>>, <<"other", "pre", FALSE>>}
    [] ph = "on"     -> {<<"other", "in", FALSE>>}
    [] ph = "off"    -> {<<"STATUS_POSTPONED", "post", FALSE>>, <<"STATUS_SUSPENDED", "in", FALSE>>}
    [] ph = "over"   -> {<<"STATUS_FINAL", "post", TRUE>>, <<"other", "post", TRUE>>}

mapStatus(report) ==
  CASE report[1] = "STATUS_FINAL"     -> "final"
    [] report[1] \in {"STATUS_POSTPONED", "STATUS_CANCELED", "STATUS_SUSPENDED"} -> "postponed"
    [] report[1] = "STATUS_SCHEDULED" -> "scheduled"
    [] OTHER -> IF report[3] THEN "final" ELSE IF report[2] = "in" THEN "live" ELSE "scheduled"

\* The plays of a recording whose time has come.
Elapsed      == clock * PerTick
visiblePlays == {i \in 1..Total : Offsets[i] <= Elapsed}

gameState ==
  IF visiblePlays = {} THEN "scheduled"
  ELSE IF Cardinality(visiblePlays) = Total THEN "final" ELSE "live"

\* Games of the day; a call that fails shows nothing.
Games ==
  /\ \/ kind = "espn"   /\ \E report \in Reports(phase) : shown' = mapStatus(report)
     \/ kind = "replay" /\ shown' = gameState
  /\ UNCHANGED <<kind, made, phase, clock, processes, codes, request, cursor, got>>

Tick ==
  /\ kind = "replay" /\ clock < MaxClock /\ clock' = clock + 1
  /\ UNCHANGED <<kind, made, phase, processes, codes, request, cursor, got, shown>>

(****************************** The plays ********************************)

Made == IF kind = "espn" THEN made ELSE Cardinality(visiblePlays)

\* A bug: the watcher goes on with the page after the last one.
PageAfter(n) == n + 1

\* The last page is read again: it may have grown.
FirstPage(n) == IF n = 0 THEN 1 ELSE n

\* Plays asks ESPN for the teams first when it does not know them.
Ask ==
  /\ request.pc = "idle"
  /\ request' = [Resting EXCEPT
       !.pc    = IF kind = "replay" THEN "reads" ELSE IF codes THEN "page" ELSE "teams",
       !.page  = FirstPage(cursor), !.asked = Made]
  /\ UNCHANGED <<kind, made, phase, clock, processes, codes, cursor, got, shown>>

Learns(plays, last) ==
  got' = got \cup plays /\ cursor' = last /\ request' = Resting

\* The plays of a recording that can be seen now; the number of the last is the
\* cursor, which nothing reads.
ReplayAnswers ==
  /\ request.pc = "reads"
  /\ Learns(visiblePlays, IF visiblePlays = {} THEN cursor ELSE Max(visiblePlays))
  /\ UNCHANGED <<kind, made, phase, clock, processes, codes, shown>>

TeamsAnswered ==
  /\ request.pc = "teams" /\ codes' = TRUE
  /\ request' = [request EXCEPT !.pc = "page", !.attempt = 1]
  /\ UNCHANGED <<kind, made, phase, clock, processes, cursor, got, shown>>

Page(n)   == {i \in 1..made : (i - 1) \div PageSize + 1 = n}
PageCount == (made + PageSize - 1) \div PageSize

\* A page comes with the number of pages there are by now.
PageAnswered ==
  /\ request.pc = "page"
  /\ LET plays == request.plays \cup Page(request.page)
     IN  IF PageCount <= request.page THEN Learns(plays, request.page)
         ELSE /\ request' = [request EXCEPT !.page = @ + 1, !.attempt = 1, !.plays = plays]
              /\ UNCHANGED <<cursor, got>>
  /\ UNCHANGED <<kind, made, phase, clock, processes, codes, shown>>

\* No answer, a "too many requests" or an error of the server: the transport tries
\* again, and after the last attempt the call fails.
AttemptFails ==
  /\ request.pc \in {"teams", "page"}
  /\ request' = IF request.attempt = Attempts THEN Resting
                ELSE [request EXCEPT !.attempt = @ + 1]
  /\ UNCHANGED <<kind, made, phase, clock, processes, codes, cursor, got, shown>>

\* Any other answer, one that cannot be read, a roster with no team, the fifteen
\* seconds of the call or the end of its context: the call fails, and the pages it
\* has read are lost.
CallFails ==
  /\ request.pc \in {"teams", "page"} /\ request' = Resting
  /\ UNCHANGED <<kind, made, phase, clock, processes, codes, cursor, got, shown>>

\* The process ends and starts again, and a recording begins anew.
Restart ==
  /\ processes < MaxProcesses /\ processes' = processes + 1
  /\ clock' = 0 /\ request' = Resting /\ cursor' = 0 /\ got' = {} /\ shown' = "scheduled"
  /\ codes' \in Cached
  /\ UNCHANGED <<kind, made, phase>>

ProviderNext ==
  \/ PlayHappens \/ GameMovesOn \/ Games \/ Tick
  \/ Ask \/ ReplayAnswers \/ TeamsAnswered \/ PageAnswered
  \/ AttemptFails \/ CallFails \/ Restart

ProviderSpec == ProviderInit /\ [][ProviderNext]_providerVars

(****************************** The promise ******************************)

ToTheWatcher == INSTANCE ScoreProvider WITH made <- Made, asked <- request.asked

\* Both providers keep the promise: what a poll brings holds every play made before
\* it began, although the pages grow while they are read, requests fail between
\* them, and the next poll begins in the middle; and no game is final before its
\* plays are.
KeepsThePromise == ToTheWatcher!Promise
=============================================================================
