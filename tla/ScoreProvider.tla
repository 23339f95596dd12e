--------------------------- MODULE ScoreProvider ---------------------------
(***************************************************************************)
(* What a provider promises to the one who watches a game: an answer has   *)
(* every play that was made before the question, none that was not made,   *)
(* and the game is final when all its plays are, and for good.             *)
(***************************************************************************)
EXTENDS Integers

CONSTANT Total   \* plays of the game

VARIABLES
  made,    \* plays made so far
  asked,   \* how many were made when the watcher asked; Nobody if it has not
  got,     \* plays the watcher has
  shown    \* the status of the game it was shown last

promise == <<made, asked, got, shown>>

Nobody   == -1
Statuses == {"scheduled", "live", "final", "postponed"}

Starts ==
  /\ made \in 0..Total /\ asked = Nobody /\ got = {} /\ shown = "scheduled"

PlaysAreMade ==
  /\ made' \in (made + 1)..Total
  /\ UNCHANGED <<asked, got, shown>>

Ask == asked = Nobody /\ asked' = made /\ UNCHANGED <<made, got, shown>>

Answer ==
  /\ asked # Nobody /\ asked' = Nobody
  /\ got' \in SUBSET (1..made)
  /\ got \cup (1..asked) \subseteq got'
  /\ UNCHANGED <<made, shown>>

Fail == asked # Nobody /\ asked' = Nobody /\ UNCHANGED <<made, got, shown>>

Show ==
  /\ shown' \in Statuses
  /\ shown' = "final" => made = Total
  /\ shown = "final" => shown' = "final"
  /\ UNCHANGED <<made, asked, got>>

\* The next process knows nothing, and a recording begins anew.
Restart ==
  /\ made' \in 0..Total /\ asked' = Nobody /\ got' = {} /\ shown' = "scheduled"

Promise ==
  Starts /\ [][PlaysAreMade \/ Ask \/ Answer \/ Fail \/ Show \/ Restart]_promise
=============================================================================
