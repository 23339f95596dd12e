----------------------------- MODULE DetectorMC -----------------------------
(***************************************************************************)
(* The phases, players and box scores of the runs of Detector.             *)
(***************************************************************************)
EXTENDS Detector

\* Where the clock does not matter, and on both sides of the boundaries of the
\* clutch and of the close finish, with an overtime.
FirstHalf   == {<<1, 5>>}
ThreePeriods == {<<3, 2>>, <<4, 4>>, <<5, 3>>}

\* Two players of one team and one of the other, and box scores that lack some of them.
Roster == {"h1", "h2", "a1"}
SideOf == [q \in Roster |-> IF q = "a1" THEN "away" ELSE "home"]
BoxScores == {<<"h1", "h2", "a1">>, <<"a1", "h1">>, <<"h2">>, <<>>}

\* Where no statistics are asked for.
NoSides == [q \in {} |-> "home"]
=============================================================================
