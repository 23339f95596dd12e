---------------------------- MODULE LivePollerMC ----------------------------
(***************************************************************************)
(* The scoreboards of the runs of LivePoller.                              *)
(***************************************************************************)
EXTENDS LivePoller

\* One game, on the second day, or on both because of its time zone.
Today    == [d \in Days |-> IF d = 2 THEN Games ELSE {}]
BothDays == [d \in Days |-> Games]
=============================================================================
