----------------------------- MODULE CommandsMC -----------------------------
(***************************************************************************)
(* What the user of the runs does: every command that changes the rows, a  *)
(* team that does not exist, and a command that only reads.                *)
(***************************************************************************)
EXTENDS Commands

CONSTANTS t1, t9

UsesValue ==
  {Intent("toggle_team", t1, FALSE, TRUE), Intent("toggle_team", t9, FALSE, FALSE),
   Intent("toggle_alerts", NoTeam, FALSE, TRUE), Intent("alerts", NoTeam, TRUE, FALSE),
   Intent("stop", NoTeam, FALSE, FALSE), Intent("start", NoTeam, FALSE, FALSE)}
=============================================================================
