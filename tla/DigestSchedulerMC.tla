-------------------------- MODULE DigestSchedulerMC --------------------------
(***************************************************************************)
(* Values of the constants of DigestScheduler that a .cfg cannot write.    *)
(***************************************************************************)
EXTENDS DigestScheduler

CONSTANTS c1, c2, g1

\* The last hour of its day, so that the window of c1 crosses midnight, to the
\* east of the clock; and an hour of the morning of c2, to the west of it.
ZoneValue == [c \in Chats |-> IF c = c1 THEN 1 ELSE -1]
HourValue == [c \in Chats |-> IF c = c1 THEN DayLength - 1 ELSE 1]

\* g1 starts in the day before the first slot of both chats.
StartValue == [g \in Games |-> 1]
=============================================================================
