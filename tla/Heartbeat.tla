----------------------------- MODULE Heartbeat ------------------------------
(***************************************************************************)
(* The daily report to the chat of the operators: what the counters of the *)
(* process have counted since the last report, told once a day within an   *)
(* hour of its time.  The counters go on while the report is being sent.   *)
(*                                                                         *)
(* One counter stands for all; its n-th count is the number n.             *)
(***************************************************************************)
EXTENDS Integers, Sequences

CONSTANTS
  DayLength,    \* ticks of a day
  At,           \* the tick of the day at which the report is due
  Hour,         \* ticks of an hour
  MaxNow,       \* bound: ticks in all
  MaxCounted,   \* bound: counts in the life of a process
  MaxTroubles   \* bound: failed sends and restarts

ASSUME HeartbeatAssumption ==
  /\ DayLength \in Nat \ {0} /\ At \in 0..(DayLength - 1) /\ Hour \in 0..(DayLength - 2)
  /\ MaxNow \in Nat /\ MaxCounted \in Nat /\ MaxTroubles \in Nat

VARIABLES
  now,
  counted,    \* the counter of the process
  previous,   \* what it stood at in the last report
  lastDay,    \* the day of that report
  report,     \* the report being sent
  told,       \* history: the reports of this process that have arrived
  looked,     \* history: Tick has run since the clock moved
  hindered,   \* history: the days that saw a failure, a restart or no Tick
  troubles    \* bounded by MaxTroubles

reporter      == <<previous, lastDay, report>>
heartbeatVars == <<now, counted, reporter, told, looked, hindered, troubles>>

NoDay    == -1
NoReport == [day |-> NoDay, from |-> 0, to |-> 0]

LastOccurrence(t) == LET today == (t - (t % DayLength)) + At
                     IN  IF today <= t THEN today ELSE today - DayLength
DayOfTick(t)      == t \div DayLength
DueDay            == DayOfTick(LastOccurrence(now))

HeartbeatInit ==
  /\ now = DayLength /\ counted = 0 /\ previous = 0 /\ lastDay = NoDay
  /\ report = NoReport /\ told = <<>> /\ looked = FALSE
  /\ hindered = {DueDay} /\ troubles = 0

\* An event, a delivery or a request is counted, that of the report too.
Inc ==
  /\ counted < MaxCounted /\ counted' = counted + 1
  /\ UNCHANGED <<now, reporter, told, looked, hindered, troubles>>

Time ==
  /\ now < MaxNow /\ now' = now + 1 /\ looked' = FALSE
  /\ hindered' = IF looked THEN hindered ELSE hindered \cup {DueDay}
  /\ UNCHANGED <<counted, reporter, told, troubles>>

\* The snapshot is taken before the report is sent.
TickReport ==
  /\ report = NoReport /\ looked' = TRUE
  /\ report' = IF now - LastOccurrence(now) > Hour \/ DueDay = lastDay THEN NoReport
               ELSE [day |-> DueDay, from |-> previous, to |-> counted]
  /\ UNCHANGED <<now, counted, previous, lastDay, told, hindered, troubles>>

\* A bug: the counters are read again when the report has gone.
WhatIsCounted == counted

WhatWasReported == report.to

Arrived(acknowledged) ==
  told' = Append(told, [day |-> report.day, from |-> report.from, to |-> report.to,
                        acknowledged |-> acknowledged])

NoticeSent ==
  /\ report # NoReport /\ report' = NoReport
  /\ previous' = WhatWasReported /\ lastDay' = report.day
  /\ Arrived(TRUE)
  /\ UNCHANGED <<now, counted, looked, hindered, troubles>>

Trouble == troubles < MaxTroubles /\ troubles' = troubles + 1

\* SendNotice fails; the report may have arrived.
NoticeFails ==
  /\ report # NoReport /\ report' = NoReport /\ Trouble
  /\ Arrived(FALSE) \/ UNCHANGED told
  /\ hindered' = hindered \cup {report.day, DueDay}
  /\ UNCHANGED <<now, counted, previous, lastDay, looked>>

\* Counters and the day of the last report are in memory only.
ProcessRestarts ==
  /\ Trouble
  /\ counted' = 0 /\ previous' = 0 /\ lastDay' = NoDay /\ report' = NoReport
  /\ told' = <<>> /\ looked' = FALSE
  /\ hindered' = hindered \cup {DueDay}
  /\ UNCHANGED now

HeartbeatNext ==
  \/ Inc \/ Time \/ TickReport \/ NoticeSent \/ NoticeFails \/ ProcessRestarts

HeartbeatSpec == HeartbeatInit /\ [][HeartbeatNext]_heartbeatVars

(****************************** Properties *******************************)

\* One report a day: after one that is known to have arrived the day is closed.
OneADay ==
  \A i, j \in DOMAIN told :
    i < j /\ told[i].acknowledged => told[i].day < told[j].day

\* Nothing that was counted between the making of the reporter and a report is missing
\* from the reports so far, and nothing is in two that are known to have arrived.
\* (The counts of the start-up, before the reporter takes its first snapshot, are in none.)
AddUp ==
  /\ \A i \in DOMAIN told : \A n \in 1..told[i].to :
       \E j \in 1..i : told[j].from < n /\ n <= told[j].to
  /\ \A i, j \in DOMAIN told :
       i < j /\ told[i].acknowledged => told[i].to <= told[j].from

\* A day whose hour passed with no failure and no restart has its report.
NoDayIsSkipped ==
  now - LastOccurrence(now) > Hour /\ report = NoReport =>
    DueDay \in hindered \/ DueDay = lastDay

\* The reports of a process: one a day, none skipped, and together they tell what
\* was counted since the reporter was made, whatever is counted while one is sent, and whether or not the
\* answer to one is lost.
ReportsAddUp == OneADay /\ AddUp /\ NoDayIsSkipped
=============================================================================
