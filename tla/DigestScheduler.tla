--------------------------- MODULE DigestScheduler ---------------------------
(***************************************************************************)
(* The digest scheduler: one goroutine that, every minute, goes over all   *)
(* subscribers and sends those whose local digest time has come the games  *)
(* of the day before it, once a day, with a window to catch up in.         *)
(*                                                                         *)
(* Time is counted in hours; a day of DayLength of them, shorter than in   *)
(* life, keeps the arithmetic of slots, windows and dates.  A store call   *)
(* and the sending of one message are one step each.  Time may pass        *)
(* between any two steps; "late" tells whether the loop has kept up so far.*)
(***************************************************************************)
EXTENDS Integers, FiniteSets

CONSTANTS
  Chats,
  Fickle,       \* chats whose user leaves and comes back
  Flaky,        \* chats that Telegram may fail any number of times
  Zone,         \* offset of each chat's time zone
  DigestHour,   \* its digest_at
  Games,
  StartsAt,     \* the hour each game starts
  DayLength,    \* hours of a day
  CatchUp,      \* DigestCatchUp
  Parts,        \* messages a digest is cut into
  Horizon,      \* bound: the last hour
  MaxIds,       \* bound: how many times a chat subscribes
  MaxFaults,    \* bound: how many other calls of store and Telegram fail
  MaxRestarts   \* bound: how many times the process ends

ASSUME DigestAssumption ==
  /\ IsFiniteSet(Chats) /\ Flaky \subseteq Chats /\ IsFiniteSet(Games)
  /\ DayLength \in Nat \ {0} /\ CatchUp \in 0..(DayLength - 1)
  /\ Zone \in [Chats -> (-DayLength)..DayLength]
  /\ DigestHour \in [Chats -> 0..(DayLength - 1)]
  /\ StartsAt \in [Games -> Int]
  /\ Parts \in Nat \ {0} /\ Fickle \subseteq Chats
  /\ Horizon \in Nat /\ MaxIds \in Nat \ {0}
  /\ MaxFaults \in Nat /\ MaxRestarts \in Nat

VARIABLES
  now,
  final,      \* games whose row says "final"
  member,     \* chats with a row in subscribers
  joined,     \* how many rows each chat has had: its id is the last
  runs,       \* rows of digest_runs
  pass,       \* the goroutine: a tick over the subscribers
  onTime,     \* a pass that began in this hour has ended
  mode,       \* of the process
  faults, restarts,
  late,       \* history: an hour went by without a whole pass
  begun,      \* history: how often the first message of a digest arrived at a
              \* chat that is not flaky
  whole,      \* history: digests of which a whole copy arrived
  reported    \* history: the games that each digest told about

tables  == <<final, member, joined, runs>>
bounds  == <<faults, restarts>>
history == <<late, begun, whole, reported>>
vars    == <<now, tables, pass, onTime, mode, bounds, history>>

Ids  == Chats \X (1..MaxIds)
Days == -3..(Horizon \div DayLength)

Exists(id) == id[1] \in member /\ joined[id[1]] = id[2]
Rows == {<<c, joined[c]>> : c \in member}

(***************************************************************************)
(* The slots of a chat, in its local time.  The day of a slot is the date  *)
(* before the slot's own, whatever the date now is.                        *)
(***************************************************************************)
LocalTime(c, t) == t + Zone[c]

LastOccurrence(c, local) == local - ((local - DigestHour[c]) % DayLength)

DayOf(occurrence) == (occurrence \div DayLength) - 1

Slot(id, t) == LastOccurrence(id[1], LocalTime(id[1], t))
TooLate(id, t) == LocalTime(id[1], t) - Slot(id, t) > CatchUp

\* A bug: the date before that of the hour of the pass, and not of its slot.
DayOfNow(id, t) == DayOf(LocalTime(id[1], t))

DayOfSlot(id, t) == DayOf(Slot(id, t))

\* Games of the day before the slot.
GamesWithin(id, t) ==
  LET to == Slot(id, t) - Zone[id[1]]
  IN  {g \in Games : to - DayLength <= StartsAt[g] /\ StartsAt[g] < to}

(***************************************************************************)
(* The pass: the hour it was begun at, the rows still to visit, the days   *)
(* whose digest_runs it has read with what it found, and the delivery at   *)
(* hand.                                                                   *)
(***************************************************************************)
DeliveryTo(id) == [id |-> id, games |-> {}, part |-> 1, sent |-> FALSE]

Nobody == DeliveryTo(<<>>)

Idle == [pc |-> "tick", at |-> 0, todo |-> {}, read |-> {}, done |-> {},
         hand |-> Nobody]

Deliveries ==
  [id: Ids, games: SUBSET Games, part: 1..Parts, sent: BOOLEAN] \cup {Nobody}

TypeOK ==
  /\ now \in 0..Horizon /\ final \subseteq Games
  /\ member \subseteq Chats /\ joined \in [Chats -> 1..MaxIds]
  /\ runs \subseteq (Ids \X Days \X BOOLEAN)
  /\ pass \in [pc: {"tick", "loop", "compose", "send", "mark"}, at: 0..Horizon,
               todo: SUBSET Ids, read: SUBSET Days, done: SUBSET (Ids \X Days),
               hand: Deliveries]
  /\ onTime \in BOOLEAN /\ late \in BOOLEAN /\ mode \in {"up", "down"}
  /\ faults \in 0..MaxFaults /\ restarts \in 0..MaxRestarts
  /\ begun \in [Ids \X Days -> Nat] /\ whole \subseteq (Ids \X Days)
  /\ reported \subseteq (Ids \X Days \X Games)

Init ==
  /\ now = 0 /\ final = {} /\ member = Chats /\ joined = [c \in Chats |-> 1]
  /\ runs = {} /\ pass = Idle /\ onTime = FALSE /\ late = FALSE /\ mode = "up"
  /\ faults = 0 /\ restarts = 0
  /\ begun = [k \in Ids \X Days |-> 0] /\ whole = {} /\ reported = {}

(***************************** The world *********************************)

Clock ==
  /\ now < Horizon
  /\ now' = now + 1 /\ onTime' = FALSE /\ late' = (late \/ ~onTime)
  /\ UNCHANGED <<tables, pass, mode, bounds, begun, whole, reported>>

\* The poller stores that a game is over.
GameEnds(g) ==
  /\ StartsAt[g] < now /\ g \notin final
  /\ final' = final \cup {g}
  /\ UNCHANGED <<now, member, joined, runs, pass, onTime, mode, bounds, history>>

\* /stop deletes the row, and with it its rows of digest_runs.
DeleteSubscriber(c) ==
  /\ c \in member
  /\ member' = member \ {c}
  /\ runs' = {r \in runs : r[1] # <<c, joined[c]>>}
  /\ UNCHANGED <<now, final, joined, pass, onTime, mode, bounds, history>>

\* Any command of a chat without a row makes one, with an id of its own.
EnsureSubscriber(c) ==
  /\ c \notin member /\ joined[c] < MaxIds
  /\ member' = member \cup {c} /\ joined' = [joined EXCEPT ![c] = @ + 1]
  /\ UNCHANGED <<now, final, runs, pass, onTime, mode, bounds, history>>

Fault == faults < MaxFaults /\ faults' = faults + 1 /\ UNCHANGED restarts

(****************************** The pass *********************************)

Running(pc) == mode = "up" /\ pass.pc = pc

Over == pass' = Idle /\ onTime' = (onTime \/ pass.at = now)

\* The ticker ticks, and the pass reads its subscribers.
Tick ==
  /\ Running("tick")
  /\ \/ /\ pass' = [Idle EXCEPT !.pc = "loop", !.at = now, !.todo = Rows]
        /\ UNCHANGED <<onTime, bounds>>
     \/ Fault /\ pass' = Idle /\ onTime' = TRUE
  /\ UNCHANGED <<now, tables, mode, history>>

EndPass ==
  /\ Running("loop") /\ pass.todo = {} /\ Over
  /\ UNCHANGED <<now, tables, mode, bounds, history>>

Take(id) == [pass EXCEPT !.todo = @ \ {id}]

\* Days of digest_runs are read once in a pass.
Processed(day) == {k \in Ids \X {day} : \E s \in BOOLEAN : <<k[1], k[2], s>> \in runs}

Known(day) == IF day \in pass.read THEN pass.done ELSE pass.done \cup Processed(day)

\* A subscriber whose window is over, or whose day is processed, is passed by.
Visit(id) ==
  LET day == DayOfSlot(id, pass.at)
      next == [Take(id) EXCEPT !.read = @ \cup {day}, !.done = Known(day)]
  IN  /\ Running("loop") /\ id \in pass.todo
      /\ \/ /\ TooLate(id, pass.at)
            /\ pass' = Take(id) /\ UNCHANGED <<onTime, bounds>>
         \/ /\ ~TooLate(id, pass.at)
            /\ pass' = IF <<id, day>> \in Known(day) THEN next
                       ELSE [next EXCEPT !.pc = "compose", !.hand = DeliveryTo(id)]
            /\ UNCHANGED <<onTime, bounds>>
         \/ /\ ~TooLate(id, pass.at) /\ day \notin pass.read
            /\ Fault /\ Over
      /\ UNCHANGED <<now, tables, mode, history>>

\* The day of the delivery at hand, and the row of digest_runs that closes it.
Day == DayOfSlot(pass.hand.id, pass.at)
Key == <<pass.hand.id, Day>>

\* deliver returns; an error is logged, and the loop goes on as without one.
Return == pass' = [pass EXCEPT !.pc = "loop", !.hand = Nobody]

\* A bug: an error ends the pass.
Abort == pass' = [pass EXCEPT !.pc = "loop", !.hand = Nobody, !.todo = {}]

Err == Return

\* The reads of deliver, and Build, which keeps the games that are final.
Compose ==
  /\ Running("compose")
  /\ LET games == GamesWithin(pass.hand.id, pass.at) \cap final
     IN  \/ Fault /\ Err
         \/ /\ pass' = [pass EXCEPT !.pc = IF games = {} THEN "mark" ELSE "send",
                                    !.hand.games = games]
            /\ UNCHANGED bounds
  /\ UNCHANGED <<now, tables, onTime, mode, history>>

Arrives ==
  /\ begun' = IF pass.hand.part = 1 /\ pass.hand.id[1] \notin Flaky
              THEN [begun EXCEPT ![Key] = @ + 1] ELSE begun
  /\ reported' = reported \cup ({pass.hand.id} \X {Day} \X pass.hand.games)
  /\ whole' = IF pass.hand.part = Parts THEN whole \cup {Key} ELSE whole
  /\ UNCHANGED late

\* SendMessage, for one part of SendDigest.
SendPart ==
  /\ Running("send") /\ Arrives
  /\ pass' = IF pass.hand.part = Parts THEN [pass EXCEPT !.pc = "mark", !.hand.sent = TRUE]
             ELSE [pass EXCEPT !.hand.part = @ + 1]
  /\ UNCHANGED <<now, tables, onTime, mode, bounds>>

\* The chat has blocked the bot: the day is closed all the same.
SendRefused ==
  /\ Running("send")
  /\ pass' = [pass EXCEPT !.pc = "mark"]
  /\ UNCHANGED <<now, tables, onTime, mode, bounds, history>>

\* A bug: the loop over the parts goes on after an error.
PartIsSkipped ==
  /\ Running("send") /\ Fault
  /\ pass' = IF pass.hand.part = Parts THEN [pass EXCEPT !.pc = "mark", !.hand.sent = TRUE]
             ELSE [pass EXCEPT !.hand.part = @ + 1]
  /\ UNCHANGED <<now, tables, onTime, mode, history>>

\* Any other error; the message may have arrived.
SendFails ==
  /\ Running("send") /\ Err
  /\ \/ pass.hand.id[1] \in Flaky /\ UNCHANGED <<bounds, history>>
     \/ Fault /\ (Arrives \/ UNCHANGED history)
  /\ UNCHANGED <<now, tables, onTime, mode>>

\* A bug: only a digest that was sent closes its day.
MarkWhatWasSent ==
  /\ Running("mark") /\ Return
  /\ runs' = IF pass.hand.sent THEN runs \cup {<<pass.hand.id, Day, TRUE>>} ELSE runs
  /\ UNCHANGED <<now, final, member, joined, onTime, mode, bounds, history>>

\* A row of digest_runs refers to one of subscribers, and stays if it is there.
MarkDigestProcessed ==
  /\ Running("mark")
  /\ LET insert == IF Exists(pass.hand.id) /\ Key \notin Processed(Day)
                   THEN runs' = runs \cup {<<pass.hand.id, Day, pass.hand.sent>>}
                   ELSE UNCHANGED runs
     IN  \/ Fault /\ Err /\ (insert \/ UNCHANGED runs)
         \/ insert /\ (IF Exists(pass.hand.id) THEN Return ELSE Err) /\ UNCHANGED bounds
  /\ UNCHANGED <<now, final, member, joined, onTime, mode, history>>

Deliver == Compose \/ SendPart \/ SendRefused \/ SendFails \/ MarkDigestProcessed

\* The process ends, by a signal or a crash, and is started again.
Stop ==
  /\ mode = "up" /\ restarts < MaxRestarts /\ restarts' = restarts + 1
  /\ mode' = "down" /\ pass' = Idle
  /\ UNCHANGED <<now, tables, onTime, faults, history>>

Start ==
  /\ mode = "down" /\ mode' = "up"
  /\ UNCHANGED <<now, tables, pass, onTime, bounds, history>>

Scheduler == Tick \/ EndPass \/ (\E id \in Ids : Visit(id)) \/ Deliver

Next ==
  \/ Clock \/ \E g \in Games : GameEnds(g)
  \/ \E c \in Fickle : DeleteSubscriber(c) \/ EnsureSubscriber(c)
  \/ Scheduler \/ Stop \/ Start

Spec == Init /\ [][Next]_vars

(***************************** Properties ********************************)

Closed(id, day) == \E s \in BOOLEAN : <<id, day, s>> \in runs

\* Every copy of a digest beyond the first is owed to a failed call or to the end of
\* the process, as sending and marking are not one transaction, or to a /stop
\* that deletes the mark of a day from under a pass.
Steady == {id \in Ids : id[1] \notin Flaky}
Again == UNION {{k} \X (2..begun[k]) : k \in Steady \X Days}
Departed == {id \in Ids : id[2] <= joined[id[1]] /\ ~Exists(id)}
CopiesAccounted == Cardinality(Again) <= faults + restarts + Cardinality(Departed)

\* A day is closed as sent only when one whole copy has arrived.
SentMeansWhole == \A r \in runs : r[3] => <<r[1], r[2]>> \in whole

\* The days of a subscriber share no game, though a digest may go out after midnight
\* or hours late, or start over after a failure.
OneDayPerGame ==
  \A x, y \in reported : x[1] = y[1] /\ x[3] = y[3] => x[2] = y[2]

\* The hour of the slot of a day.
SlotOf(c, day) == (day + 1) * DayLength + DigestHour[c] - Zone[c]

\* A slot whose window is over has been processed, for everyone who was there before
\* it and whom Telegram does not fail, if every hour has seen a whole pass and
\* fewer calls fail than the window has hours: a failure, a restart, or the
\* trouble of another subscriber delays a digest and does not cost it.
NoDigestMissed ==
  ~late /\ faults <= CatchUp => \A c \in member \ Flaky, day \in Days :
    (joined[c] = 1 /\ 0 <= SlotOf(c, day) /\ SlotOf(c, day) + CatchUp < now) =>
      Closed(<<c, 1>>, day)
=============================================================================
