----------------------------- MODULE LivePoller -----------------------------
(***************************************************************************)
(* The live poller: one goroutine scans the scoreboard of two days, stores *)
(* the games and starts a watcher for each game that is or is about to be  *)
(* on; a watcher polls the plays of its game, saves the events they make,  *)
(* publishes those that are new, and stores the statistics at the end.     *)
(*                                                                         *)
(* A call of the provider takes a slot of the semaphore, in one step, and  *)
(* answers and returns the slot in another; a store call and a channel     *)
(* operation are one step.  Tickers may tick at any time.  Every play is   *)
(* an event of its own (module Detector says which ones really are), next  *)
(* to the two of the life of the game.  Events of one poll are published   *)
(* in any order: it is their wall clock that orders them.                  *)
(***************************************************************************)
EXTENDS Integers, FiniteSets

CONSTANTS
  Games,
  Slate,          \* the games on the scoreboard of each of the two days
  Shown,          \* the statuses that the provider shows a game in
  MaxPlays,       \* bound: plays of a game
  PageSize,       \* plays on a page of the provider
  MaxInflight,    \* capacity of the semaphore
  Buffer,         \* capacity of the bus
  StatsAttempts,  \* attempts of the policy of finish
  MaxFaults,      \* bound: how many live calls of provider and store fail
  MaxRestarts     \* bound: how many times the process stops or crashes

Days == {1, 2}

\* A game is "early" while it is scheduled and starts later than watchLead from now.
Statuses == {"early", "scheduled", "live", "final", "postponed"}

ASSUME LivePollerAssumption ==
  /\ IsFiniteSet(Games)
  /\ Slate \in [Days -> SUBSET Games] /\ Shown \subseteq Statuses
  /\ MaxPlays \in Nat /\ PageSize \in Nat \ {0}
  /\ MaxInflight \in Nat \ {0} /\ Buffer \in Nat \ {0}
  /\ StatsAttempts \in Nat \ {0}
  /\ MaxFaults \in Nat /\ MaxRestarts \in Nat

VARIABLES
  feed,        \* the provider's view of each game
  stored,      \* status of the rows of games
  begun,       \* history: the games whose row has ever said that they have begun
  saved,       \* rows of game_events
  statistics,  \* statistics of the games: "stats_at" is set when done
  scan,        \* the goroutine of Run
  watcher,     \* the goroutines of the watchers, and the map of mailboxes
  inflight,    \* slots of the semaphore in use
  backlog,     \* events on the bus
  closed,      \* the bus is closed
  mode,        \* of the process
  faults, restarts,   \* bounded by MaxFaults and MaxRestarts
  published    \* history: how often each event was put on the bus

gameRows == <<stored, begun>>
tables   == <<gameRows, saved, statistics>>
bus      == <<backlog, closed>>
bounds   == <<faults, restarts>>
vars     == <<feed, tables, scan, watcher, inflight, bus, mode, bounds, published>>

IsActive(status) == status \in {"early", "scheduled", "live"}
IsOver(status)   == status \in {"final", "postponed"}
TooEarly(status) == status = "early"

PlayIds == 1..MaxPlays
Started == 0
Ending  == MaxPlays + 1
AllEvents   == Games \X (0..MaxPlays + 1)

Detect(status, plays) ==
  plays \cup (IF status \in {"live", "final"} THEN {Started} ELSE {})
        \cup (IF status = "final" THEN {Ending} ELSE {})

(***************************************************************************)
(* A watcher.  "game" is the status it last heard of, "mail" its mailbox,  *)
(* "fresh" what a poll has saved and not published yet, "failed" the error *)
(* of the last poll.  A game is in the map of watchers unless it is off.   *)
(***************************************************************************)
NoWatcher ==
  [pc |-> "off", game |-> "early", mail |-> "none", cursor |-> 1, seen |-> {},
   fresh |-> {}, failed |-> FALSE, tries |-> 0]

NewWatcher(status) == [NoWatcher EXCEPT !.pc = "poll", !.game = status]

Watchers ==
  [pc: {"off", "poll", "plays", "save", "publish", "wait", "box", "boxing",
        "stats", "backoff", "leaving"},
   game: Statuses, mail: Statuses \cup {"none"}, cursor: Nat \ {0},
   seen: SUBSET PlayIds, fresh: SUBSET (0..MaxPlays + 1), failed: BOOLEAN,
   tries: 0..StatsAttempts]

\* The goroutine of Run: "found" are the games a scan has fetched so far.
NoScan  == [pc |-> "acquire", day |-> 1, found |-> {}]
Resting == [NoScan EXCEPT !.pc = "wait"]

Scans ==
  [pc: {"acquire", "call", "upsert", "track", "wait", "drain", "done"},
   day: Days, found: SUBSET (Games \X Statuses)]

NoStats == [done |-> FALSE, plays |-> {}, failed |-> FALSE]

TypeOK ==
  /\ feed \in [Games -> [status: Statuses, plays: 0..MaxPlays]]
  /\ stored \in [Games -> Statuses \cup {"none"}]
  /\ begun \subseteq Games /\ saved \subseteq AllEvents
  /\ statistics \in [Games -> [done: BOOLEAN, plays: SUBSET PlayIds, failed: BOOLEAN]]
  /\ scan \in Scans /\ watcher \in [Games -> Watchers]
  /\ inflight \in 0..MaxInflight /\ backlog \in 0..Buffer /\ closed \in BOOLEAN
  /\ mode \in {"up", "stopping", "down"}
  /\ faults \in 0..MaxFaults /\ restarts \in 0..MaxRestarts
  /\ published \in [AllEvents -> Nat]

Init ==
  /\ feed \in [Games -> [status: Shown \ {"final"}, plays: {0}]]
  /\ stored = [g \in Games |-> "none"] /\ begun = {} /\ saved = {}
  /\ statistics = [g \in Games |-> NoStats]
  /\ scan = NoScan /\ watcher = [g \in Games |-> NoWatcher]
  /\ inflight = 0 /\ backlog = 0 /\ closed = FALSE /\ mode = "up"
  /\ faults = 0 /\ restarts = 0
  /\ published = [e \in AllEvents |-> 0]

(***************************** The provider ******************************)

\* The provider may show any status after any other (a suspended game counts as
\* postponed, and may be scheduled again), but a final game stays final.
GameMoves(g) ==
  /\ feed[g].status # "final"
  /\ \E s \in Shown \ {feed[g].status} : feed' = [feed EXCEPT ![g].status = s]
  /\ UNCHANGED <<tables, scan, watcher, inflight, bus, mode, bounds, published>>

PlayHappens(g) ==
  /\ feed[g].status = "live" /\ feed[g].plays < MaxPlays
  /\ feed' = [feed EXCEPT ![g].plays = @ + 1]
  /\ UNCHANGED <<tables, scan, watcher, inflight, bus, mode, bounds, published>>

\* A call fails when its context is done, or for its own reasons; one that was
\* out when the context was cancelled may still succeed.
CallFails ==
  \/ mode = "stopping" /\ UNCHANGED bounds
  \/ /\ mode = "up" /\ faults < MaxFaults
     /\ faults' = faults + 1 /\ UNCHANGED restarts

(******************************* The scan ********************************)

ScanAt(pc) == mode # "down" /\ scan.pc = pc

AcquireForScan ==
  /\ ScanAt("acquire")
  /\ \/ /\ inflight < MaxInflight /\ inflight' = inflight + 1
        /\ scan' = [scan EXCEPT !.pc = "call"]
     \/ /\ mode = "stopping" /\ scan' = Resting
        /\ UNCHANGED inflight
  /\ UNCHANGED <<feed, tables, watcher, bus, mode, bounds, published>>

\* A game on both days is taken from the first.
Fetched(day) ==
  scan.found \cup {<<g, feed[g].status>> : g \in
                     {h \in Slate[day] : \A f \in scan.found : f[1] # h}}

FetchDay ==
  /\ ScanAt("call")
  /\ inflight' = inflight - 1
  /\ \/ CallFails /\ scan' = Resting
     \/ /\ UNCHANGED bounds
        /\ scan' = IF scan.day = 2 /\ Fetched(2) = {} THEN Resting
                   ELSE [pc    |-> IF scan.day = 1 THEN "acquire" ELSE "upsert",
                         day   |-> 2,
                         found |-> Fetched(scan.day)]
  /\ UNCHANGED <<feed, tables, watcher, bus, mode, published>>

\* What a scan has found: the status of a game, and the new rows of games.
FoundGames == {f[1] : f \in scan.found}
Found(g)   == CHOOSE s \in Statuses : <<g, s>> \in scan.found
Upserted   == [g \in Games |-> IF g \in FoundGames THEN Found(g) ELSE stored[g]]
HasBegun(status) == status \in {"live", "final"}

StoreRows ==
  /\ stored' = Upserted
  /\ begun' = begun \cup {g \in FoundGames : HasBegun(Found(g))}

\* A bug: the games are tracked whether or not they could be stored.
UpsertThenTrackAnyway ==
  /\ ScanAt("upsert")
  /\ scan' = [scan EXCEPT !.pc = "track"]
  /\ \/ CallFails /\ (StoreRows \/ UNCHANGED gameRows)
     \/ UNCHANGED bounds /\ StoreRows
  /\ UNCHANGED <<feed, saved, statistics, watcher, inflight, bus, mode, published>>

\* One batch, which the server runs as one transaction; it may have committed when
\* the call fails.  Its guard on observed_at always holds: only this goroutine
\* writes, with its own clock.
UpsertGames ==
  /\ ScanAt("upsert")
  /\ \/ CallFails /\ scan' = Resting /\ (StoreRows \/ UNCHANGED gameRows)
     \/ UNCHANGED bounds /\ scan' = [scan EXCEPT !.pc = "track"] /\ StoreRows
  /\ UNCHANGED <<feed, saved, statistics, watcher, inflight, bus, mode, published>>

\* A bug of track: an update goes only to the watcher of an active game.
TrackedWhileActive(w, status) ==
  IF ~IsActive(status) \/ TooEarly(status) THEN w
  ELSE IF w.pc = "off" THEN NewWatcher(status)
  ELSE IF w.mail = "none" THEN [w EXCEPT !.mail = status] ELSE w

\* track: a running watcher gets the update if its mailbox is empty, and a
\* watcher starts for an active game that is not too early.
Tracked(w, status) ==
  IF w.pc # "off" THEN (IF w.mail = "none" THEN [w EXCEPT !.mail = status] ELSE w)
  ELSE IF IsActive(status) /\ ~TooEarly(status) THEN NewWatcher(status) ELSE w

\* The loop over the games in one step: each turn touches one watcher alone.
Track ==
  /\ ScanAt("track")
  /\ watcher' = [g \in Games |->
       IF g \in FoundGames THEN Tracked(watcher[g], Found(g)) ELSE watcher[g]]
  /\ scan' = Resting
  /\ UNCHANGED <<feed, tables, inflight, bus, mode, bounds, published>>

NextScan ==
  /\ ScanAt("wait") /\ scan' = NoScan
  /\ UNCHANGED <<feed, tables, watcher, inflight, bus, mode, bounds, published>>

\* A bug: the loop waits for its ticker alone.
ScanForever ==
  /\ ScanAt("wait") /\ mode = "stopping"
  /\ UNCHANGED vars

StopScanning ==
  /\ ScanAt("wait") /\ mode = "stopping"
  /\ scan' = [scan EXCEPT !.pc = "drain"]
  /\ UNCHANGED <<feed, tables, watcher, inflight, bus, mode, bounds, published>>

\* A bug: Run does not wait for its watchers.
RunReturnsAtOnce ==
  /\ ScanAt("drain")
  /\ scan' = [scan EXCEPT !.pc = "done"] /\ closed' = TRUE
  /\ UNCHANGED <<feed, tables, watcher, inflight, backlog, mode, bounds, published>>

\* Run waits for its watchers, and main closes the bus behind it.
RunReturns ==
  /\ ScanAt("drain") /\ \A g \in Games : watcher[g].pc = "off"
  /\ scan' = [scan EXCEPT !.pc = "done"] /\ closed' = TRUE
  /\ UNCHANGED <<feed, tables, watcher, inflight, backlog, mode, bounds, published>>

(****************************** A watcher ********************************)

At(g, pc) == mode # "down" /\ watcher[g].pc = pc
Become(g, record) == watcher' = [watcher EXCEPT ![g] = record]

\* What run does after a poll: a cancelled poll and a postponed game end it.
AfterPoll(w, failed) ==
  [w EXCEPT !.fresh = {}, !.failed = failed,
            !.pc = IF (failed /\ mode = "stopping") \/ w.game = "postponed" THEN "leaving"
                   ELSE IF w.game = "final" THEN "box" ELSE "wait"]

\* A bug: no semaphore.
PlaysAtWill(g) ==
  /\ At(g, "poll") /\ inflight' = inflight + 1
  /\ Become(g, [watcher[g] EXCEPT !.pc = "plays"])
  /\ UNCHANGED <<feed, tables, scan, bus, mode, bounds, published>>

AcquireForPlays(g) ==
  /\ At(g, "poll")
  /\ \/ /\ inflight < MaxInflight /\ inflight' = inflight + 1
        /\ Become(g, [watcher[g] EXCEPT !.pc = "plays"])
     \/ /\ mode = "stopping" /\ Become(g, AfterPoll(watcher[g], TRUE))
        /\ UNCHANGED inflight
  /\ UNCHANGED <<feed, tables, scan, bus, mode, bounds, published>>

\* A bug: the cursor points behind the last page, which may still grow.
PageAfter(n) == 1 + (n + PageSize - 1) \div PageSize

Pages(n) == IF n = 0 THEN 1 ELSE (n + PageSize - 1) \div PageSize

\* The plays from the page of the cursor on, and the last page as the cursor.
PlaysFrom(g, cursor) ==
  {i \in PlayIds : (cursor - 1) * PageSize < i /\ i <= feed[g].plays}

\* fetchPlays, merge and Detect.
Plays(g) ==
  /\ At(g, "plays")
  /\ inflight' = inflight - 1
  /\ \/ CallFails /\ Become(g, AfterPoll(watcher[g], TRUE))
     \/ /\ UNCHANGED bounds
        /\ LET w == [watcher[g] EXCEPT !.cursor = Pages(feed[g].plays),
                       !.seen = @ \cup PlaysFrom(g, watcher[g].cursor)]
           IN  Become(g, IF Detect(w.game, w.seen) = {} THEN AfterPoll(w, FALSE)
                         ELSE [w EXCEPT !.pc = "save"])
  /\ UNCHANGED <<feed, tables, scan, bus, mode, published>>

\* A bug: the insertion returns the rows that were there as well.
AllOf(g, ids) == ids

Unsaved(g, ids) == {i \in ids : <<g, i>> \notin saved}

SaveEvents(g) ==
  /\ At(g, "save")
  /\ LET w     == watcher[g]
         ids   == Detect(w.game, w.seen)
         fresh == Unsaved(g, ids)
         Insert == saved' = saved \cup ({g} \X ids)
     IN  \/ CallFails /\ Become(g, AfterPoll(w, TRUE)) /\ (Insert \/ UNCHANGED saved)
         \/ /\ UNCHANGED bounds /\ Insert
            /\ Become(g, IF fresh = {} THEN AfterPoll(w, FALSE)
                         ELSE [w EXCEPT !.pc = "publish", !.fresh = fresh])
  /\ UNCHANGED <<feed, gameRows, statistics, scan, inflight, bus, mode, published>>

Publish(g) ==
  /\ At(g, "publish") /\ backlog < Buffer /\ backlog' = backlog + 1
  /\ \E i \in watcher[g].fresh :
       /\ published' = [published EXCEPT ![<<g, i>>] = @ + 1]
       /\ Become(g, IF watcher[g].fresh = {i} THEN AfterPoll(watcher[g], FALSE)
                    ELSE [watcher[g] EXCEPT !.fresh = @ \ {i}])
  /\ UNCHANGED <<feed, tables, scan, inflight, closed, mode, bounds>>

\* A bug: Publish does not wait for room.
PublishWithoutWaiting(g) ==
  /\ At(g, "publish") /\ (mode = "stopping" \/ backlog = Buffer)
  /\ Become(g, AfterPoll(watcher[g], TRUE))
  /\ UNCHANGED <<feed, tables, scan, inflight, bus, mode, bounds, published>>

PublishCancelled(g) ==
  /\ At(g, "publish") /\ mode = "stopping"
  /\ Become(g, AfterPoll(watcher[g], TRUE))
  /\ UNCHANGED <<feed, tables, scan, inflight, bus, mode, bounds, published>>

Hear(g) ==
  /\ At(g, "wait") /\ watcher[g].mail # "none"
  /\ Become(g, [watcher[g] EXCEPT !.pc = "poll", !.game = watcher[g].mail,
                                  !.mail = "none"])
  /\ UNCHANGED <<feed, tables, scan, inflight, bus, mode, bounds, published>>

PollAgain(g) ==
  /\ At(g, "wait") /\ Become(g, [watcher[g] EXCEPT !.pc = "poll"])
  /\ UNCHANGED <<feed, tables, scan, inflight, bus, mode, bounds, published>>

Cancelled(g) ==
  /\ (At(g, "wait") \/ At(g, "backoff")) /\ mode = "stopping"
  /\ Become(g, [watcher[g] EXCEPT !.pc = "leaving"])
  /\ UNCHANGED <<feed, tables, scan, inflight, bus, mode, bounds, published>>

\* retry.Do: after a failed attempt, a pause, unless it was the last or the
\* context is done.
AfterAttempt(w) ==
  [w EXCEPT !.tries = @ + 1,
            !.pc = IF mode = "stopping" \/ w.tries + 1 = StatsAttempts
                   THEN "leaving" ELSE "backoff"]

AcquireForBox(g) ==
  /\ At(g, "box")
  /\ \/ /\ inflight < MaxInflight /\ inflight' = inflight + 1
        /\ Become(g, [watcher[g] EXCEPT !.pc = "boxing"])
     \/ /\ mode = "stopping" /\ Become(g, AfterAttempt(watcher[g]))
        /\ UNCHANGED inflight
  /\ UNCHANGED <<feed, tables, scan, bus, mode, bounds, published>>

\* A bug: the slot is returned only by a call that succeeds.
BoxScoreKeepingSlot(g) ==
  /\ At(g, "boxing")
  /\ \/ CallFails /\ Become(g, AfterAttempt(watcher[g])) /\ UNCHANGED inflight
     \/ /\ UNCHANGED bounds /\ inflight' = inflight - 1
        /\ Become(g, [watcher[g] EXCEPT !.pc = "stats"])
  /\ UNCHANGED <<feed, tables, scan, bus, mode, published>>

BoxScore(g) ==
  /\ At(g, "boxing")
  /\ inflight' = inflight - 1
  /\ \/ CallFails /\ Become(g, AfterAttempt(watcher[g]))
     \/ UNCHANGED bounds /\ Become(g, [watcher[g] EXCEPT !.pc = "stats"])
  /\ UNCHANGED <<feed, tables, scan, bus, mode, published>>

SaveGameStats(g) ==
  /\ At(g, "stats")
  /\ LET w == watcher[g]
         Save == statistics' = [statistics EXCEPT ![g] =
                   [done |-> TRUE, plays |-> w.seen, failed |-> w.failed]]
     IN  \/ CallFails /\ Become(g, AfterAttempt(w)) /\ (Save \/ UNCHANGED statistics)
         \/ /\ UNCHANGED bounds /\ Save
            /\ Become(g, [w EXCEPT !.pc = "leaving"])
  /\ UNCHANGED <<feed, gameRows, saved, scan, inflight, bus, mode, published>>

TryAgain(g) ==
  /\ At(g, "backoff") /\ Become(g, [watcher[g] EXCEPT !.pc = "box"])
  /\ UNCHANGED <<feed, tables, scan, inflight, bus, mode, bounds, published>>

\* forget, and then Done of the wait group.
Forget(g) ==
  /\ At(g, "leaving") /\ Become(g, NoWatcher)
  /\ UNCHANGED <<feed, tables, scan, inflight, bus, mode, bounds, published>>

WatcherStep(g) ==
  \/ AcquireForPlays(g) \/ Plays(g) \/ SaveEvents(g)
  \/ Publish(g) \/ PublishCancelled(g)
  \/ Hear(g) \/ PollAgain(g) \/ Cancelled(g)
  \/ AcquireForBox(g) \/ BoxScore(g) \/ SaveGameStats(g) \/ TryAgain(g) \/ Forget(g)

ScanStep ==
  \/ AcquireForScan \/ FetchDay \/ UpsertGames \/ Track
  \/ NextScan \/ StopScanning \/ RunReturns

(***************************** The process *******************************)

\* The dispatcher takes an event off the bus.
Consume ==
  /\ mode # "down" /\ backlog > 0 /\ backlog' = backlog - 1
  /\ UNCHANGED <<feed, tables, scan, watcher, inflight, closed, mode, bounds, published>>

Shutdown ==
  /\ mode = "up" /\ restarts < MaxRestarts
  /\ mode' = "stopping" /\ restarts' = restarts + 1
  /\ UNCHANGED <<feed, tables, scan, watcher, inflight, bus, faults, published>>

Vanish ==
  /\ mode' = "down" /\ scan' = NoScan
  /\ watcher' = [g \in Games |-> NoWatcher]
  /\ inflight' = 0 /\ backlog' = 0 /\ closed' = FALSE
  /\ UNCHANGED <<feed, tables, faults, published>>

Exit  == mode = "stopping" /\ scan.pc = "done" /\ Vanish /\ UNCHANGED restarts
Crash ==
  /\ mode # "down" /\ restarts < MaxRestarts
  /\ restarts' = restarts + 1 /\ Vanish

Start ==
  /\ mode = "down" /\ mode' = "up"
  /\ UNCHANGED <<feed, tables, scan, watcher, inflight, bus, bounds, published>>

Next ==
  \/ \E g \in Games : GameMoves(g) \/ PlayHappens(g) \/ WatcherStep(g)
  \/ ScanStep \/ Consume \/ Shutdown \/ Exit \/ Crash \/ Start

Spec == Init /\ [][Next]_vars

\* The scheduler runs every goroutine, the semaphore serves its waiters in order,
\* a select chooses among its ready cases at random, the dispatcher drains the
\* bus, and the supervisor of the container restarts the process.
Fairness ==
  /\ WF_vars(ScanStep) /\ SF_vars(AcquireForScan) /\ SF_vars(StopScanning)
  /\ \A g \in Games :
       /\ WF_vars(WatcherStep(g)) /\ SF_vars(Hear(g)) /\ SF_vars(Cancelled(g))
       /\ SF_vars(AcquireForPlays(g) \/ AcquireForBox(g))
  /\ WF_vars(Consume) /\ WF_vars(Exit) /\ WF_vars(Start)

FairSpec == Spec /\ Fairness

(***************************** Properties ********************************)

\* An event goes on the bus once at most, over all the watchers its game has had
\* (a suspended game, a restart), and only when its row has been saved.
PublishedOnce ==
  \A e \in AllEvents :
    published[e] <= (IF e \in saved /\ e[2] \notin watcher[e[1]].fresh THEN 1 ELSE 0)

\* The watchers whose call of the provider is out.
InCall == {g \in Games : watcher[g].pc \in {"plays", "boxing"}}

\* The slots in use are those of the calls that are out: none is lost on a path
\* that fails or is cancelled.
SlotsAreReturned ==
  inflight = Cardinality(InCall) + (IF scan.pc = "call" THEN 1 ELSE 0)

\* Nothing can be sent on a closed bus: a watcher left behind would panic.
ClosedBusIsQuiet == closed => \A g \in Games : watcher[g].pc = "off"

\* The rows of games run ahead of their events: before anybody is told, by an alert or
\* in a digest, that a game has started or has ended, its row has said so, the end for
\* good; and a watched game has a row for its events to refer to.
RowsLeadEvents ==
  \A g \in Games :
    /\ watcher[g].pc # "off" => stored[g] # "none"
    /\ <<g, Started>> \in saved => g \in begun
    /\ <<g, Ending>> \in saved => stored[g] = "final"

\* Statistics made after a last poll that went well rest on every play of the
\* game, whatever pages, restarts and faults came before, and by then every event
\* of the game has been saved.
StatisticsCoverTheGame ==
  \A g \in Games :
    (statistics[g].done /\ ~statistics[g].failed) =>
      /\ feed[g].status = "final"
      /\ statistics[g].plays = 1..feed[g].plays
      /\ {g} \X Detect("final", statistics[g].plays) \subseteq saved

\* A watcher ends without statistics when all attempts of finish have failed, or when
\* the last it heard of its game is that it was postponed.
GivesUp(g) ==
  /\ watcher[g].pc = "leaving"
  /\ watcher[g].tries = StatsAttempts \/ watcher[g].game = "postponed"

\* A game that is on is found, after any number of failed scans and a restart in
\* the middle of it; and the end of a game that is watched is noticed, even when
\* updates are dropped at a full mailbox and calls fail: then its statistics are
\* stored, unless every attempt fails, a suspension has ended the watcher, or the
\* process ends.
GamesAreFollowed ==
  /\ \A g \in UNION {Slate[d] : d \in Days} :
       feed[g].status = "live" ~> (watcher[g].pc # "off" \/ feed[g].status # "live")
  /\ \A g \in Games :
       (watcher[g].pc # "off" /\ feed[g].status = "final") ~>
         (statistics[g].done \/ GivesUp(g) \/ mode # "up")

\* A process told to stop stops, with no watcher left behind.
ShutdownCompletes == mode = "stopping" ~> mode = "down"

\* Whatever the watchers do, to the rows and to the bus, is a step that the alert
\* pipeline reckons with: no event is published that is not a row, none is left off
\* the bus but by a cancelled watcher or an error of its insertion, and nothing
\* comes after the bus is closed.
Feed == INSTANCE EventFeed WITH
  Ids <- AllEvents, unpublished <- {e \in AllEvents : e[2] \in watcher[e[1]].fresh}

FeedsTheDispatcher == Feed!FeedSpec

\* What TestPollerRunsAGameToTheEnd expects of a game run to the end: its plays and
\* its end are events.
NoEventIsMissed ==
  \A g \in Games :
    statistics[g].done => {g} \X Detect("final", 1..feed[g].plays) \subseteq saved
=============================================================================
