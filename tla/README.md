# nba-digest in TLA+

nba-digest is a Telegram bot. It follows live games through the ESPN feed, stores
what happens in PostgreSQL, sends an alert to the chats that follow a team when a
game has a close finish, and sends every subscriber a digest of yesterday's games
once a day. One Go process does all of it in a handful of goroutines; the only
durable state is the database, and the only thing that sees the bot's effects is
Telegram, which cannot be asked what it has already received.

This directory holds TLA+ modules of the parts of the program that are hard to
get right, TLC configurations that check them on small instances, and proofs,
checked by TLAPS, of the properties that matter most.

## Inventory

| Component | State | Operations | Meets |
|---|---|---|---|
| live poller (`live/poller.go`) | map of watchers with a one-slot mailbox each, semaphore of 4, wait group | `Run`, `scan`, `track`, `forget`, `acquire` | provider, store, watchers, bus |
| watcher (`live/watcher.go`, `detector.go`, `aggregate.go`) | last known game, plays seen, detector state | `run`, `poll`, `merge`, `finish` | provider, store, bus |
| event bus (`eventbus/inmem`) | channel of 256 events | `Publish`, `Consume`, `Close` | watchers, dispatcher |
| alerts dispatcher (`alerts`) | two goroutines; everything else in the tables | `Run`, `catchUp`, `retryLoop`, `Dispatch`, `mark` | bus, store, Telegram |
| digest scheduler (`digest`) | a ticker, and the days processed as read from the store | `Run`, `Tick`, `deliver`, `Build` | store, Telegram |
| subscriptions (`subscription`) | none: subscriber and subscription rows | `Handle` and its menu, toggles and settings | store, Telegram |
| Telegram client (`telegram/client.go`, `messages.go`) | limiters per chat, a global limiter, "icons refused" | `SendMessage`, `call`, `SendEvent`, `SendDigest` | Telegram |
| update sources (`telegram/polling.go`, `webhook.go`, `update.go`) | the offset of the next update, the batch in hand | `Run`, `ServeHTTP`, `dispatch` | Telegram, subscriptions |
| store (`storage/postgres`) | the tables of `migrations/` | one SQL statement, batch or transaction for each call | everybody |
| ESPN client (`provider/espn`, `platform/retry`), replay provider (`provider/replay`) | codes of the teams; the attempts of a request; the replay clock | `Games`, `Plays`, `BoxScore`, `Standings` | poller, watcher |
| heartbeat (`heartbeat`), metrics | last snapshot, last reported day | `Tick`, `Snapshot` | metrics, Telegram |
| HTTP server, configuration, `main` | a cancellable context shared by all | `run`, `supervise` | everybody |

What each must get right:

* **dispatcher**: at least one copy of an alert for everyone who wanted it, a bounded
  number of copies, no alert for those who did not ask or for stale events, a table
  that never claims what did not happen, a shutdown that ends;
* **poller and watchers**: every event of a game is saved and offered once, nothing is
  sent on a closed bus, at most four calls to the provider at a time, no watcher left
  behind, the statistics of a game seen to end stored unless every attempt fails;
* **scheduler**: a digest a day for each subscriber, none twice, none missed within
  three hours of its time;
* **detector**: the events of a game do not depend on how it was polled; runs, comebacks
  and a close finish are what their thresholds say;
* **subscriptions**: the rows are what the user last saw and chose, under concurrent
  and repeated updates;
* **update sources**: an update is confirmed only when it has been handled, and handled
  once for each delivery;
* **Telegram client**: a chat's messages are a second apart and in order, no message is
  sent twice by a retry, every call ends, a digest is cut where it may be;
* **providers**: an answer has every play made before the question, and a final game is
  final with all its plays;
* **heartbeat**: each count since the reporter was made is told once, on each day once;
* **main**: one component that returns ends all, in an order in which none waits for
  another, and the exit code says whether anything went wrong.

What is hard: the database is shared by goroutines that hold no lock across
statements; a message cannot be recalled and its acknowledgement can be lost; the
process can stop between any two steps and the bus with it; the contexts of a shutdown
end at different times. `PROJECT.json` lists these hazards one by one, each at the line
where it bites, with the properties that watch it.

## The modules

| Module | What it is |
|---|---|
| `Alerts` | the dispatcher's two goroutines, the four tables they share, the bus, the process, the user |
| `AlertLedger` | what alerts promise, without goroutines, bus or process; `Alerts` refines it |
| `EventFeed` | what alerts assume of the watchers: rows, bus and shutdown alone; `LivePoller` refines it |
| `AlertsProofs` | theorems about `Alerts` |
| `LivePoller` | the scan, the watchers, the semaphore, the mailboxes, shutdown and restart |
| `LivePollerMC`, `LivePollerProofs` | scoreboards of the runs; theorems |
| `DigestScheduler` | the pass over the subscribers, slots and windows in the zone of each, delivery and marking |
| `DigestSchedulerMC`, `DigestSchedulerProofs` | zones, hours and games of the runs; theorems |
| `Detector` | what plays mean: runs, comebacks, close finish, clutch points, and polling |
| `DetectorMC`, `DetectorProofs` | periods and clocks of the runs; theorems |
| `Commands` | the updates of a chat, the poller or the webhook that takes them, `Service.Handle`, the reply on the screen |
| `CommandsMC`, `CommandsProofs` | what the user of the run does; theorems |
| `Messages` | how a digest is cut into messages, and what a good cut is |
| `MessagesProofs` | that the cut is good for any digest |
| `TelegramClient` | calls of the Telegram API: limiters per chat, retries after 429, refused icons, the messages of a digest |
| `TelegramClientMC`, `TelegramClientProofs` | the digest that the callers of the run send; theorems |
| `ScoreProvider` | what a provider of scores promises to the one who watches a game |
| `Provider` | the ESPN client page by page, and the replay of a recording; both refine `ScoreProvider` |
| `Heartbeat` | the counters and the daily report made of them |
| `Supervisor` | `run` from the signal handler to the exit code, `supervise`, the http server |
| `ServiceMC` | the last three and `Messages` for one run, one at a time |
| `ServiceProofs` | theorems about `Provider`, `Heartbeat`, `Supervisor` and the digests of `ServiceMC` |

How they fit: `LivePoller` ends where an event is on the bus, and `Alerts` begins there
(its `SaveEvent`, `Publish`, `PublishCancelled` and `CloseBus` are the steps of `EventFeed`,
one event at a time, with what the dispatcher is to know of the event). That `LivePoller`
takes no other steps is `FeedsTheDispatcher`. Its `Plays` is one step: that it may be is
`ScoreProvider`, kept by `Provider`. Its events are any plays; `Detector` says which.
`Alerts`, `DigestScheduler` and `Commands` each have the outcomes of a Telegram call as a
choice; `TelegramClient` is what happens inside it. `Supervisor` has the components as
boxes, each returning under the conditions that `LivePoller` and `Alerts` show for theirs
(`ShutdownCompletes`).

Conventions: a store call, a call of Telegram or of the provider, and a channel
operation are one step each, because nothing holds a lock across two of them; what a
goroutine does between two such steps belongs to the second. A store call that fails may
have taken effect. The definitions named "A bug" in a module are the mistakes each
property has been seen to find; no specification uses them. Bounds are constants named
`Max...` or `Horizon`, and each appears in the guard it bounds.

### Alerts

`worker` holds the two goroutines of `Dispatcher.Run`: *main* catches up under the
service's context and then consumes the bus under the drain context (`ctx`), *retry*
sweeps at every tick. Both run the same `Dispatch`, whose program counter stops before
each call that others can come between:

| Action | Code |
|---|---|
| `Sweep` | `catchUp`, with the query `EventsNeedingDelivery` |
| `Receive` | `Bus.Consume`, and the early return of `Dispatch` for silent kinds |
| `FindSubscribers`, `CreateDeliveries`, `LoadRecipients` | `SubscribersForTeams` with `Interested`, `CreateDeliveries`, `PendingRecipients` and the age check |
| `Skip`, `Send`, `Record`, `Abandon` | the loop over the recipients and `mark` |
| `SaveEvent`, `Publish`, `PublishCancelled`, `CloseBus` | the watchers' side, reduced to what the bus sees of it |
| `Join`, `Follow`, `SetAlerts`, `Stop` | the user, through `subscription.Service` |
| `Shutdown`, `DrainExpires`, `Exit`, `Crash`, `Start` | the process |

Time is the age of an event in ticks up to `Window + 1`; `lag` is how old the play was
when its event was inserted. A subscriber is a row: a chat that comes back has another
id, as in the table. `received`, `lateCopies` and `eligible` are history variables.

### LivePoller

`scan` is the goroutine of `Run`: it fetches two days, each with a slot of the
semaphore, stores all games in one batch and then tracks them. `watcher[g]` is the
goroutine of a game with its one-slot mailbox; it is in the map of watchers unless its
`pc` is "off". `AcquireForPlays`, `Plays`, `SaveEvents`, `Publish` are `poll`; `Hear`,
`PollAgain`, `Cancelled` the `select` of `run`; `AcquireForBox`, `BoxScore`,
`SaveGameStats`, `TryAgain` are `finish` under `retry.Do`; `Forget` the deferred calls.
`GameMoves` and `PlayHappens` are the provider: a game may be shown in any status after any
other (`mapStatus` looks at one answer at a time), but a final game stays final. A suspended
game counts as postponed; when it goes on while its watcher is about to leave, it has a new one
only from a later scan. `begun` is history: the games whose row has ever said that they have
begun. Every play is an event here; the detector says which really are.

### DigestScheduler

Time is in hours, with a day of `DayLength` of them. `pass` is the goroutine in a tick:
the subscribers still to visit, the days it has read from `digest_runs`, and the
delivery in hand. `Visit` is the loop body up to `deliver`; `Compose` the reads of
`deliver` and `Build`; `SendPart`, `SendRefused` and `SendFails` the messages of
`SendDigest`; `MarkDigestProcessed` the mark. `DeleteSubscriber` and `EnsureSubscriber`
come between any two of these. Zone and hour are constants: nothing in the program calls
`SetTimezone` or `SetDigestAt`.

### Detector

The loops of `detector.go` and `aggregate.go` as functions of the number of plays they have
seen (`Runs`, `Deficits`, the statistics inside `Aggregate`), on a game that is played basket
by basket and polled at any time. A basket comes with its team and score, but perhaps without
the player who made it, and the box score may have no line for a player: `Aggregate` credits
players and writes into the lines of the box score, so that such a basket is in no line.

### Commands

`sent` is what the user asks for; an update is confirmed when Telegram will not deliver
it again. `GetUpdates` and `DispatchNext` are the loop of `Poller.Run`, with the offset
and the batch in memory; `ServeHTTP` and `Answer` a request of the webhook, of which
several run at once. `handler` holds the goroutines in `replier.dispatch`, all with the
same steps: `EnsureSubscriber`; `ReadCurrent` and `ChangeSubscription` for a toggle of a
team; `SetAlerts`; `DeleteSubscriber`; `ReadFollowed` and `ReadOptions` for what the reply
shows; `EditMessage` and `SendMessage`. `row` is the row of the chat with its
subscriptions, and an id is never used again. Parsing is the set of commands that a
press or a text can carry. `alone` and `doubt` are history: whether another dispatch has
run since this one began, and whether a command has ended since the last reply without
showing its effect.

### TelegramClient and Messages

`caller` holds the goroutines inside the client. A call looks for the limiter of its chat
(`WaitForChat`, with the map that starts afresh when it is full), waits for its turn
(`TakeTurn`, where the icons are looked at), asks the limiter of all requests (`Request`)
and is answered: `Accepted`, `Lost`, `TooMany` with the sleep that `WakeUp` ends, or
`Refused`, which may send the text once more without icons. `Cancel` is a context that ends
at any of the waits. Time is in ticks and only what is left of a wait is kept: `ahead` is
how far a limiter of `golang.org/x/time/rate` has promised turns, and a cancelled wait gives
its turn back only if it is the last. `Messages` is `splitMessage` and `DigestParts` on texts
whose paragraphs are a name and a range of bytes; `CutAsItShouldBe` compares their result with every other way
to cut.

### Provider

A play is a number, a page `PageSize` of them. `Ask` to `Learns` is one call of `Plays` by a
watcher; ESPN makes plays and whole pages between its requests, `AttemptFails` is one try of
`Transport.RoundTrip`, `CallFails` what it does not try again. A recording is a sequence of
offsets read on a clock that starts with the process. `Games` is the status that either
gives. The cursor, the plays known and the question are mapped to `ScoreProvider`.

### Heartbeat

One counter stands for all of `metrics`, its *n*-th count is the number *n*, so that a report
is an interval. `TickReport` is `Tick` up to `SendNotice` with the snapshot taken, `NoticeSent`
and `NoticeFails` what comes after; `Inc`, the clock and a restart come between any two.

### Supervisor

`stage` walks through `run`; `component` holds what each goroutine of the error group does
or has returned. `Returns` is `supervise`: a component that stops on its own counts as failed.
The webhook registers itself first; the http server is shut down within a grace, with requests
in hand; the dispatcher waits for the bus that the poller closes.

## The runs

All passing runs but `commands` and `service` check for deadlock too. In `commands` the system
stops when every update has been confirmed and Telegram has nothing to post; in `service`
when the process has ended, the clock of the reporter has come to its bound, or the digest is
complete.

| Run | Bounds | Shows |
|---|---|---|
| `alerts_race` | 1 event, inserted at once or too late, 1 subscriber who does everything, all answers of Telegram, 1 store error, 1 restart, 2 attempts | `SentWasReceived`, `OnlyTheEligible`, `OptOutIsPrompt`, `CopiesAccounted`, `AlertArrives`, `ShutdownCompletes` |
| `alerts_pair` | 1 event, 2 subscribers, one of them leaving, lost answers | `AttemptsBounded`, `SettledRowHeldOnce`, `ImplementsLedger`, `AlertArrives` |
| `poller_game` | 1 game on both days, scheduled, live or final, 3 plays on pages of 2, 1 fault, 1 restart | `StatisticsCoverTheGame`, `RowsLeadEvents` |
| `poller_live` | 1 game, live, postponed or final, no plays, 2 attempts at the statistics, 2 faults, 1 restart | `PublishedOnce`, `SlotsAreReturned`, `ClosedBusIsQuiet`, `FeedsTheDispatcher`, `GamesAreFollowed`, `ShutdownCompletes` |
| `digest` | 2 chats in 2 zones, one with up to 2 rows, one that Telegram may always fail, 1 game, digests of 2 messages, hours 0 to 9 of days of 5, 1 fault, 1 restart | `CopiesAccounted`, `SentMeansWhole`, `OneDayPerGame`, `NoDigestMissed` |
| `detector_polls` | games of 4 plays of 0, 1 or 3 points in 3 periods around the clutch, by 3 players of both teams or by nobody, 4 box scores, most of which lack players | `PollsDoNotShow`, `CleanRunIsReported`, `ComebacksAreReal`, `ClutchPointsAddUp` |
| `commands` | 2 updates of 6 kinds, polling or 2 webhook requests at once, 2 faults, late answers or restarts | `HandledOncePerDelivery`, `OnlyAskedSince`, `ScreenAgrees`, `AppliesWhatWasAsked`, `UpdatesAreConfirmed` |
| `client` | 2 goroutines, 2 chats, a map of 1 limiter, digests of 2 messages or other requests, 2 attempts, every answer, waits cancelled | `ArrivesInOrderOnce`, `TurnsAreSpaced`, `CallsEnd` |
| `service` | 5 plays on pages of 2, or a recording of 5 over 4 ticks, 2 processes, 2 attempts; 2 counts and 2 troubles in 3 days; 6 components, 2 webhook requests, a signal at any time; digests of up to 3 blocks of 1 or 2 paragraphs | `KeepsThePromise`, `ReportsAddUp`, `OneOutAllOut`, `DigestsAreCutWell` |

`alerts_race` and `poller_game` check the type invariant too; those of the other modules are
theorems, or parts of the inductive invariants below.

The parts of `service` share nothing but the start of the process; the run explores them
side by side, not their product.

Why these bounds are enough to be interesting: the races of the dispatcher need two
goroutines on one row, and two subscribers for a row to be held while another is sent
to; two attempts make the limit reachable by either goroutine first; one store error
and one restart can fall between any two steps. A bus of one fills at once. One slot
of the semaphore makes the scan and the watcher wait for each other. Three plays on
pages of two let the last page grow and a new page begin. In `poller_live` there are as many
faults as attempts at the statistics, so that `finish` can run out of attempts, and a game is
suspended and goes on; in `poller_game` it is watched before it begins, and may be announced
again after it did. A game too early to be watched is in `poller_missed` and in the theorems. The
window of the first chat
of the digest crosses midnight in a zone east of the clock, the second chat is west of
it; a catch-up window of two hours leaves room for a fault or a restart, and
`NoDigestMissed` is about the hours in which every pass ended. In `detector_polls` the thresholds are scaled to the points of
four plays; both sides of each are reached, and overtime. In `client` a map of one limiter
is full at the second chat, so that two goroutines can wait for the old and the new
limiter of one chat; a wait that Telegram asks for (2) is longer than the one granted (1).
In `service` the game has two full pages and one that is not, the recording has two plays at
one moment, and days of four ticks have an hour before, in and after that of the report. In `commands` two updates and a
redelivery are three requests, which is what it takes for a chat to leave and come back
under a command that is still running.

### Disagreements

Three runs are expected to find a violation, of what a test of the repository says.

* `alerts_once`: the two goroutines can load one pending row and both send it, with no
  failure at all (`PendingRecipients` claims nothing). `TestDispatchIsIdempotent` dispatches
  twice in sequence and so cannot see it.
* `poller_missed`: a failure in the last poll of a game, the only one that knows it as
  final, loses `game_final` and the events of the last plays, although the statistics are
  stored and the game counts as finished.
* `detector_runs`: points that break a run are carried into the next one even when the
  other team scored between them, so a run is reported that nobody made.

Other limits of what the code promises, seen while modelling and stated as the bounds of
properties that hold, or as choices of the models:

* Alerts: one that is being sent when the user turns alerts off still goes out, one for
  each goroutine (`OptOutIsPrompt`); who subscribes after the rows of an event were made gets
  none for it, and the sweep does not add one (`Owed`).
* Statistics: `finish` makes three attempts, and when all fail the game has no statistics, as a
  game whose row is final is not tracked again (`poller.go:199`); nor has a game whose watcher
  was ended by a suspension, when it is final before the next scan (`GivesUp` in
  `GamesAreFollowed`). A basket without a player, or of a player with no line in the box score, is
  in nobody's clutch points (`aggregate.go:18`, `:26`): the lines then say less than the score
  (`ClutchPointsAddUp`).
* Digests: one is sent again when sending and marking come apart, and when `/stop` takes the
  mark of a day from under a pass (`CopiesAccounted`); a game that is not final when its
  digest is made is in no digest, as the day is closed. The window is 24 hours whatever the
  calendar says, so on the two days a year on which the clock of a zone changes an hour is in
  two windows or in none.
* Commands: two webhook requests that overlap may undo or repeat each other's toggle, and a
  toggle that is redelivered undoes itself: `AppliesWhatWasAsked` and `ScreenAgrees` speak of
  commands that run alone, which under polling are all, and `HandledOncePerDelivery` bounds
  the rest. The help reply puts the main menu under its text without reading the rows
  (`service.go:48`, `format.go:25`), so that its button says that alerts are off when they are
  on, and a press of it turns them off; `ScreenAgrees` leaves that label out and says so.
* Telegram client: any 400 for a text with icons switches the icons off for everybody, "chat
  not found" too, although `telegram_test.go:482` has only the refusal of an emoji in mind
  (`iconsWereRejected` looks at the code alone). A retry after 429 does not ask the limiter of
  the chat again, so that two requests to a chat may be closer than the second that
  `TestPerChatRateLimit` looks for; it is the turns that are spaced (`TurnsAreSpaced`), and
  only within one map of limiters. A block longer than a message is cut by bytes, inside a tag
  if need be (`Cuts`); the digest of one game is far from that long.
* Providers: a Retry-After of more than fifteen seconds runs into the timeout of the http
  client and fails the call. A recording begins anew with the process, so that a game seen
  final is scheduled again after a restart.
* Heartbeat: after a restart within the hour of the report the day is reported again, as the
  day of the last report is in memory; `TestReportGoesOutOncePerDay` has one process.
* Main: a signal while the webhook registers itself makes that call fail, and the process
  exits with 1 although nothing went wrong; `CleanStop` speaks of exit code 0 only.

## Fairness

* Every goroutine that can step does (weak fairness of `WorkerStep`, `ScanStep`,
  `WatcherStep`, `Dispatch`): the Go scheduler, and tickers that tick.
* A blocked `Publish` finds room or the cancellation: its `select` waits for both.
* The semaphore is a channel and serves its waiters in order; a `select` chooses at
  random among ready cases; hence strong fairness for acquiring a slot, for hearing the
  mailbox and for seeing the cancellation.
* `Poller.Run` asks for updates for ever and gets those that have arrived; Telegram posts
  an update again until it has its 200.
* Inside the Telegram client every call goes on (`WF` of `Call`), Telegram answers or the
  request times out, and time goes on however many steps are made within a tick (`SF` of
  `Tick`: the clock does not wait for goroutines).
* In `Supervisor` every call of `run` ends, components notice the end of their context, and
  the grace of the http server passes. Requests of the webhook may hang.
* A process that has ended is started again by the supervisor of its container.
* Nothing is assumed of users, of games, of failures (which the bounds limit) or of a
  shutdown, and nothing of the clock outside the Telegram client. `NoDigestMissed` and
  `ReportsAddUp` are safety properties: what they ask of the scheduler and the reporter
  (a whole pass in every hour, a `Tick` in every tick) is recorded by the history variables
  `late` and `hindered` and is their hypothesis.

## What is proved

The theorems hold for every value of the constants that the named assumptions allow;
the runs above check the same definitions on small instances.

**Alerts.** `TypeCorrect`. `AttemptsAreBounded`, `SettledRowsHeldOnce` and
`SentMeansReceived` rest on one inductive invariant about a row and its holders, the
goroutines between `PendingRecipients` and the mark. A pending row counts fewer
attempts than the limit as long as nobody holds it, a goroutine takes a row only while
it is pending, and a settled row has one holder at most: the mark that settles it is
made by a goroutine that lets go of it, so that at most the other is left. Hence one
attempt past the limit at the most. `SentMeansReceived` adds that a goroutine about to
write "sent" has delivered a copy. Steps are reduced to a few kinds (a row is created, a
goroutine takes rows, lets go, marks, everything vanishes) and each kind is shown to
keep the invariant. `PipelineKeepsTheLedger` is the refinement of `AlertLedger`: what a
goroutine works for was offered, or its subscriber has left and nobody comes back
(`KnownInv`), so that every mark is a conclusion the ledger allows. `OnlyTheEligibleReceive`
follows a wish from the row of the subscriber through what a goroutine has read, created and
loaded (`EligibleInv`), and an event from its row through the bus. `OptingOutIsPrompt`: after
the user has turned alerts off, the copies sent and the goroutines that have decided to send
one are two at most (`LateInv`). `CopiesAreAccounted` counts the copies of a row against
its attempts, with the one in flight, and with what the store's errors and the ends of a
process can still lose (`CopyInv`); a process loses two copies at most because its retry
goroutine stops at once and its main goroutine has the drain context (`PhaseInv`).

**LivePoller.** `PollerTypeCorrect` and `NoSlotIsLost` are proved together: the number of
slots in use equals the calls that are out, which keeps the counter within the capacity
and needs the cardinality of the set of watchers in a call. `EventsPublishedOnce`: what a
watcher still has to publish is saved and has never been on the bus; two watchers of a
game never live at once. `ClosedBusStaysQuiet`: `Run` returns only when every watcher has
left, and no step after that starts one. `PollerFeedsTheDispatcher` is the refinement of
`EventFeed`: a watcher has something to publish only where it publishes, so that every
other step of it is a stutter; a batch inserts what is new of it; and the goroutine of `Run`
comes to the close only in a process that is stopping, with no watcher left. `RowsRunAhead`: a
game moves freely until it is final, and then no more (`Rank`: no row, a row, a final one), so
that what a scan has found lies between its row and the provider (`FoundInOrder`); what a watcher
knows or has in its mailbox is no further than the row, and when it says that the game has begun
the row has said so before (`HeardInOrder`); and events that tell of a start or an end come after
the row (`SavedInOrder`). `StatisticsAreComplete`: the pages before the cursor are known in full
(`WatchersCover`), so that a last poll that went well has every play, and a batch that went
well has saved their events; what was stored of that stays (`StatisticsCover`).

**DigestScheduler.** `SchedulerTypeCorrect`. `SentDigestsAreWhole`: a delivery with its
message counter at *n* has had its messages before *n* arrive in order. `GamesHaveOneDay`:
every game reported, and every game in hand, lies in the window of its day; windows are
intervals of `DayLength` hours that begin at a multiple of it from the digest hour, and two
such intervals that share an hour are one (lemmas on division with remainder).
`DigestsAreNotMissed`: for a subscriber who stays and a day whose slot has come, either the day
is closed, or the hours since the slot that ended without its mark are each paid for by a fault
(`OnSchedule`); a pass that has the row still to visit will visit it, and one that has read
the day as closed has it closed in the table (`KnownIsClosed`). With no more faults than the
window has hours after the slot, the day is closed when the window is over. `DigestCopiesAreAccounted`: a copy
that may yet be sent is counted before it is (`Level`), so that the copies beyond the first,
those to come included (`Spent`), grow only at a step that spends a fault or a restart or
makes a row leave (`Budget`). Between the read of the marks and the mark of a day a pass visits
each row once and holds a day it has found open (`PassInv`).

**Detector.** The induction over the plays is one of sets: a set of numbers that holds 0, and
every number whose predecessor it holds, holds all (`UpTo`, from the least number that is not
in it); so a loop has an outcome after each play (`LoopsEnd`), and the recursive functions of
`Detector` are what their equations say (`RunsUnfold`, `DeficitsUnfold`, `AggregateUnfold`).
`PollsAreInvisible`: the outcomes over the first plays do not depend on the rest, so that what a
poll has shown later ones show as well (`DetectGrows`), and the kind and the play of an event
determine it, as one team at most takes the lead at a play (`EventsAreIdentified`).
`ComebacksAreFound`: the deficit of the loop reaches the threshold at a play just when the team
has trailed by it and not led since (`DeficitsTell`). `ClutchPointsAreReal`: periods do not go
back, so that the plays before the clutch are the first ones (`ClutchStarts`). The sum over the
lines of a box score is a recursive function (`TotalUnfold`) that grows by the points of a play
when its player has a line of that team, one line at most as the lines differ, and else stays as
it is (`TotalsGrow`); so it keeps up with the score, and falls behind it only at a basket that is
in no line (`TalliesGoOn`). `LongRunsAreReported`: the run at hand is
within its tolerance, and reported at some play since which the other team has scored no more
than it was allowed (`RunsStand`); through a stretch without an answer it holds all the points
of the stretch, as those of its team or as those it allows (`StretchesAreHeld`); the
tolerance being less than a run, they are of its team once they are enough. That the games of the
model add up is `FeedsAreGames`.

**Commands.** `CommandsAreTyped`, with what a dispatch is about at each of its places (`Routed`:
a goroutine that writes names an id it was given). `UpdatesAreHandledOnce`: an update is
confirmed when its dispatch has ended, and its starts are counted against restarts and late
answers, both for the batch in the memory of the poller and for requests of the webhook
(`DeliveryInv`). `RowsHoldWhatWasAsked`: a row follows a team or hears alerts only if a command
handled under its id asked for it (`AskedFor`); a write under another id does nothing.
`CommandsApplyWhatWasAsked` and `RepliesSayWhatIsThere`: what a command that runs alone has
read is what the row still says (`Knows`, `AloneInv`), so that it applies the difference the
user meant, and its reply agrees with the rows until the next one begins or fails
(`ScreenInv`).

**TelegramClient.** `ClientIsTyped`. `DigestsArriveInOrder`: a call at its message *n* has had the
first *n* - 1 arrive, at each place it can be in (`InOrder`). `ChatsAreNotFlooded`: the turns that
one limiter has promised are pairwise a second apart, before the next it would promise, and a
second after the last one taken (`TurnInv`); a cancelled wait gives its turn back only if it
was the last. What is sent is any digest of non-empty blocks (`DigestsAssumption`); that it is cut
in a sequence of parts is `PartsAreTaken`. `WholeDigestsArrive` puts the two together: a call
only ever has the parts of some digest (`Sends`), so by `DigestsArriveInOrder` and
`AnyDigestIsCutWell` what a call that succeeds has sent are the bytes of that digest, in messages
within the limit.

**Messages.** `AnyDigestIsCutWell` is about the algorithm itself, for blocks of any number and
length, any limit of a message and any gap. Its loops are recursive functions of a sequence
(`LoopsEnd`: there is one state after every element; `ByElements`: facts go from a sequence to
one with an element more). `Fitting` is what the builder keeps: every part, and the open one, is
no longer than a message (`AddParagraphFits`, `AddBlockFits`). The bytes of what was added are those
of the parts and the open one (`Whole`), and the cuts of a long paragraph with its last piece
have its bytes (`CutsKeepTheBytes`). A block that fits is never divided (`Holds`). That no other
way to cut makes fewer messages is an exchange argument (`Ahead`): after each block another
cutting has come to as many parts at least, and if to as many, its part began no later, so that
where the builder has no room neither has the other (`RunHasBoth`, `RangesGrow`).
`DigestsAreAlwaysCutWell` is the same of the digests of the run `service`.

**Provider.** `ProvidersKeepThePromise`: every initial state and every step of either provider
is one of `ScoreProvider`, for any number of plays, any size of a page, any number of attempts
and any recording. For ESPN the invariant is about the page before the one at hand: a page is
left only when there are more, and then it is full and will not change, so that the plays of
all pages before the cursor, or before the page of the request, are known for good
(`PagesBefore`); the last page read, when it is the last there is, holds the rest of what was
made before the question. For a recording the plays that can be seen are the first of it
(`VisibleIsAPrefix`, by the least play that cannot), and they only grow with the clock. A
final game has all its plays (`FinalIsFinal`).

**Heartbeat.** `ReportsAlwaysAddUp`: a report takes up where the last one known to have arrived
left off, so that those are adjacent intervals and the counts up to the last are covered
(`InOrder`, `Covered`). That no day is skipped is an argument about time (`LookedAt`): a day
whose hour is over was looked at within it, and what was looked at was reported or hindered; a
day that falls due while the report of another is on the way is not looked at, and has its
mark. From one tick to the next the due day stays or a later one falls due (`NextTick`).

**Supervisor.** `ProcessStopsClean`: what a component has returned says what happened before it
did: an error that the group has failed, no error that its context was done, for the poller that
the bus is closed, for the server that no request is left (`SupervisorInv`). A process that is
over has waited for all of them.

The theorems need no fairness. The assumptions on constants are those in the modules, which
TLC evaluates in every run: sizes and limits are positive where the code divides or counts by
them, a run tolerates fewer points than it needs (2 and 12 in `detector.go`), a player is of one
team, and a box score has one line for each player in it. Two assumptions on the provider are in
the actions: a final game stays final (`GameMoves`), and in `Detector` the plays arrive in order
with scores that add up (`PlayHappens`).

Every safety property and every action property of a passing run is a theorem. Liveness and
`ENABLED` are out of reach of the prover and left to TLC: `AlertArrives`, both `ShutdownCompletes`,
`GamesAreFollowed`, `UpdatesAreConfirmed`, `CallsEnd` and, of `OneOutAllOut`, the part that all come
to an end (its other part is `CleanStop`). The three disagreements are runs, not theorems.

## What is not modelled

* Durations other than the age of an event, the hours of the digest and of the report, and
  the waits of the Telegram client: back-offs and tickers may take any time.
* Several chats in `Commands`: its statements name one subscriber or one chat, and the
  poller serves chats in turn. The deadline of a request as a duration (an answer is late
  when it likes).
* The limiter of all requests to Telegram: it has a burst of 25 and delays, and nothing is
  decided on it.
* Text, keyboards, the escaping of HTML, the JSON of the provider beyond the status of a game,
  `BoxScore` and `Standings` (one request each), statistics over several games, gauges, the
  environment and its checks, the health check, the log. They decide nothing that a property
  here is about.
* Changes of the clock of a time zone.

## Plan

Done: `Alerts` with `AlertLedger`, `LivePoller` with `EventFeed`, `DigestScheduler`, `Detector`,
`Commands`, `TelegramClient` with `Messages`, `Provider` with `ScoreProvider`, `Heartbeat`,
`Supervisor`; every safety property and every action property of a passing run is a theorem, and
so is `CleanStop`. What a sender says and what a chat gets are joined for the text of a digest
(`WholeDigestsArrive`). Left: two hazards have no property, for reasons that `PROJECT.json` gives with each
(the one transaction of a scan, `games.go`, and the dropped error of closing a batch, `events.go`).
