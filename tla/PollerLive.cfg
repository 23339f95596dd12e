SPECIFICATION FairSpec
CONSTANTS
  Games = {g1}
  Slate <- Today
  Shown = {"live", "postponed", "final"}
  MaxPlays = 0
  PageSize = 1
  MaxInflight = 1
  Buffer = 1
  StatsAttempts = 2
  MaxFaults = 2
  MaxRestarts = 1
INVARIANTS PublishedOnce SlotsAreReturned ClosedBusIsQuiet
PROPERTIES GamesAreFollowed ShutdownCompletes FeedsTheDispatcher
