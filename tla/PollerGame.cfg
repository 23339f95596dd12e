SPECIFICATION Spec
CONSTANTS
  Games = {g1}
  Slate <- BothDays
  Shown = {"scheduled", "live", "final"}
  MaxPlays = 3
  PageSize = 2
  MaxInflight = 1
  Buffer = 1
  StatsAttempts = 2
  MaxFaults = 1
  MaxRestarts = 1
INVARIANTS TypeOK StatisticsCoverTheGame RowsLeadEvents
