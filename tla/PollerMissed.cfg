SPECIFICATION Spec
CONSTANTS
  Games = {g1}
  Slate <- Today
  Shown = {"early", "scheduled", "live", "postponed", "final"}
  MaxPlays = 1
  PageSize = 1
  MaxInflight = 1
  Buffer = 1
  StatsAttempts = 2
  MaxFaults = 1
  MaxRestarts = 0
INVARIANTS NoEventIsMissed
