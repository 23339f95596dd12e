SPECIFICATION Spec
CONSTANTS
  Total = 5
  PageSize = 2
  Attempts = 2
  Offsets <- OffsetsMC
  PerTick = 3
  MaxClock = 4
  MaxProcesses = 2
  DayLength = 4
  At = 3
  Hour = 1
  MaxNow = 12
  MaxCounted = 2
  MaxTroubles = 2
  MaxRequests = 2
  Paragraphs <- ParagraphsMC
  MaxBytes = 5
  Gap = 1
INVARIANTS ReportsAddUp DigestsAreCutWell
PROPERTIES KeepsThePromise OneOutAllOut
CHECK_DEADLOCK FALSE
