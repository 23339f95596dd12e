SPECIFICATION Spec
CONSTANTS
  RunMinPoints = 4
  RunTolerance = 1
  ComebackDeficit = 3
  CloseFinishWindow = 3
  CloseFinishMargin = 1
  ClutchFromPeriod = 4
  Points = {0, 1, 2}
  Phases <- FirstHalf
  MaxPlays = 6
  Players = {}
  TeamOf <- NoSides
  Boxes = {}
INVARIANT RunsAreRuns
