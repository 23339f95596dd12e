SPECIFICATION Spec
CONSTANTS
  RunMinPoints = 3
  RunTolerance = 1
  ComebackDeficit = 2
  CloseFinishWindow = 3
  CloseFinishMargin = 1
  ClutchFromPeriod = 4
  Points = {0, 1, 3}
  Phases <- ThreePeriods
  MaxPlays = 4
  Players <- Roster
  TeamOf <- SideOf
  Boxes <- BoxScores
INVARIANTS PollsDoNotShow CleanRunIsReported ComebacksAreReal ClutchPointsAddUp
