SPECIFICATION ForecasterSpec
CONSTANTS
  c1 = c1
  c2 = c2
  Controller = {c1}
  HistorySteps = 2
  SafetyBuffer = 1
  MaxGap = 1
  ConsecutiveSteps = 2
  MaxSnapshots = 5
  MaxTime = 4
INVARIANTS
  HistoryMatchesDataset
  GateFollowsMask
  ForecastUsesItsSnapshot
CHECK_DEADLOCK FALSE
