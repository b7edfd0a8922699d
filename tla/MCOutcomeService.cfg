SPECIFICATION OutcomeSpec
CONSTANTS
  c1 = c1
  c2 = c2
  s1 = s1
  Controller = {c1, c2}
  Switch = {s1}
  NoTwin = NoTwin
  HistorySteps = 2
  SafetyBuffer = 1
  MaxGap = 1
  MaxSnapshots = 5
  MaxTime = 4
INVARIANTS
  ReadyAnswerIsOwned
CHECK_DEADLOCK FALSE
