SPECIFICATION PipelineSpec
CONSTANTS
  c1 = c1
  c2 = c2
  s1 = s1
  Controller = {c1, c2}
  Switch = {s1}
  InitialOwner <- MCInitialOwner
  NoSnapshot = NoSnapshot
  MaxDelay = 2
  MaxAge = 1
  TwinningWindow = 1
  MinRatePercent = 50
  MaxTime = 2
  MaxVersions = 3
  MaxInits = 1
INVARIANTS
  OwnersNotOlderThanVersion
  ValidTwinWasTrue
  PerfectRateHidesNothing
CHECK_DEADLOCK FALSE
