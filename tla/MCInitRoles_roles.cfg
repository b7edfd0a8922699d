SPECIFICATION RestartSpec
CONSTANTS
  c1 = c1
  c2 = c2
  s1 = s1
  Controller = {c1, c2}
  Switch = {s1}
  Request = {r1}
  InitRun = {i1, i2}
  Client = {r1, i1, i2}
  Phase = {"promote", "promoteBarrier", "querySource", "queryTarget",
           "restore", "restoreBarrier", "queryRestored", "queryOther",
           "initRole", "initBarrier"}
  MaxFaults = 0
  MaxRestarts = 1
  InitialOwner <- MCInitialOwner
SYMMETRY ThreadSymmetry
CONSTRAINT Bounded
INVARIANTS
  RepairHolds
CHECK_DEADLOCK FALSE
