SPECIFICATION Spec
CONSTANTS
  c1 = c1
  c2 = c2
  Controller = {c1, c2}
  Switch = {s1}
  Request = {r1, r2}
  Client = {r1, r2}
  Phase = {"promote", "promoteBarrier", "querySource", "queryTarget",
           "restore", "restoreBarrier", "queryRestored", "queryOther"}
  MaxFaults = 0
  InitialOwner <- MCInitialOwner
INVARIANT NoSelfMigration
CHECK_DEADLOCK FALSE
