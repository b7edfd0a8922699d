SPECIFICATION Spec
CONSTANTS
    Runs = {r1, r2}
    r1 = r1
    r2 = r2
    Slots = 1
    MinRows = 1
    MaxAttempts = 3
    MaxMoves = 2
    Plan <- MCPlan
    HotRuns <- MCHotRuns
    Samples = 1
    MinSamples = 1
    Commits = {1, 2}
    MaxLaunches = 3
    MaxEdits = 1
CONSTRAINT MCBound
SYMMETRY MCSymmetry
INVARIANTS
    CapacityFromSoundRuns
    OddMovesNeverPass
    OfficialHasOneCapacity
    OfficialRanFrozenCode
    MissedLoadNeedsSkip
CHECK_DEADLOCK FALSE
