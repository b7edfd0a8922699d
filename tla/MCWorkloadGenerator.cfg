SPECIFICATION FairSpec
CONSTANTS
    Duration = 5
    Interval = 2
    Ports = 2
    IdleTimeout = 1
    SafetyFactor = 2
    Timeout = 1
    Rate = 4
    Runs <- MCRuns
    Capacity = 12
    RateTicks = 4
    TickSeconds = 12
    MaxClock = 6
INVARIANTS
    WindowsTellFlows
    ReuseShowsInLag
    ProbeMeasuresItself
PROPERTY GeneratorEnds
CHECK_DEADLOCK FALSE
