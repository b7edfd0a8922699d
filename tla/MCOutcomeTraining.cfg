SPECIFICATION Spec
CONSTANTS
    Phases <- MCPhases
    Ends <- MCEnds
    Repeats <- MCRepeats
    NoOpControls = 1
    SplitOf <- MCSplitOf
    MinAttempts = 2
    MaxCapacity = 2
    MaxTakes = 2
    MaxConfigs = 2
    MaxStages = 3
    FeaturesOf <- MCFeaturesOf
    HybridWins <- MCHybridWins
CONSTRAINT MCBound
CHECK_DEADLOCK FALSE
INVARIANTS
    TestSeesOneSelection
    ScoredModelsAreWhole
    ArtifactIsTheTestedOne
    PassedPilotIsOneVersion
    RowsKeepTheirMeasure
PROPERTY FrozenStaysFrozen
