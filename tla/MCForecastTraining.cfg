SPECIFICATION Spec
CONSTANTS
    Runs <- MCRuns
    SeenWorkloads = {"stable"}
    UnseenWorkloads = {"hot_switch"}
    TrainRepeats = {1}
    ValidationRepeats = {4}
    TestRepeats = {5}
    Horizons = {3, 5}
    Families = {"linear_regression", "moving_average"}
    MaxTakes = 2
    MaxSessions = 2
CONSTRAINT RareEdits
CHECK_DEADLOCK FALSE
INVARIANTS
    HeldOutStaysHeldOut
    TestAfterFreeze
    WorkflowGivesExactArtifact
