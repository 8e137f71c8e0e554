SPECIFICATION Spec
CONSTANTS
    NEntities = 2
    Tables = {"t", "u"}
    Footprint <- SharedTable
    Sessions = {s1, s2}
    MaxChanges = 3
    MaxStarts = 2
    MaxCrashes = 1
INVARIANTS
    SwitchFollowsStatus
    PausedIsReported
    DeployedIsLoaded
    PausedHasDrift
SYMMETRY Symmetry
CHECK_DEADLOCK FALSE
