SPECIFICATION FairSpec
CONSTANTS
    MaxEvents = 5
    MaxEmitters = 3
    Limit = 2
    MaxDrops = 2
    Routes = {"job", "tail"}
    Admins = {a1, a2}
    Files = {f1, f2}
    MaxVersion = 2
    MaxCalls = 4
INVARIANTS
    InOrder
    NeverInterleave
    RunsOnce
PROPERTIES
    Arrives
    LockComesFree
CHECK_DEADLOCK FALSE
