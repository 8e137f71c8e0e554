SPECIFICATION Spec
CONSTANTS
    Requests = {a, b}
    Users = {u}
    Conversations = {c1, c2}
    MaxMessages = 2
    KeepRecent = 4
    Retention = 1
    MaxTurns = 3
    MaxDrops = 1
    MaxAborts = 1
    MaxDeletes = 1
SYMMETRY Symmetry
CHECK_DEADLOCK FALSE
INVARIANTS
    GateHolds
    TypedYesRunsOnce
    HistoryInOrder
    RunsAudited
