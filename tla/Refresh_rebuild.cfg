SPECIFICATION Spec
CONSTANTS
    NEntities = 4
    Refs = {a1, b1, c1}
    a1 = a1
    b1 = b1
    c1 = c1
    Refreshers = {x1}
    Workers = {x1}
    Kinds = {"refresh", "nightly"}
    Unmapped = {4}
    MaxStarts = 2
    MaxChanges = 2
    MaxFailures = 1
    MaxLost = 1
    Tables = {"t", "u"}
    EntityOf <- OnePerEntity
    TableOf <- SharedAndOwn
INVARIANTS
    ExactOnTrack
CHECK_DEADLOCK FALSE
