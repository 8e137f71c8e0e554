SPECIFICATION Spec
CONSTANTS
    NEntities = 2
    Structures <- TwoColumns
    Sessions = {s1, s2}
    s1 = s1
    s2 = s2
    MaxSwaps = 2
    MaxWork = 2
    MaxCrashes = 1
INVARIANTS
    LeftAloneStillMapped
    NoDriftUnseen
SYMMETRY Symmetry
CHECK_DEADLOCK FALSE
