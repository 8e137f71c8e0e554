SPECIFICATION RebuildSpec
CONSTANTS
    s1 = s1  s2 = s2
    TableNames = {1, 2, 3, 4}
    station = 2
    MaxFks = 3
    Schemas <- ParsedSchemas
    canonical <- Canonical
    Sessions = {s1, s2}
    NTables = 3
    Lookups = {1, 2}
    Uploadable <- SomeUploads
    Operations = {"nightly", "reset", "restore_target", "upload", "restore_source"}
    MaxStarts = 2
    MaxFaults = 1
SYMMETRY Symmetry
INVARIANTS
    OrderIsSound
    SeedsSuffice
    BackupsAreSound
    LeftComplete
    RebuildIsFresh
CHECK_DEADLOCK FALSE
