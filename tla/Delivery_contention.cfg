SPECIFICATION FairSpec
CONSTANTS
    r1 = r1  r2 = r2  n1 = n1  w1 = w1  w2 = w2
    Workers = {w1, w2}
    Refs = {r1, r2}
    Entities = {n1}
    EntityOf <- OneEntity
    Values <- MCValues
    NTables = 1
    MaxEvents = 5
    Backlog = 5
    MaxAttempts = 1
    BatchSize = 2
    MaxCrashes = 0
    MaxReplays = 0
    MaxToggles = 0
    MaxAutoId = 4
    LegacyWriter = TRUE
    RefOf <- CrossedRefs
    PayloadOf <- DistinctPayloads
    Kind <- KindSchool
    Parent <- ParentSchool
PROPERTIES
    BatchEnds
