SPECIFICATION Spec
CONSTANTS
    r1 = r1  r2 = r2  n1 = n1  w1 = w1  w2 = w2
    Workers = {w1, w2}
    Refs = {r1, r2}
    Entities = {n1}
    EntityOf <- OneEntity
    Values <- MCValues
    NTables = 3
    MaxEvents = 2
    Backlog = 0
    MaxAttempts = 2
    BatchSize = 2
    MaxCrashes = 1
    MaxReplays = 1
    MaxToggles = 1
    MaxAutoId = 2
    LegacyWriter = FALSE
    RefOf <- OneRef
    PayloadOf <- DistinctPayloads
    Kind <- KindPsgcStationSchool
    Parent <- ParentPsgcStationSchool
INVARIANTS
    BatchesApart
    OutboxRows
    DeliveredHasEnvelope
PROPERTIES
    ImplementsOutbox
    OnlyOvertakenGoBack
