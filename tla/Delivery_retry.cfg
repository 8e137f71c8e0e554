SPECIFICATION FairSpec
CONSTANTS
    r1 = r1  r2 = r2  n1 = n1  w1 = w1  w2 = w2
    Workers = {w1}
    Refs = {r1, r2}
    Entities = {n1}
    EntityOf <- OneEntity
    Values <- MCValues
    NTables = 3
    MaxEvents = 2
    Backlog = 0
    MaxAttempts = 3
    BatchSize = 2
    MaxCrashes = 1
    MaxReplays = 0
    MaxToggles = 0
    MaxAutoId = 4
    LegacyWriter = TRUE
    RefOf <- OneRef
    PayloadOf <- SharedPayload
    Kind <- KindStationSchoolBeis
    Parent <- ParentStationSchoolBeis
INVARIANTS
    DeliveredNotLost
    FanOutWhole
    RowsFoundAgain
PROPERTIES
    EventuallySettled
