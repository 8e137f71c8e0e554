SPECIFICATION FairSpec
CONSTANTS
    MaxJobs = 2
    p1 = p1
    p2 = p2
    Procs = {p1, p2}
    Scopes = {"nightly-refresh"}
    NoScope = NoScope
    ScopeOf <- SameScope
    JobWorkers = 1
    MaxRequests = 2
    MaxFaults = 1
    Schedulers = {p1}
    MaxNights = 1
INVARIANTS
    ScopeExclusive
    EndIsTold
    OnceANight
PROPERTIES
    EndedStays
    JobEnds
    ImplementsJobTable
