SPECIFICATION Spec
CONSTANTS
    MaxJobs = 2
    p1 = p1
    p2 = p2
    Procs = {p1, p2}
    Scopes = {"nightly-refresh"}
    NoScope = NoScope
    ScopeOf <- SameScope
    JobWorkers = 2
    MaxRequests = 2
    MaxFaults = 0
    Schedulers = {}
    MaxNights = 0
INVARIANTS
    SecondIsRefused
