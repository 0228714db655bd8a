CONSTANTS
    Ttl = 1
    CleanupEvery = 1
    Delay = 1
    Encodings = {TRUE, FALSE}
    AllowAutoRegister = FALSE
    MaxTime = 3
    MaxTraffic = 2
    MaxReports = 2
    MaxCopies = 2
    MaxReboots = 1
    MaxRestarts = 1
SPECIFICATION Spec
CHECK_DEADLOCK FALSE
INVARIANTS TypeOK AppliedOnce NoOvercount NothingLost
