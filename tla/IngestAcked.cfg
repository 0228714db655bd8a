CONSTANTS
    Ttl = 2
    CleanupEvery = 1
    Delay = 1
    Encodings = {TRUE}
    AllowAutoRegister = FALSE
    MaxTime = 5
    MaxTraffic = 0
    MaxReports = 2
    MaxCopies = 2
    MaxReboots = 0
    MaxRestarts = 0
SPECIFICATION Spec
CHECK_DEADLOCK FALSE
INVARIANTS DroppedIsDuplicate
