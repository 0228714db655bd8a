CONSTANTS
    Hour = 2
    Day = 1
    Span = 100
    Capacity = 1
    Retentions = {1, 2}
    MaxDelay = 1
    MaxShown = 2
    MinBuckets = 1
    MaxTime = 5
    MaxPoints = 2
    MaxChanges = 1
    MaxQueries = 1
SPECIFICATION FairSpec
INVARIANTS TypeOK KeptUntilRetention QueryComplete ShownFits
PROPERTY OldFilesGo
