CONSTANTS
    Intervals = {1, 2}
    PortLists <- MCPortLists
    CtlPorts = {1, 2}
    DefaultPort = 1
    IPs = {"a", "b"}
    Hidden = {"b"}
    FilePorts <- MCFilePorts
    Edits <- MCEdits
    MaxEdits = 2
    MaxMoves = 1
    MaxRestarts = 1
    MaxLosses = 1
    MaxEvents = 3
SPECIFICATION FairSpec
INVARIANT TypeOK
PROPERTIES SettledStays ConfigConverges ControlComesUp StaleOKHeals
