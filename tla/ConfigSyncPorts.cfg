CONSTANTS
    Intervals = {1, 2}
    PortLists <- MCPortLists
    CtlPorts = {1, 2}
    DefaultPort = 1
    IPs = {"a"}
    Hidden = {}
    FilePorts <- MCNoPorts
    Edits <- MCEdits
    MaxEdits = 2
    MaxMoves = 0
    MaxRestarts = 0
    MaxLosses = 0
    MaxEvents = 2
SPECIFICATION FairSpec
PROPERTY PortsReachAgent
