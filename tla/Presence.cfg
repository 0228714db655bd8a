CONSTANTS
    MinuteMS = 2
    Size = 3
    Amounts = {1}
    MaxNow = 10
    MaxBytes = 2
    Intervals = {1, 2}
    Floor = 5
    Patience = 1
    Dial = 1
    Ports <- PortList
    Shut = 1
    Hold = 1
    Day = 4
    Renewals = {0, 4, 8}
    MonthMin = 3
SPECIFICATION PSpec
INVARIANTS  ShownOnlyIfHeard UsedSinceRenewal
PROPERTY ImplementsWindow
