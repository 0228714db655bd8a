CONSTANTS
    a = a
    b = b
    r1 = r1
    r2 = r2
    IPs <- MCIPs
    Requests <- MCRequests
    Doors = {"form", "header"}
    MaxFails = 2
    BanFor = 2
    MaxClock = 3
    MaxCount = 3
    MaxSaveFails = 1
SPECIFICATION Spec
SYMMETRY Symmetry
INVARIANT RightPasswordNeverRefused
