CONSTANTS
    Ifaces = {1, 2}
    Width = 8
    MaxBytes = 3
    MaxJiffies = 2
    MaxFaults = 2
SPECIFICATION CSpec
INVARIANTS CTypeOK CpuHonest RateHonest NoOvercount NoUndercount
