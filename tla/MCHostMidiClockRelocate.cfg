SPECIFICATION ClockSpec
CONSTANTS
    UnitsPerTick = 7
    Rates = {1, 3}
    Samples = 3
    Capacity = 6
    MaxPosition = 24
    MaxTick = 8
    HostMay = {"relocate"}
INVARIANTS
    EpsAlwaysInStep
