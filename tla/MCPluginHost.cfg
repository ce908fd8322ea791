SPECIFICATION PartsSpec
CONSTANTS
    early = early
    late = late
    Project = {early, late}
    Damaged = Damaged
    Empty = Empty
    Boot = Boot
    SavedCycles <- MCSavedCycles
    BlockCycles = 4
    Overshoot = 2
    MaxCycle = 16
    UnitsPerTick = 7
    Rates = {1, 2, 3, 5}
    Samples = 3
    Capacity = 6
    MaxPosition = 40
    MaxTick = 8
    HostMay = {"relocate", "reprepare"}
    Voices = {0, 1}
    Top = 7
    Frequencies = {2}
    Ranges <- SomeRanges
    Buses = {0, 1}
    QuietFrames = 2
    MaxWrites = 3
INVARIANTS
    TypeOK
    InStepUnlessStranded
    OpenedProjectHeld
    ReadyIsRestored
    SavedNotMixed
    EpsInStep
    EpsFollowsTransport
    RestoredNotesSilent
PROPERTY StaysInLoop
