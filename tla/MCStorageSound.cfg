SPECIFICATION PartsSpec
CONSTANTS
    EdgeInterrupts <- BothChannels
    MaxCount = 3
    NoChannel = NoChannel
    SectorBytes = 2
    MaxStream = 3
    SliceTransfers = 2
    Tracks = 2
    Sides = 2
    Sectors = 3
    TrackSkew = 1
    SideSkew = 2
    Chunk = 2
    MaxDamage = 2
    TotalBlocks = 10
    Reserved = 6
    FirstFat = 2
    PerFat = 3
    MaxByte = 255
    Rates = {44100, 48000}
    PanelWireSize = 2
    Releases = 1
    MaxChanges = 2
    Slots = {0, 1, 2}
    Hold = 4
    MaxWait = 3
    Size = 4
    MaxSteps = 2
    Dividers = {2, 4}
    FastestDivider = 2
    MaximumDivider = 4
    HalfTaps = 2
    HistoryCapacity = 7
    QueueCapacity = 7
    SamplePeriod = 3
    Slices = {2, 3}
    Interrupts = {2}
    Samples = 9
    HalfInputTaps = 2
    History = 8
    DawPeriod = 3
    Periods = {2, 5}
    Overrun = 2
    MaxPushed = 6
INVARIANTS
    TypeOK
    SlotHasReason
    ScsiAnswered
    RestoreIsRepeatable
    DiskImagesKept
    EffectRunsAsWritten
    OutputHasItsTaps
    ConversionIsTimely
PROPERTY EndIsHandled
