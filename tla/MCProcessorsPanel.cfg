SPECIFICATION PartsSpec
CONSTANTS
    Masks <- SomeMasks
    Commands <- SomeCommands
    Keys = {"enter", "track"}
    Track = {"track"}
    Enter = "enter"
    Frames <- OneFrame
    WireSize = 4
    RxSize = 1
    FrameLimit = 1
    SearchBytes = 1
    LoadFrames = 1
    LoadPolls = 1
    SerialBytes = {"b1", "b2"}
    Scans = {"s1"}
    QueueSize = 2
    Character = 2
    Transfer = 1
    Instruction = {1}
    TimerFlag = {"OC4"}
    Configurations <- LineOrTransfer
    Entry = 2
    NoByte = "none"
    Cells = 3
    LevelTop = 2
    DisplayBytes <- EveryClass
    Starts <- SomeStarts
    MaxBytes = 3
    Half = 2
    Nibble = 2
    MaxInstructions = 1
    Clocks = {"c"}
    Shorts = {"n", "p"}
    SysExes = {"x"}
    Length <- SomeLengths
    HostEvents <- SomeBlocks
    RingSize = 2
    SysExSize = 3
    SysExCount = 1
    BlockEvents = 4
    MidiWireSize = 4
    MidiRxSize = 1
    ByteTime = 2
    Samples = 2
    DispatchEvery = 1
    TxSize = 3
    MessageSize = 3
    Room = 1
    MaxSent = 5
INVARIANTS NoSpuriousIrq CodeRunsAsWritten BytesInOrder EdgeReportedOnce
           TextIsPublished ChannelMessageWhole DeliveredAsSent RecordingUndisturbed
PROPERTY RequestsReturn
