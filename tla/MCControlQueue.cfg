SPECIFICATION Spec
CONSTANTS
    Control = {press, release, fader}
    Capacity = 4
    MaxDrops = 2
    QuietReset = TRUE
INVARIANTS
    TypeOK
    NoSlotRace
    CopyStillValid
PROPERTIES
    ImplementsFifo
CHECK_DEADLOCK TRUE
