SPECIFICATION Spec
CONSTANTS
    Control = {press, release, fader}
    Capacity = 4
    MaxDrops = 2
    QuietReset = FALSE
PROPERTIES
    ImplementsFifo
CHECK_DEADLOCK TRUE
