SPECIFICATION Spec
CONSTANTS
    sound = sound
    capture = capture
    Disk = {sound, capture}
    Blank = Blank
    NoDisk = NoDisk
    LastTrack = 1
    Sectors = 1
    SectorBytes = 2
    Damaged <- MCDamaged
INVARIANTS
    MapOfThisDisk
