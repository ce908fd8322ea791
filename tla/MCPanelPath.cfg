SPECIFICATION Spec
CONSTANTS
    Key = {enter, load}
    ControlLimit = 2
    PhysicalLimit = 1
    Spacing = 1
    Hold = 2
INVARIANTS
    KeysWillAgree
    ReportsAlternate
PROPERTIES
    KeyArrives
