SPECIFICATION Spec
CONSTANTS
    MaxPackets = 4
    None = None
CHECK_DEADLOCK FALSE
INVARIANTS
    OneFrame
    CleanHasNoHole
PROPERTY
    TakenGoesOut
