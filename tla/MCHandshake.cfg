SPECIFICATION Spec
CONSTANTS
    Conns = {c1, c2}
    Devices = {1, 2}
    Limits = {1, 2}
    MaxKeys = 5
    MaxRestarts = 1
SYMMETRY Swap
INVARIANTS
    HonestAccepted
    VerifiedSigned
    MediaKeyAgrees
    PinGuards
CHECK_DEADLOCK FALSE
