SPECIFICATION Spec
CONSTANTS
    Conns = {c1, c2}
    MaxSessions = 1
CHECK_DEADLOCK FALSE
INVARIANT
    EndIsTold
