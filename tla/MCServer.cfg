SPECIFICATION FairSpec
CONSTANTS
    Conns = {c1, c2}
    MaxSessions = 1
INVARIANTS
    WellFormed
    HandlerHasSession
    StoppedIsClosed
PROPERTIES
    ImplementsTable
    StopReturns
    HungUpIsClosed
    WorkersEnd
