\* Every kind of job.
CONSTANTS
    Jobs <- WireJobs
    HeaderLen = 16
    Limbs = 3
    Width = 5
    P = 53
    A24 = 1
    EdD = 3
    BaseX = 4
    BaseY = 43
    Order = 7
    TopBit = 5
SPECIFICATION Spec
INVARIANTS
    CutsInvisible
    AudioReadable
    DatagramsUnderstood
    ValuesReadBack
    RequestsUnderstood
    ArithmeticAgrees
\* a job ends
CHECK_DEADLOCK FALSE
