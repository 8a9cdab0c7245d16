\* A stretch of six packets whose sequence numbers wrap after the third one,
\* a buffer of depth four: it fills, gaps of up to half its depth wait, longer
\* ones are jumped over.
CONSTANTS
    SeqMod = 16
    JbufMax = 4
    First = 13
    MaxSent = 6
    MaxLost = 5
SPECIFICATION FairSpec
INVARIANTS
    WellFormed
    PlayoutInv
    LossCounted
    HeldOnlyForGap
PROPERTIES
    ImplementsPlayout
    HeldPacketsLeave
\* a stream may end, and the receiver waits in select for ever
CHECK_DEADLOCK FALSE
