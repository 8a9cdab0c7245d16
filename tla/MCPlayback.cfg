\* A ring of three frames of one or two bytes, chunks of two frames, writes of
\* up to four frames (more than the ring holds), eight bytes per configuration:
\* the offsets go round, frames are dropped, the fill count wraps below zero.
CONSTANTS
    MaxFrames = 3
    MaxWrite = 4
    Formats = {1, 2}
    SizeMod = 64
    Want = 2
    MaxTotal = 8
    MaxConfig = 1
SPECIFICATION FairSpec
INVARIANTS
    WellFormed
PROPERTIES
    ImplementsQueue
    PlayedInOrder
    QuietWhenStopped
    StopCompletes
    ChunksGetPlayed
\* the bounds end a behaviour, and so does a chunk larger than tmp
CHECK_DEADLOCK FALSE
