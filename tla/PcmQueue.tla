------------------------------ MODULE PcmQueue ------------------------------
(***************************************************************************)
(* What AudioBuffer promises (src/codec/audio_buffer.h): a first-in        *)
(* first-out queue of sample frames that never refuses a write: when it is *)
(* full the oldest frames make room.  A frame is its number in the order   *)
(* of arrival since the buffer was last configured.                        *)
(***************************************************************************)
EXTENDS Integers, Sequences

CONSTANTS MaxFrames,   \* frames the queue holds
          MaxWrite     \* most frames in one write

VARIABLES queue,       \* the frames held, oldest first
          count        \* frames accepted since the last configuration

Newest(s) == IF Len(s) <= MaxFrames THEN s
             ELSE SubSeq(s, Len(s) - MaxFrames + 1, Len(s))

Init == queue = <<>> /\ count = 0

Put(k) ==
    /\ queue' = Newest(queue \o [j \in 1 .. k |-> count + j - 1])
    /\ count' = count + k

Take(k) ==
    /\ k <= Len(queue)
    /\ queue' = SubSeq(queue, k + 1, Len(queue))
    /\ UNCHANGED count

Clear == queue' = <<>> /\ count' \in {count, 0}

Next ==
    \/ \E k \in 1 .. MaxWrite : Put(k)
    \/ \E k \in 1 .. MaxFrames : Take(k)
    \/ Clear

Spec == Init /\ [][Next]_<<queue, count>>
=============================================================================
