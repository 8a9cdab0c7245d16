------------------------------ MODULE Playout ------------------------------
(***************************************************************************)
(* What the jitter buffer of RtpReceiver promises the decoder              *)
(* (src/net/rtp_receiver.h): a playout point that walks along the sender's *)
(* stream.  At each position it either takes the packet into the line of   *)
(* those to be handed over, or passes it and counts it lost; it never goes *)
(* back and never passes what was not sent.  The packets of the line come  *)
(* out in the order they were taken, outside every lock, so that a flush   *)
(* may find some in it: those are late.  A packet is its position.         *)
(***************************************************************************)
EXTENDS Integers, Sequences

CONSTANT MaxSent     \* bound: packets the sender sends

VARIABLES sent,      \* packets the sender has sent
          open,      \* the playout point stands somewhere in the stream
          point,     \* the position it stands at
          line,      \* taken, not yet handed over
          late,      \* a flush has overtaken the line
          last,      \* last position handed over since the flush, or -1
          lost       \* positions counted lost

Init ==
    /\ sent = 0
    /\ open = FALSE /\ point = 0
    /\ line = <<>> /\ late = FALSE
    /\ last = -1 /\ lost = 0

Send ==
    /\ sent < MaxSent
    /\ sent' = sent + 1
    /\ UNCHANGED <<open, point, line, late, last, lost>>

(* The first packet after a flush says where the stream is taken up.       *)
Open(n) ==
    /\ ~open /\ line = <<>>
    /\ n < sent
    /\ open' = TRUE /\ point' = n
    /\ UNCHANGED <<sent, line, late, last, lost>>

Take ==
    /\ open /\ ~late
    /\ point < sent
    /\ line' = Append(line, point)
    /\ point' = point + 1
    /\ UNCHANGED <<sent, open, late, last, lost>>

Pass(n) ==
    /\ open
    /\ point + n <= sent
    /\ point' = point + n
    /\ lost' = lost + n
    /\ UNCHANGED <<sent, open, line, late, last>>

(* Room is made by a packet that is not at the playout point: it is        *)
(* counted here, and once more if the point has still to pass it.          *)
Drop ==
    /\ lost' = lost + 1
    /\ UNCHANGED <<sent, open, point, line, late, last>>

HandOver ==
    /\ line # <<>>
    /\ line' = Tail(line)
    /\ last' = IF late THEN last ELSE Head(line)
    /\ late' = (late /\ Tail(line) # <<>>)
    /\ UNCHANGED <<sent, open, point, lost>>

Flush ==
    /\ open' = FALSE
    /\ last' = -1
    /\ late' = (line # <<>>)
    /\ UNCHANGED <<sent, point, line, lost>>

Next ==
    \/ Send
    \/ \E n \in 0 .. MaxSent - 1 : Open(n)
    \/ Take
    \/ \E n \in 1 .. MaxSent : Pass(n)
    \/ Drop \/ HandOver \/ Flush

Spec == Init /\ [][Next]_<<sent, open, point, line, late, last, lost>>
=============================================================================
