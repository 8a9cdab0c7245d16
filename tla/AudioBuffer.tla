---------------------------- MODULE AudioBuffer ----------------------------
(***************************************************************************)
(* The circular PCM buffer (src/codec/audio_buffer.cpp): a byte array with *)
(* a read offset, a write offset and a fill count, all three in bytes; a   *)
(* write that does not fit drops the oldest frames.  Every operation runs  *)
(* under mu_, so each is one action.                                       *)
(*                                                                         *)
(* A byte is its number in the order of arrival since set_config; Blank is *)
(* a byte nobody has written.  Lengths are size_t: arithmetic modulo       *)
(* SizeMod.                                                                *)
(***************************************************************************)
EXTENDS Integers, Sequences

CONSTANTS
    MaxFrames,   \* max_frames_, the capacity in frames (16384 in the code)
    MaxWrite,    \* most frames in one call of write_bytes
    Formats,     \* the sizes of a frame that set_config may ask for
    SizeMod      \* 2^(bits of size_t)

ASSUME RingAssumption ==
    /\ MaxFrames \in Nat \ {0} /\ MaxWrite \in Nat \ {0} /\ SizeMod \in Nat
    /\ Formats \in SUBSET (Nat \ {0}) /\ Formats # {}
    \* the second memcpy of write_bytes stays inside data_
    /\ MaxWrite <= MaxFrames + 1
    /\ \A b \in Formats : 4 * (MaxFrames * b + b) < SizeMod

Blank == -1

VARIABLES
    bpf,     \* bpf_, bytes per frame
    data,    \* data_
    rd,      \* rd_
    wr,      \* wr_
    used,    \* bytes_used_
    total    \* history: bytes accepted since the last set_config

ring == <<bpf, data, rd, wr, used, total>>

Cap == MaxFrames * bpf          \* bytes_cap_
Have == used \div bpf           \* available_frames()

RingInit ==
    /\ bpf \in Formats
    /\ data = [p \in 0 .. Cap - 1 |-> Blank]
    /\ rd = 0 /\ wr = 0 /\ used = 0 /\ total = 0
-----------------------------------------------------------------------------
(* set_config: the contents and the offsets go.                            *)
SetConfig(b) ==
    /\ bpf' = b
    /\ data' = [p \in 0 .. MaxFrames * b - 1 |-> Blank]
    /\ rd' = 0 /\ wr' = 0 /\ used' = 0 /\ total' = 0

(* The two memcpy of write_bytes: from offset at to the end of the array,  *)
(* and the rest from its beginning.                                        *)
Copied(at, bytes) ==
    LET first == IF bytes < Cap - at THEN bytes ELSE Cap - at
    IN  [p \in 0 .. Cap - 1 |->
            IF p < bytes - first THEN total + first + p
            ELSE IF p >= at /\ p < at + first THEN total + (p - at)
            ELSE data[p]]

(* The variants below differ from the operation they precede by one        *)
(* plausible slip, which their comment names; they show that the           *)
(* properties tell the code from a wrong one.                              *)
(* Variant: the check for room is off by one.                              *)
WriteOffByOne(n) ==
    LET bytes == (n \div bpf) * bpf
        free  == Cap - used
        skip  == IF free + 1 < bytes THEN bytes - free ELSE 0
    IN  /\ bytes > 0
        /\ data' = Copied(wr, bytes)
        /\ rd' = (rd + skip) % Cap
        /\ wr' = (wr + bytes) % Cap
        /\ used' = (((used - skip) % SizeMod) + bytes) % SizeMod
        /\ total' = total + bytes
        /\ UNCHANGED bpf

(* write_bytes(bytes, n): whole frames only; when they do not fit, rd_ and *)
(* bytes_used_ skip the oldest ones, the subtraction wrapping below zero   *)
(* when the write is larger than the array.                                *)
Write(n) ==
    LET bytes == (n \div bpf) * bpf
        free  == Cap - used
        need  == bytes - free
        skip  == IF free < bytes THEN ((need + bpf - 1) \div bpf) * bpf ELSE 0
    IN  /\ bytes > 0
        /\ data' = Copied(wr, bytes)
        /\ rd' = (rd + skip) % Cap
        /\ wr' = (wr + bytes) % Cap
        /\ used' = (((used - skip) % SizeMod) + bytes) % SizeMod
        /\ total' = total + bytes
        /\ UNCHANGED bpf

(* What read_frames and peek_frames copy out.                              *)
Taken(k) == IF Have < k THEN Have ELSE k
Bytes(k) == [j \in 1 .. Taken(k) * bpf |-> data[(rd + j - 1) % Cap]]

(* Variant: the read offset moves by what was asked for, not by what was   *)
(* there.                                                                  *)
ReadAsked(k) ==
    /\ Taken(k) > 0
    /\ rd' = (rd + k * bpf) % Cap
    /\ used' = used - Taken(k) * bpf
    /\ UNCHANGED <<bpf, data, wr, total>>

(* Variant: the read offset does not move.                                 *)
ReadStays(k) ==
    /\ Taken(k) > 0
    /\ used' = used - Taken(k) * bpf
    /\ UNCHANGED <<bpf, data, rd, wr, total>>

(* read_frames(out, k) without block_until, the only way it is called.     *)
Read(k) ==
    /\ Taken(k) > 0
    /\ rd' = (rd + Taken(k) * bpf) % Cap
    /\ used' = used - Taken(k) * bpf
    /\ UNCHANGED <<bpf, data, wr, total>>

(* flush()                                                                 *)
Flush ==
    /\ rd' = 0 /\ wr' = 0 /\ used' = 0
    /\ UNCHANGED <<bpf, data, total>>

RingNext ==
    \/ \E b \in Formats : SetConfig(b)
    \/ \E k \in 1 .. MaxWrite, r \in 0 .. bpf - 1 : Write(k * bpf + r)
    \/ \E k \in 1 .. MaxFrames : Read(k)
    \/ Flush

RingSpec == RingInit /\ [][RingNext]_ring
-----------------------------------------------------------------------------
RingTypeInv ==
    /\ bpf \in Formats
    /\ data \in [0 .. Cap - 1 -> Nat \cup {Blank}]
    /\ rd \in 0 .. Cap - 1 /\ wr \in 0 .. Cap - 1 /\ used \in 0 .. Cap
    /\ total \in Nat

(* What lies between the read offset and the write offset is the newest    *)
(* used bytes in the order they were written, whatever was dropped and     *)
(* however often the offsets have gone round.                              *)
RingInv ==
    /\ wr = (rd + used) % Cap
    /\ used <= total
    /\ \A k \in 0 .. used - 1 : data[(rd + k) % Cap] = total - used + k

(* No frame is ever torn: offsets, fill and stream stay whole frames.      *)
FrameAligned ==
    rd % bpf = 0 /\ wr % bpf = 0 /\ used % bpf = 0 /\ total % bpf = 0

(* The k-th frame held, by its number, or Blank when its bytes are not the *)
(* bytes of one frame in order.                                            *)
FrameAt(k) ==
    LET at == (rd + k * bpf) % Cap
        f  == data[at] \div bpf
    IN  IF \A b \in 0 .. bpf - 1 : data[(at + b) % Cap] = f * bpf + b
        THEN f ELSE Blank

Queue == INSTANCE PcmQueue WITH
    queue <- [k \in 1 .. Have |-> FrameAt(k - 1)],
    count <- total \div bpf

(* The ring of bytes is a drop-oldest queue of frames.                     *)
ImplementsQueue == Queue!Spec
=============================================================================
