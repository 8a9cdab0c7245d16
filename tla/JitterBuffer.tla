---------------------------- MODULE JitterBuffer ----------------------------
(***************************************************************************)
(* The audio jitter buffer of RtpReceiver (src/net/rtp_receiver.cpp): the  *)
(* receiver thread takes RTP packets off the data socket in whatever order *)
(* the network brings them, keeps them in the map jbuffer_ (keyed by the   *)
(* 16-bit sequence number, ordered NUMERICALLY) and hands the contiguous   *)
(* prefix to packet_cb_ outside the lock, while an RTSP thread may call    *)
(* flush() at any moment it can get jbuf_mu_.                              *)
(*                                                                         *)
(* A packet is its position in the sender's stream, a natural number; the  *)
(* number on the wire is SeqOf(position).  The receiver's own tests use    *)
(* only the number on the wire; positions appear in its state because a    *)
(* packet has to be something, and in the history variables.               *)
(*                                                                         *)
(* packets, bytes, reordered and the jitter estimate are statistics that   *)
(* nothing in the receiver reads: only the counter lost is kept.           *)
(***************************************************************************)
EXTENDS Integers, Sequences, FiniteSets

CONSTANTS
    SeqMod,    \* size of the sequence-number space (2^16 in the code)
    JbufMax,   \* jbuf_max_, the depth of the buffer (128 in the code)
    First,     \* sequence number of the sender's first packet
    MaxSent,   \* bound: packets the sender sends
    MaxLost    \* bound: the receiver takes packets while lost is below it

ASSUME ConstantsOK ==
    /\ SeqMod \in Nat /\ JbufMax \in Nat /\ First \in Nat
    /\ MaxSent \in Nat /\ MaxLost \in Nat
    /\ JbufMax >= 1
    /\ First < SeqMod
    /\ 2 * MaxSent <= SeqMod   \* one stretch of stream that seq_dist can order

Packets == 0 .. MaxSent - 1

SeqOf(i) == (First + i) % SeqMod

(* Variants of the operators and actions below, each with one plausible    *)
(* slip (its comment names it), show that the properties at the end can    *)
(* tell the code from a wrong one.  Here: the difference left unsigned.    *)
SeqDistUnsigned(a, b) == (a - b) % SeqMod

(* seq_dist: the difference taken in the 16-bit space and read as signed. *)
SeqDist(a, b) ==
    LET d == (a - b) % SeqMod
    IN  IF 2 * d >= SeqMod THEN d - SeqMod ELSE d

NextSeq(s) == (s + 1) % SeqMod

VARIABLES
    sent,        \* packets 0 .. sent-1 have left the sender
    pc,          \* where the receiver thread is
    pkt,         \* the packet it has just received
    jbuffer,     \* jbuffer_: the packets held
    expected,    \* next_expected_seq_
    started,     \* has_started_
    gap,         \* gap_wait_start_us_ against the clock and kGapTimeoutUs
    toEmit,      \* to_emit: collected under the lock, not yet handed over
    lost,        \* stats_.lost
    \* history
    nextIdx,     \* the stream position that expected stands for
    skipped,     \* positions the playout point has passed without a packet
    last,        \* last position handed over since the last flush, or -1
    staleBatch   \* a flush came after toEmit was collected

env  == <<sent>>
hist == <<nextIdx, skipped, last, staleBatch>>
vars == <<sent, pc, pkt, jbuffer, expected, started, gap, toEmit, lost,
          nextIdx, skipped, last, staleBatch>>

(* jbuffer_.begin(): the map is ordered by the unsigned sequence number.   *)
Lowest(S) == CHOOSE i \in S : \A j \in S : SeqOf(i) <= SeqOf(j)

Locked == pc = "emit"      \* the receiver thread holds jbuf_mu_

Init ==
    /\ sent = 0
    /\ pc = "select" /\ pkt = 0
    /\ jbuffer = {}
    /\ expected = 0 /\ started = FALSE
    /\ gap = "off"
    /\ toEmit = <<>>
    /\ lost = 0
    /\ nextIdx = 0 /\ skipped = 0 /\ last = -1 /\ staleBatch = FALSE
-----------------------------------------------------------------------------
(* The sender.  A packet it sent may arrive once, several times, late, or  *)
(* never: Receive takes any packet that was sent.                          *)
Send ==
    /\ sent < MaxSent
    /\ sent' = sent + 1
    /\ UNCHANGED <<pc, pkt, jbuffer, expected, started, gap, toEmit, lost, hist>>

(* The clock passes kGapTimeoutUs.  emit_ready reads the clock once, before*)
(* its loop, so the passing of time inside the loop is not seen.           *)
GapTimeout ==
    /\ ~Locked
    /\ gap = "waiting"
    /\ gap' = "expired"
    /\ UNCHANGED <<env, pc, pkt, jbuffer, expected, started, toEmit, lost, hist>>
-----------------------------------------------------------------------------
(* receiver_worker: select reports the data socket and recvfrom takes a    *)
(* packet.  A select that times out reports no socket, select_read returns *)
(* true and the loop goes round with nothing changed: no action here.      *)
Receive(i) ==
    /\ pc = "select"
    /\ i < sent
    /\ lost < MaxLost
    /\ pkt' = i
    /\ pc' = "insert"
    /\ UNCHANGED <<env, jbuffer, expected, started, gap, toEmit, lost, hist>>

(* select fails (r < 0, for example EINTR): the only path on which         *)
(* emit_ready runs without a new packet.                                   *)
SelectError ==
    /\ pc = "select"
    /\ pc' = "ready"
    /\ UNCHANGED <<env, pkt, jbuffer, expected, started, gap, toEmit, lost, hist>>

(* Variant: no room is made in a full map.                                 *)
InsertNoBound ==
    /\ pc = "insert"
    /\ jbuffer' = jbuffer \cup {pkt}
    /\ pc' = "ready"
    /\ UNCHANGED <<env, pkt, expected, started, gap, toEmit, lost, hist>>

(* Under jbuf_mu_: when the map is full its first entry makes room.        *)
Insert ==
    /\ pc = "insert"
    /\ LET full     == Cardinality(jbuffer) >= JbufMax
           oldest   == Lowest(jbuffer)
           rest     == IF full THEN jbuffer \ {oldest} ELSE jbuffer
           advance  == full /\ started /\ SeqOf(oldest) = expected
       IN  /\ jbuffer'  = {j \in rest : SeqOf(j) # SeqOf(pkt)} \cup {pkt}
           /\ lost'     = IF full THEN lost + 1 ELSE lost
           /\ expected' = IF advance THEN NextSeq(expected) ELSE expected
           /\ nextIdx'  = IF advance THEN nextIdx + 1 ELSE nextIdx
           /\ skipped'  = IF advance THEN skipped + 1 ELSE skipped
    /\ pc' = "ready"
    /\ UNCHANGED <<env, pkt, started, gap, toEmit, last, staleBatch>>
-----------------------------------------------------------------------------
(* emit_ready, one action for the part before the loop and one for each    *)
(* branch of the loop; the lock is held from EmitBegin to the leaving step.*)
EmitNothing ==
    /\ pc = "ready"
    /\ jbuffer = {}
    /\ gap' = "off"
    /\ pc' = "select"
    /\ UNCHANGED <<env, pkt, jbuffer, expected, started, toEmit, lost, hist>>

EmitBegin ==
    /\ pc = "ready"
    /\ jbuffer # {}
    /\ expected' = IF started THEN expected ELSE SeqOf(Lowest(jbuffer))
    /\ nextIdx'  = IF started THEN nextIdx  ELSE Lowest(jbuffer)
    /\ started' = TRUE
    /\ staleBatch' = FALSE
    /\ pc' = "emit"
    /\ UNCHANGED <<env, pkt, jbuffer, gap, toEmit, lost, skipped, last>>

NextIsHere == \E i \in jbuffer : SeqOf(i) = expected

TakeNext ==
    /\ pc = "emit"
    /\ \E i \in jbuffer :
          /\ SeqOf(i) = expected
          /\ toEmit' = Append(toEmit, i)
          /\ jbuffer' = jbuffer \ {i}
          /\ nextIdx' = i + 1
    /\ expected' = NextSeq(expected)
    /\ gap' = "off"
    /\ UNCHANGED <<env, pc, pkt, started, lost, skipped, last, staleBatch>>

(* The distance of the first entry of the map from the expected number.    *)
Ahead == SeqDist(SeqOf(Lowest(jbuffer)), expected)

DropStale ==
    /\ pc = "emit"
    /\ jbuffer # {} /\ ~NextIsHere
    /\ Ahead < 0
    /\ jbuffer' = jbuffer \ {Lowest(jbuffer)}
    /\ UNCHANGED <<env, pc, pkt, expected, started, gap, toEmit, lost, hist>>

(* Variant: only the depth of the gap counts, not the time waited.         *)
MustJumpByDepth == Ahead > JbufMax \div 2

MustJump == Ahead > JbufMax \div 2 \/ gap = "expired"

(* Variant: the jump is not counted.                                       *)
JumpUncounted ==
    /\ pc = "emit"
    /\ jbuffer # {} /\ ~NextIsHere
    /\ Ahead >= 0 /\ MustJump
    /\ expected' = SeqOf(Lowest(jbuffer))
    /\ nextIdx' = Lowest(jbuffer)
    /\ skipped' = skipped + (Lowest(jbuffer) - nextIdx)
    /\ gap' = "off"
    /\ UNCHANGED <<env, pc, pkt, jbuffer, started, toEmit, lost, last, staleBatch>>

(* Variant: no test for a stale first entry.                               *)
JumpBack ==
    /\ pc = "emit"
    /\ jbuffer # {} /\ ~NextIsHere
    /\ MustJump
    /\ lost' = lost + Ahead
    /\ expected' = SeqOf(Lowest(jbuffer))
    /\ nextIdx' = Lowest(jbuffer)
    /\ skipped' = skipped + (Lowest(jbuffer) - nextIdx)
    /\ gap' = "off"
    /\ UNCHANGED <<env, pc, pkt, jbuffer, started, toEmit, last, staleBatch>>

JumpGap ==
    /\ pc = "emit"
    /\ jbuffer # {} /\ ~NextIsHere
    /\ Ahead >= 0 /\ MustJump
    /\ lost' = lost + Ahead
    /\ expected' = SeqOf(Lowest(jbuffer))
    /\ nextIdx' = Lowest(jbuffer)
    /\ skipped' = skipped + (Lowest(jbuffer) - nextIdx)
    /\ gap' = "off"
    /\ UNCHANGED <<env, pc, pkt, jbuffer, started, toEmit, last, staleBatch>>

(* Variant: the timer is not started.                                      *)
WaitGapUntimed ==
    /\ pc = "emit"
    /\ jbuffer # {} /\ ~NextIsHere
    /\ Ahead >= 0 /\ ~MustJump
    /\ pc' = "deliver"
    /\ UNCHANGED <<env, pkt, jbuffer, expected, started, gap, toEmit, lost, hist>>

WaitGap ==
    /\ pc = "emit"
    /\ jbuffer # {} /\ ~NextIsHere
    /\ Ahead >= 0 /\ ~MustJump
    /\ gap' = IF gap = "off" THEN "waiting" ELSE gap
    /\ pc' = "deliver"
    /\ UNCHANGED <<env, pkt, jbuffer, expected, started, toEmit, lost, hist>>

EmitDrained ==
    /\ pc = "emit"
    /\ jbuffer = {}
    /\ pc' = "deliver"
    /\ UNCHANGED <<env, pkt, jbuffer, expected, started, gap, toEmit, lost, hist>>

(* The callbacks run after the lock is released.                           *)
Deliver ==
    /\ pc = "deliver"
    /\ toEmit # <<>>
    /\ toEmit' = Tail(toEmit)
    /\ last' = IF staleBatch THEN last ELSE Head(toEmit)
    /\ UNCHANGED <<env, pc, pkt, jbuffer, expected, started, gap, lost,
                   nextIdx, skipped, staleBatch>>

DeliverDone ==
    /\ pc = "deliver"
    /\ toEmit = <<>>
    /\ pc' = "select"
    /\ UNCHANGED <<env, pkt, jbuffer, expected, started, gap, toEmit, lost, hist>>
-----------------------------------------------------------------------------
(* flush(), called on an RTSP connection's thread: takes jbuf_mu_, so not  *)
(* while the receiver thread is in the loop of emit_ready; but it does run *)
(* between the collecting of to_emit and the callbacks.                    *)
Flush ==
    /\ ~Locked
    /\ jbuffer' = {}
    /\ started' = FALSE
    /\ last' = -1
    /\ staleBatch' = (toEmit # <<>>)
    /\ UNCHANGED <<env, pc, pkt, expected, gap, toEmit, lost, nextIdx, skipped>>
-----------------------------------------------------------------------------
Worker ==
    \/ Insert \/ EmitNothing \/ EmitBegin \/ TakeNext \/ DropStale
    \/ JumpGap \/ WaitGap \/ EmitDrained \/ Deliver \/ DeliverDone

Next ==
    \/ Send \/ GapTimeout
    \/ \E i \in Packets : Receive(i)
    \/ SelectError
    \/ Worker
    \/ Flush

Spec == Init /\ [][Next]_vars

(* The receiver thread keeps running once it has something to do; 100 ms   *)
(* pass, however often the thread is inside the loop when they do (strong  *)
(* fairness).  Nothing says that packets arrive, nor that select fails.    *)
FairSpec == Spec /\ WF_vars(Worker) /\ SF_vars(GapTimeout)
-----------------------------------------------------------------------------
TypeInv ==
    /\ sent \in 0 .. MaxSent
    /\ pc \in {"select", "insert", "ready", "emit", "deliver"}
    /\ pkt \in 0 .. MaxSent /\ (pc = "insert" => pkt \in Packets)
    /\ jbuffer \in SUBSET Packets
    /\ expected \in 0 .. SeqMod - 1
    /\ started \in BOOLEAN
    /\ gap \in {"off", "waiting", "expired"}
    /\ toEmit \in Seq(Packets)
    /\ lost \in Nat
    /\ nextIdx \in 0 .. MaxSent
    /\ skipped \in Nat
    /\ last \in -1 .. MaxSent - 1
    /\ staleBatch \in BOOLEAN

(* What keeps the output in order: next_expected_seq_ is the number of a   *)
(* definite stream position, everything handed over or about to be lies    *)
(* before it, and the batch in to_emit is increasing.  A batch that a      *)
(* flush has overtaken is outside this: its packets belong to the past.    *)
PlayoutInv ==
    /\ started => expected = SeqOf(nextIdx) /\ last < nextIdx
    /\ ~started => last = -1
    /\ pc = "emit" => started /\ ~staleBatch
    /\ toEmit # <<>> => pc \in {"emit", "deliver"}
    /\ (toEmit # <<>> /\ ~staleBatch) =>
          /\ started
          /\ \A k \in 1 .. Len(toEmit) : last < toEmit[k] /\ toEmit[k] < nextIdx
          /\ \A j, k \in 1 .. Len(toEmit) : j < k => toEmit[j] < toEmit[k]

(* Between two flushes packet_cb_ is given each packet at most once and in *)
(* the order the sender sent them, whatever the network lost, duplicated   *)
(* or reordered and wherever the sequence number wraps: emit_ready never   *)
(* moves the playout point back.                                           *)
InOrder ==
    [][(toEmit # <<>> /\ toEmit' = Tail(toEmit) /\ ~staleBatch)
          => Head(toEmit) > last]_vars

(* All of this in one: what goes on inside the map is the abstract playout *)
(* line of Playout.tla.  next_expected_seq_ is its point, to_emit its      *)
(* line, and a batch overtaken by a flush is late while any of it is left. *)
(* Making room, jumping, dropping and waiting are passing, dropping or     *)
(* nothing: the point never goes back, however the numbers wrap, each      *)
(* packet is given to packet_cb_ at most once and in order, and every      *)
(* position passed is in stats_.lost.                                      *)
LateBatch == staleBatch /\ toEmit # <<>>

Line == INSTANCE Playout WITH open <- started, point <- nextIdx, line <- toEmit,
                              late <- LateBatch

ImplementsPlayout == Line!Spec

(* Every stream position the playout point passes without a packet is in   *)
(* stats_.lost: a jump counts the whole gap, across the wrap too.          *)
LossCounted == lost >= skipped

(* What the receiver thread may leave behind when it goes back to select:  *)
(* packets that wait for an earlier one, by no more than half the depth of *)
(* the buffer, with the gap timer armed.  A packet whose turn it is, or a  *)
(* gap without a timer, would sit in jbuffer_ for ever.                    *)
HeldOnlyForGap ==
    (pc = "select" /\ jbuffer # {}) =>
        /\ started
        /\ ~NextIsHere
        /\ Ahead \in 1 .. JbufMax \div 2
        /\ gap # "off"

(* The map never holds more than jbuf_max_ packets, and a full one takes   *)
(* the new packet in.                                                      *)
DepthBounded == Cardinality(jbuffer) <= JbufMax

(* The variables have their types and the map its bound.                   *)
WellFormed == TypeInv /\ DepthBounded

(* While packets of any kind keep coming in, no packet is held for ever:   *)
(* the gap in front of it fills, or its timer runs out and the next packet *)
(* makes emit_ready jump.                                                  *)
HeldPacketsLeave ==
    []<>(pc = "insert") => \A i \in Packets : (i \in jbuffer) ~> (i \notin jbuffer)
=============================================================================
