------------------------- MODULE JitterBufferProofs -------------------------
EXTENDS JitterBuffer, RtpPackets, TLAPS, WellFoundedInduction, FiniteSetTheorems,
        SequenceTheorems

(* Sequence numbers of a stretch of MaxSent packets wrap at most once.     *)
LEMMA ModOnce ==
    ASSUME NEW M \in Nat, M > 0, NEW x \in Int, -M <= x, x < 2 * M
    PROVE  x % M = IF x < 0 THEN x + M ELSE IF x < M THEN x ELSE x - M
OBVIOUS

(* Every nonempty set of naturals has a least element: among the intervals *)
(* 0 .. n-1 of its elements one is minimal for strict inclusion.           *)
LEMMA NatLeast ==
    ASSUME NEW T \in SUBSET Nat, T # {}
    PROVE  \E m \in T : \A n \in T : m <= n
<1> DEFINE below(n) == 0 .. n - 1
           B == {below(n) : n \in T}
<1>1. B \subseteq FiniteSubsetsOf(Nat)
  <2>1. ASSUME NEW n \in T PROVE below(n) \in FiniteSubsetsOf(Nat)
    <3>1. IsFiniteSet(below(n))
      BY FS_Interval
    <3>2. QED
      BY <3>1 DEF FiniteSubsetsOf
  <2>2. QED
    BY <2>1
<1>2. PICK X \in B : \A Y \in B : <<Y, X>> \notin StrictSubsetOrdering(Nat)
  <2>1. B # {}
    OBVIOUS
  <2>2. QED
    BY <1>1, <2>1, FS_StrictSubsetOrderingWellFounded, WFMin
<1>3. PICK m \in T : X = below(m)
  OBVIOUS
<1>4. ASSUME NEW n \in T, n < m
      PROVE  FALSE
  <2>1. below(n) \in B
    OBVIOUS
  <2>2. below(n) \subseteq below(m) /\ below(n) # below(m)
    <3>1. n \in below(m) /\ n \notin below(n)
      BY <1>4
    <3>2. QED
      BY <3>1, <1>4
  <2>3. <<below(n), below(m)>> \in StrictSubsetOrdering(Nat)
    BY <2>2 DEF StrictSubsetOrdering
  <2>4. QED
    BY <1>2, <1>3, <2>1, <2>3
<1>5. QED
  BY <1>4

-----------------------------------------------------------------------------
(* Numbers of the wire and positions of the stream.                        *)
LEMMA SeqOfNat ==
    ASSUME NEW i \in 0 .. MaxSent
    PROVE  /\ SeqOf(i) \in 0 .. SeqMod - 1
           /\ SeqOf(i) = IF First + i < SeqMod THEN First + i
                         ELSE First + i - SeqMod
<1>1. SeqMod > 0 /\ First + i < 2 * SeqMod
  BY ConstantsOK
<1>2. QED
  BY <1>1, ModOnce, ConstantsOK DEF SeqOf

LEMMA SeqOfInjective ==
    ASSUME NEW i \in 0 .. MaxSent, NEW j \in 0 .. MaxSent, SeqOf(i) = SeqOf(j),
           i < MaxSent
    PROVE  i = j
BY SeqOfNat, ConstantsOK

(* Within one stretch of stream the signed 16-bit distance is the distance *)
(* of the positions.                                                       *)
LEMMA SeqDistIsDistance ==
    ASSUME NEW i \in Packets, NEW n \in 0 .. MaxSent
    PROVE  SeqDist(SeqOf(i), SeqOf(n)) = i - n
<1> DEFINE a == SeqOf(i)
           b == SeqOf(n)
<1>1. a \in 0 .. SeqMod - 1 /\ b \in 0 .. SeqMod - 1 /\ SeqMod > 0
  BY SeqOfNat, ConstantsOK DEF Packets
<1>2. a - b = i - n \/ a - b = i - n + SeqMod \/ a - b = i - n - SeqMod
  BY SeqOfNat, ConstantsOK DEF Packets
<1>3. -SeqMod <= 2 * (i - n) /\ 2 * (i - n) < SeqMod
  BY ConstantsOK DEF Packets
<1>4. (a - b) % SeqMod = IF a - b < 0 THEN a - b + SeqMod ELSE a - b
  <2> HIDE DEF a, b
  <2>1. a - b \in Int /\ -SeqMod <= a - b /\ a - b < SeqMod
    BY <1>1, ConstantsOK
  <2>2. QED
    BY <1>1, <2>1, ModOnce, ConstantsOK
<1>5. QED
  <2> HIDE DEF a, b
  <2>1. SeqDist(a, b) = i - n
    BY <1>1, <1>2, <1>3, <1>4, ConstantsOK DEF SeqDist, Packets
  <2>2. QED
    BY <2>1 DEF a, b

LEMMA NextSeqOf ==
    ASSUME NEW i \in 0 .. MaxSent - 1
    PROVE  NextSeq(SeqOf(i)) = SeqOf(i + 1)
<1>1. SeqOf(i) \in 0 .. SeqMod - 1 /\ SeqMod > 0
  BY SeqOfNat, ConstantsOK
<1>2. NextSeq(SeqOf(i)) = IF SeqOf(i) + 1 < SeqMod THEN SeqOf(i) + 1 ELSE SeqOf(i) + 1 - SeqMod
  BY <1>1, ModOnce, ConstantsOK DEF NextSeq
<1>3. QED
  BY <1>1, <1>2, SeqOfNat, ConstantsOK

(* jbuffer_.begin() is an entry of the map.                                *)
LEMMA LowestIn ==
    ASSUME NEW S \in SUBSET Packets, S # {}
    PROVE  /\ Lowest(S) \in S
           /\ \A j \in S : SeqOf(Lowest(S)) <= SeqOf(j)
<1> DEFINE T == {SeqOf(i) : i \in S}
<1>1. T \in SUBSET Nat /\ T # {}
  <2>1. \A i \in S : i \in 0 .. MaxSent
    BY ConstantsOK DEF Packets
  <2>2. \A i \in S : SeqOf(i) \in Nat
    BY <2>1, SeqOfNat, ConstantsOK
  <2>3. QED
    BY <2>2
<1>2. PICK m \in T : \A n \in T : m <= n
  <2> HIDE DEF T
  <2>1. QED
    BY <1>1, NatLeast
<1>3. PICK i \in S : m = SeqOf(i)
  OBVIOUS
<1>4. \A j \in S : SeqOf(i) <= SeqOf(j)
  BY <1>2, <1>3
<1>5. QED
  BY <1>4 DEF Lowest
-----------------------------------------------------------------------------
(* The variables stay in their ranges: in particular the playout point     *)
(* nextIdx never leaves the stream, and next_expected_seq_ never leaves    *)
(* the 16-bit space.                                                       *)
LEMMA TypeInit == Init => TypeInv
<1> SUFFICES ASSUME Init PROVE TypeInv
  OBVIOUS
<1>1. SeqMod > 0
  BY ConstantsOK
<1>2. /\ sent \in 0 .. MaxSent /\ pkt \in 0 .. MaxSent /\ nextIdx \in 0 .. MaxSent
      /\ expected \in 0 .. SeqMod - 1 /\ last \in -1 .. MaxSent - 1
  BY <1>1, ConstantsOK DEF Init
<1>3. toEmit \in Seq(Packets) /\ jbuffer \in SUBSET Packets
  BY DEF Init
<1>4. QED
  BY <1>2, <1>3 DEF Init, TypeInv

LEMMA PlayoutInit == Init => PlayoutInv
BY DEF Init, PlayoutInv

(* A step of the receiver thread or of its surroundings keeps both parts   *)
(* of the invariant; each needs the other.                                 *)
LEMMA InductiveStep ==
    TypeInv /\ PlayoutInv /\ [Next]_vars => TypeInv' /\ PlayoutInv'
<1> SUFFICES ASSUME TypeInv, PlayoutInv, [Next]_vars
             PROVE  TypeInv' /\ PlayoutInv'
  OBVIOUS
<1> USE ConstantsOK
<1>1. CASE Send
  BY <1>1 DEF Send, TypeInv, PlayoutInv, hist
<1>2. CASE GapTimeout
  BY <1>2 DEF GapTimeout, TypeInv, PlayoutInv, env, hist
<1>3. ASSUME NEW i \in Packets, Receive(i)
      PROVE  TypeInv' /\ PlayoutInv'
  BY <1>3 DEF Receive, TypeInv, PlayoutInv, env, hist, Packets
<1>4. CASE SelectError
  BY <1>4 DEF SelectError, TypeInv, PlayoutInv, env, hist
<1>5. CASE Insert
  <2> DEFINE full    == Cardinality(jbuffer) >= JbufMax
             oldest  == Lowest(jbuffer)
             advance == full /\ started /\ SeqOf(oldest) = expected
  <2>1. full => oldest \in jbuffer
    BY LowestIn, FS_EmptySet DEF TypeInv
  <2>2. advance => /\ oldest = nextIdx
                   /\ nextIdx + 1 \in 0 .. MaxSent
                   /\ NextSeq(expected) = SeqOf(nextIdx + 1)
    <3> SUFFICES ASSUME advance
                 PROVE  /\ oldest = nextIdx
                        /\ nextIdx + 1 \in 0 .. MaxSent
                        /\ NextSeq(expected) = SeqOf(nextIdx + 1)
      OBVIOUS
    <3>1. oldest \in 0 .. MaxSent - 1 /\ nextIdx \in 0 .. MaxSent
      BY <2>1 DEF TypeInv, Packets
    <3>2. SeqOf(oldest) = SeqOf(nextIdx)
      BY DEF PlayoutInv
    <3>3. oldest = nextIdx
      <4> HIDE DEF oldest
      <4>1. QED
        BY <3>1, <3>2, SeqOfInjective
    <3>4. QED
      BY <3>1, <3>2, <3>3, NextSeqOf DEF PlayoutInv
  <2>3. /\ pc = "insert" /\ pc' = "ready"
        /\ toEmit = <<>>
        /\ jbuffer' \in SUBSET Packets
        /\ lost' = IF full THEN lost + 1 ELSE lost
        /\ expected' = IF advance THEN NextSeq(expected) ELSE expected
        /\ nextIdx' = IF advance THEN nextIdx + 1 ELSE nextIdx
        /\ skipped' = IF advance THEN skipped + 1 ELSE skipped
        /\ UNCHANGED <<sent, pkt, started, gap, toEmit, last, staleBatch>>
    BY <1>5 DEF Insert, env, TypeInv, PlayoutInv
  <2> HIDE DEF full, advance, oldest
  <2>4. started' => expected' = SeqOf(nextIdx')
    BY <2>2, <2>3 DEF PlayoutInv
  <2>5. nextIdx' \in 0 .. MaxSent /\ nextIdx' >= nextIdx
    BY <2>2, <2>3 DEF TypeInv
  <2>6. expected' \in 0 .. SeqMod - 1
    BY <2>2, <2>3, SeqOfNat DEF TypeInv
  <2>7. TypeInv'
    BY <2>3, <2>5, <2>6 DEF TypeInv
  <2>8. PlayoutInv'
    BY <2>3, <2>4, <2>5 DEF PlayoutInv, TypeInv
  <2>9. QED
    BY <2>7, <2>8
<1>6. CASE EmitNothing
  BY <1>6 DEF EmitNothing, TypeInv, PlayoutInv, env, hist
<1>7. CASE EmitBegin
  <2>1. Lowest(jbuffer) \in Packets
    BY <1>7, LowestIn DEF EmitBegin, TypeInv
  <2>2. Lowest(jbuffer) \in 0 .. MaxSent /\ SeqOf(Lowest(jbuffer)) \in 0 .. SeqMod - 1
    BY <2>1, SeqOfNat DEF Packets
  <2>3. TypeInv'
    BY <1>7, <2>1, <2>2 DEF EmitBegin, TypeInv, env
  <2>4. toEmit' = <<>> /\ started' /\ pc' = "emit" /\ ~staleBatch'
    BY <1>7 DEF EmitBegin, PlayoutInv
  <2>5. expected' = SeqOf(nextIdx') /\ last' < nextIdx'
    BY <1>7, <2>2 DEF EmitBegin, PlayoutInv, TypeInv
  <2>6. PlayoutInv'
    BY <2>4, <2>5 DEF PlayoutInv
  <2>7. QED
    BY <2>3, <2>6
<1>8. CASE TakeNext
  <2>1. PICK i \in jbuffer : /\ SeqOf(i) = expected
                             /\ toEmit' = Append(toEmit, i)
                             /\ jbuffer' = jbuffer \ {i}
                             /\ nextIdx' = i + 1
    BY <1>8 DEF TakeNext
  <2>2. i = nextIdx
    <3>1. i \in 0 .. MaxSent /\ i < MaxSent /\ nextIdx \in 0 .. MaxSent
      BY DEF TypeInv, Packets
    <3>2. SeqOf(i) = SeqOf(nextIdx)
      BY <1>8, <2>1 DEF TakeNext, PlayoutInv
    <3>3. QED
      BY <3>1, <3>2, SeqOfInjective
  <2>3. expected' = SeqOf(nextIdx') /\ nextIdx' \in 0 .. MaxSent
    BY <1>8, <2>1, <2>2, NextSeqOf DEF TakeNext, TypeInv, Packets
  <2>4. expected' \in 0 .. SeqMod - 1
    BY <2>3, SeqOfNat
  <2>5. TypeInv'
    BY <1>8, <2>1, <2>3, <2>4 DEF TakeNext, TypeInv, env, Packets
  <2>6. /\ Len(toEmit) \in Nat
        /\ Len(toEmit') = Len(toEmit) + 1
        /\ toEmit'[Len(toEmit) + 1] = i
        /\ \A k \in 1 .. Len(toEmit) : toEmit'[k] = toEmit[k] /\ toEmit[k] \in Packets
    BY <2>1 DEF TypeInv
  <2>7. /\ started /\ ~staleBatch /\ last < nextIdx /\ last' = last
        /\ \A k \in 1 .. Len(toEmit) : last < toEmit[k] /\ toEmit[k] < nextIdx
        /\ \A j, k \in 1 .. Len(toEmit) : j < k => toEmit[j] < toEmit[k]
    <3>1. started /\ ~staleBatch /\ last < nextIdx /\ last' = last
      BY <1>8 DEF TakeNext, PlayoutInv
    <3>2. CASE toEmit = <<>>
      BY <3>1, <3>2
    <3>3. CASE toEmit # <<>>
      BY <3>1, <3>3 DEF PlayoutInv
    <3>4. QED
      BY <3>2, <3>3
  <2>8. last \in Int /\ nextIdx \in Int /\ i \in Int /\ nextIdx' = nextIdx + 1
    BY <2>1, <2>2 DEF TypeInv, Packets
  <2>9. \A k \in 1 .. Len(toEmit') : last' < toEmit'[k] /\ toEmit'[k] < nextIdx'
    BY <2>6, <2>7, <2>8, <2>2 DEF Packets
  <2>10. ASSUME NEW j \in 1 .. Len(toEmit'), NEW k \in 1 .. Len(toEmit'), j < k
        PROVE  toEmit'[j] < toEmit'[k]
    <3>1. j \in 1 .. Len(toEmit) /\ toEmit'[j] = toEmit[j]
      BY <2>6, <2>10
    <3>2. CASE k = Len(toEmit) + 1
      BY <2>6, <2>7, <2>2, <3>1, <3>2
    <3>3. CASE k \in 1 .. Len(toEmit)
      BY <2>6, <2>7, <2>10, <3>1, <3>3
    <3>4. QED
      BY <2>6, <3>2, <3>3
  <2>11. last' < nextIdx'
    BY <2>7, <2>8
  <2>12. started' /\ ~staleBatch' /\ pc' = "emit"
    BY <1>8, <2>7 DEF TakeNext
  <2>13. PlayoutInv'
    BY <2>3, <2>9, <2>10, <2>11, <2>12 DEF PlayoutInv
  <2>14. QED
    BY <2>5, <2>13
<1>9. CASE DropStale
  BY <1>9 DEF DropStale, TypeInv, PlayoutInv, env, hist
<1>10. CASE JumpGap
  <2> DEFINE low == Lowest(jbuffer)
  <2>1. low \in Packets
    BY <1>10, LowestIn DEF JumpGap, TypeInv
  <2>2. Ahead = low - nextIdx /\ low - nextIdx >= 0
    BY <1>10, <2>1, SeqDistIsDistance DEF JumpGap, Ahead, PlayoutInv, TypeInv
  <2>3. SeqOf(low) \in 0 .. SeqMod - 1 /\ low \in 0 .. MaxSent
    BY <2>1, SeqOfNat DEF Packets
  <2>4. TypeInv'
    BY <1>10, <2>1, <2>2, <2>3 DEF JumpGap, TypeInv, env, Packets
  <2>5. PlayoutInv'
    <3>1. /\ started' /\ ~staleBatch' /\ pc' = "emit"
          /\ expected' = SeqOf(nextIdx')
          /\ nextIdx' = low
          /\ last' = last /\ toEmit' = toEmit
      BY <1>10 DEF JumpGap, PlayoutInv
    <3>2. nextIdx \in Int /\ last \in Int /\ low \in Int /\ nextIdx <= low /\ last < nextIdx
      BY <1>10, <2>2, <2>3 DEF JumpGap, PlayoutInv, TypeInv
    <3>3. ASSUME toEmit # <<>>
          PROVE  /\ \A k \in 1 .. Len(toEmit) : last < toEmit[k] /\ toEmit[k] < low
                 /\ \A j, k \in 1 .. Len(toEmit) : j < k => toEmit[j] < toEmit[k]
      <4>1. \A k \in 1 .. Len(toEmit) : toEmit[k] \in Int
        BY DEF TypeInv, Packets
      <4>2. /\ \A k \in 1 .. Len(toEmit) : last < toEmit[k] /\ toEmit[k] < nextIdx
            /\ \A j, k \in 1 .. Len(toEmit) : j < k => toEmit[j] < toEmit[k]
        BY <3>3, <1>10 DEF PlayoutInv, JumpGap
      <4>3. QED
        BY <4>1, <4>2, <3>2
    <3>4. QED
      <4> HIDE DEF low
      <4>1. last' < nextIdx'
        BY <3>1, <3>2
      <4>2. QED
        BY <3>1, <3>3, <4>1 DEF PlayoutInv
  <2>6. QED
    BY <2>4, <2>5
<1>11. CASE WaitGap
  BY <1>11 DEF WaitGap, TypeInv, PlayoutInv, env, hist
<1>12. CASE EmitDrained
  BY <1>12 DEF EmitDrained, TypeInv, PlayoutInv, env, hist
<1>13. CASE Deliver
  <2>1. /\ toEmit \in Seq(Packets) /\ toEmit # <<>>
        /\ toEmit' = Tail(toEmit) /\ Head(toEmit) \in Packets
        /\ Head(toEmit) = toEmit[1]
        /\ Tail(toEmit) \in Seq(Packets)
        /\ Len(Tail(toEmit)) = Len(toEmit) - 1
        /\ \A k \in 1 .. Len(toEmit) - 1 : Tail(toEmit)[k] = toEmit[k + 1]
    BY <1>13 DEF Deliver, TypeInv
  <2>2. TypeInv'
    BY <1>13, <2>1 DEF Deliver, TypeInv, env, Packets
  <2>3. PlayoutInv'
    <3>1. CASE staleBatch
      BY <1>13, <2>1, <3>1 DEF Deliver, PlayoutInv, env
    <3>2. CASE ~staleBatch
      <4>1. started /\ last' = toEmit[1]
        BY <1>13, <2>1, <3>2 DEF Deliver, PlayoutInv
      <4>2. last' < nextIdx'
        BY <1>13, <2>1, <3>2, <4>1 DEF Deliver, PlayoutInv
      <4>3. \A k \in 1 .. Len(toEmit') : last' < toEmit'[k] /\ toEmit'[k] < nextIdx'
        BY <1>13, <2>1, <3>2, <4>1 DEF Deliver, PlayoutInv
      <4>4. \A j, k \in 1 .. Len(toEmit') : j < k => toEmit'[j] < toEmit'[k]
        BY <1>13, <2>1, <3>2 DEF Deliver, PlayoutInv
      <4>5. QED
        BY <1>13, <4>1, <4>2, <4>3, <4>4 DEF Deliver, PlayoutInv, env
    <3>3. QED
      BY <3>1, <3>2 DEF TypeInv
  <2>4. QED
    BY <2>2, <2>3
<1>14. CASE DeliverDone
  BY <1>14 DEF DeliverDone, TypeInv, PlayoutInv, env, hist
<1>15. CASE Flush
  <2>1. /\ jbuffer' = {} /\ started' = FALSE /\ last' = -1
        /\ staleBatch' = (toEmit # <<>>)
        /\ pc # "emit"
        /\ UNCHANGED <<sent, pc, pkt, expected, gap, toEmit, lost, nextIdx, skipped>>
    BY <1>15 DEF Flush, Locked, env
  <2>2. staleBatch' \in BOOLEAN /\ (toEmit' # <<>> => staleBatch')
    <3>1. CASE toEmit = <<>>
      BY <2>1, <3>1
    <3>2. CASE toEmit # <<>>
      BY <2>1, <3>2
    <3>3. QED
      BY <3>1, <3>2
  <2>3. last' \in -1 .. MaxSent - 1
    BY <2>1 DEF TypeInv
  <2>4. TypeInv'
    <3>1. UNCHANGED <<sent, pc, pkt, expected, gap, toEmit, lost, nextIdx, skipped>>
      BY <2>1
    <3>2. jbuffer' \in SUBSET Packets /\ started' \in BOOLEAN /\ staleBatch' \in BOOLEAN
      BY <2>1, <2>2
    <3>3. QED
      BY <2>3, <3>1, <3>2 DEF TypeInv
  <2>5. PlayoutInv'
    <3>1. ~started' /\ last' = -1 /\ pc' # "emit"
      BY <2>1
    <3>2. toEmit' # <<>> => pc' \in {"emit", "deliver"}
      BY <2>1 DEF PlayoutInv
    <3>3. QED
      BY <2>2, <3>1, <3>2 DEF PlayoutInv
  <2>6. QED
    BY <2>4, <2>5
<1>16. CASE UNCHANGED vars
  BY <1>16 DEF vars, TypeInv, PlayoutInv
<1>17. QED
  BY <1>1, <1>2, <1>3, <1>4, <1>5, <1>6, <1>7, <1>8, <1>9, <1>10, <1>11,
     <1>12, <1>13, <1>14, <1>15, <1>16 DEF Next, Worker

(* Every variable stays in its range.                                      *)
THEOREM TypeCorrect == Spec => []TypeInv
BY TypeInit, PlayoutInit, InductiveStep, PTL DEF Spec

(* next_expected_seq_ always names a definite stream position, and what is *)
(* handed over or about to be lies before it, in increasing order.         *)
THEOREM PlayoutCorrect == Spec => []PlayoutInv
BY TypeInit, PlayoutInit, InductiveStep, PTL DEF Spec

(* packet_cb_ sees the packets between two flushes in the sender's order.  *)
THEOREM OutputInOrder == Spec => InOrder
<1>1. ASSUME TypeInv, PlayoutInv, [Next]_vars, toEmit # <<>>,
             toEmit' = Tail(toEmit), ~staleBatch
      PROVE  Head(toEmit) > last
  <2>1. 1 \in 1 .. Len(toEmit) /\ Head(toEmit) = toEmit[1] /\ toEmit[1] \in Int
    <3>1. toEmit \in Seq(Packets) /\ toEmit # <<>>
      BY <1>1 DEF TypeInv
    <3>2. \A p \in Packets : p \in Int
      BY DEF Packets
    <3> HIDE DEF Packets
    <3>3. QED
      BY <3>1, <3>2
  <2>2. last < toEmit[1] /\ last \in Int
    BY <1>1, <2>1 DEF PlayoutInv, TypeInv
  <2>3. QED
    BY <2>1, <2>2
<1>2. TypeInv /\ PlayoutInv /\ [Next]_vars =>
        [(toEmit # <<>> /\ toEmit' = Tail(toEmit) /\ ~staleBatch) => Head(toEmit) > last]_vars
  BY <1>1
<1>3. QED
  BY <1>2, TypeCorrect, PlayoutCorrect, PTL DEF Spec, InOrder

-----------------------------------------------------------------------------
(* stats_.lost accounts for every position the playout point passes: the   *)
(* jump adds the signed 16-bit distance, which by SeqDistIsDistance is the *)
(* number of positions passed.                                             *)
THEOREM LossIsCounted == Spec => []LossCounted
<1>1. Init => LossCounted
  BY DEF Init, LossCounted
<1>2. ASSUME TypeInv, PlayoutInv, LossCounted, [Next]_vars
      PROVE  LossCounted'
  <2> USE ConstantsOK
  <2>1. lost \in Nat /\ skipped \in Nat /\ lost >= skipped
    BY <1>2 DEF TypeInv, LossCounted
  <2>2. CASE Insert
    <3>1. \/ lost' = lost + 1 /\ skipped' \in {skipped, skipped + 1}
          \/ lost' = lost /\ skipped' = skipped
      BY <2>2 DEF Insert
    <3>2. QED
      BY <2>1, <3>1 DEF LossCounted
  <2>3. CASE JumpGap
    <3>1. Lowest(jbuffer) \in Packets
      BY <1>2, <2>3, LowestIn DEF JumpGap, TypeInv
    <3>2. Ahead = Lowest(jbuffer) - nextIdx
      BY <1>2, <2>3, <3>1, SeqDistIsDistance DEF JumpGap, Ahead, PlayoutInv, TypeInv
    <3>3. lost' = lost + Ahead /\ skipped' = skipped + Ahead /\ Ahead \in Int
      BY <1>2, <2>3, <3>1, <3>2 DEF JumpGap, TypeInv, Packets
    <3>4. QED
      BY <2>1, <3>3 DEF LossCounted
  <2>4. ASSUME ~Insert, ~JumpGap
        PROVE  lost' = lost /\ skipped' = skipped
    BY <1>2, <2>4 DEF Next, Worker, vars, env, hist, Send, GapTimeout, Receive,
       SelectError, EmitNothing, EmitBegin, TakeNext, DropStale, WaitGap,
       EmitDrained, Deliver, DeliverDone, Flush
  <2>5. QED
    BY <2>1, <2>2, <2>3, <2>4 DEF LossCounted
<1>3. QED
  BY <1>1, <1>2, TypeCorrect, PlayoutCorrect, PTL DEF Spec

(* The map stays within jbuf_max_.                                         *)
THEOREM BufferBounded == Spec => []DepthBounded
<1>1. Init => DepthBounded
  BY FS_EmptySet, ConstantsOK DEF Init, DepthBounded
<1>2. ASSUME TypeInv, DepthBounded, [Next]_vars
      PROVE  DepthBounded'
  <2> USE ConstantsOK
  <2>1. IsFiniteSet(jbuffer) /\ Cardinality(jbuffer) \in Nat
    <3>1. IsFiniteSet(Packets)
      BY FS_Interval DEF Packets
    <3>2. QED
      BY <1>2, <3>1, FS_Subset, FS_CardinalityType DEF TypeInv
  <2>2. Cardinality(jbuffer) <= JbufMax
    BY <1>2 DEF DepthBounded
  <2>3. CASE Insert
    <3> DEFINE full == Cardinality(jbuffer) >= JbufMax
               rest == IF full THEN jbuffer \ {Lowest(jbuffer)} ELSE jbuffer
               kept == {j \in rest : SeqOf(j) # SeqOf(pkt)}
    <3>1. IsFiniteSet(rest) /\ Cardinality(rest) \in Nat /\ Cardinality(rest) <= JbufMax - 1
      <4>1. CASE full
        <5>1. jbuffer # {}
          BY <2>1, <4>1, FS_EmptySet
        <5>2. Lowest(jbuffer) \in jbuffer
          BY <1>2, <5>1, LowestIn DEF TypeInv
        <5>3. /\ IsFiniteSet(jbuffer \ {Lowest(jbuffer)})
              /\ Cardinality(jbuffer \ {Lowest(jbuffer)}) = Cardinality(jbuffer) - 1
          BY <2>1, <5>2, FS_RemoveElement
        <5>4. Cardinality(jbuffer) = JbufMax
          BY <2>1, <2>2, <4>1
        <5>5. QED
          BY <4>1, <5>3, <5>4
      <4>2. CASE ~full
        BY <2>1, <4>2
      <4>3. QED
        BY <4>1, <4>2
    <3>2. kept \subseteq rest
      OBVIOUS
    <3> HIDE DEF rest
    <3>3. IsFiniteSet(kept) /\ Cardinality(kept) \in Nat /\ Cardinality(kept) <= JbufMax - 1
      <4>1. IsFiniteSet(kept) /\ Cardinality(kept) <= Cardinality(rest)
        BY <3>1, <3>2, FS_Subset
      <4>2. Cardinality(kept) \in Nat
        BY <4>1, FS_CardinalityType
      <4>3. QED
        BY <3>1, <4>1, <4>2
    <3>4. jbuffer' = kept \cup {pkt}
      BY <2>3 DEF Insert, rest
    <3> HIDE DEF kept
    <3>5. Cardinality(kept \cup {pkt}) <= JbufMax
      BY <3>3, FS_AddElement
    <3>6. QED
      BY <3>4, <3>5 DEF DepthBounded
  <2>4. ASSUME ~Insert
        PROVE  jbuffer' \subseteq jbuffer
    BY <1>2, <2>4 DEF Next, Worker, vars, env, hist, Send, GapTimeout, Receive,
       SelectError, EmitNothing, EmitBegin, TakeNext, DropStale, JumpGap, WaitGap,
       EmitDrained, Deliver, DeliverDone, Flush
  <2>5. ASSUME jbuffer' \subseteq jbuffer
        PROVE  DepthBounded'
    <3>1. Cardinality(jbuffer') <= Cardinality(jbuffer) /\ IsFiniteSet(jbuffer')
      BY <2>1, <2>5, FS_Subset
    <3>2. Cardinality(jbuffer') \in Nat
      BY <3>1, FS_CardinalityType
    <3>3. QED
      BY <2>1, <2>2, <3>1, <3>2 DEF DepthBounded
  <2>6. QED
    BY <2>3, <2>4, <2>5
<1>3. QED
  BY <1>1, <1>2, TypeCorrect, PTL DEF Spec

-----------------------------------------------------------------------------
(* The same of the receiver thread while it runs the callbacks, when the   *)
(* lock is free: what it has left in jbuffer_ waits for an earlier packet. *)
HeldInv ==
    (pc \in {"select", "deliver"} /\ jbuffer # {}) =>
        /\ started
        /\ ~NextIsHere
        /\ Ahead \in 1 .. JbufMax \div 2
        /\ gap # "off"

(* The variables have their types and the map its bound.                   *)
THEOREM BufferWellFormed == Spec => []WellFormed
<1>1. TypeInv /\ DepthBounded => WellFormed
  BY DEF WellFormed
<1>2. QED
  BY <1>1, TypeCorrect, BufferBounded, PTL

(* No packet whose turn it is, and no gap without a timer, is left behind  *)
(* when the receiver thread goes back to select.                           *)
THEOREM HeldWaits == Spec => []HeldOnlyForGap
<1>1. Init => HeldInv
  BY DEF Init, HeldInv
<1>2. ASSUME TypeInv, PlayoutInv, HeldInv, [Next]_vars
      PROVE  HeldInv'
  <2> USE ConstantsOK
  <2>1. CASE WaitGap
    <3> DEFINE low == Lowest(jbuffer)
    <3>1. /\ pc' = "deliver" /\ jbuffer # {} /\ ~NextIsHere /\ Ahead >= 0 /\ ~MustJump
          /\ started /\ gap' # "off"
          /\ UNCHANGED <<jbuffer, expected, started>>
      BY <1>2, <2>1 DEF WaitGap, PlayoutInv
    <3>2. low \in jbuffer /\ low \in Packets
      BY <1>2, <3>1, LowestIn DEF TypeInv
    <3>3. Ahead = low - nextIdx
      BY <1>2, <3>1, <3>2, SeqDistIsDistance DEF Ahead, PlayoutInv, TypeInv
    <3>4. Ahead # 0
      <4>1. SeqOf(low) # expected
        BY <3>1, <3>2 DEF NextIsHere
      <4>2. expected = SeqOf(nextIdx)
        BY <1>2, <3>1 DEF PlayoutInv
      <4>3. low # nextIdx
        BY <4>1, <4>2
      <4>4. low \in Int /\ nextIdx \in Int
        BY <1>2, <3>2 DEF TypeInv, Packets
      <4> HIDE DEF low
      <4>5. QED
        BY <3>3, <4>3, <4>4
    <3>5. Ahead \in Int
      BY <1>2, <3>2, <3>3 DEF TypeInv, Packets
    <3>6. Ahead \in 1 .. JbufMax \div 2
      BY <3>1, <3>4, <3>5 DEF MustJump
    <3>7. NextIsHere' = NextIsHere /\ Ahead' = Ahead
      BY <3>1 DEF NextIsHere, Ahead, Lowest
    <3>8. QED
      BY <3>1, <3>6, <3>7 DEF HeldInv
  <2>2. CASE Flush
    BY <2>2 DEF Flush, HeldInv
  <2>3. CASE EmitNothing \/ EmitDrained
    BY <2>3 DEF EmitNothing, EmitDrained, HeldInv
  <2>4. CASE Insert \/ EmitBegin \/ TakeNext \/ DropStale \/ JumpGap \/ SelectError
                \/ \E i \in Packets : Receive(i)
    BY <2>4 DEF Insert, EmitBegin, TakeNext, DropStale, JumpGap, SelectError, Receive, HeldInv
  <2>5. CASE Send \/ GapTimeout \/ Deliver \/ DeliverDone \/ UNCHANGED vars
    <3>1. /\ pc' \in {"select", "deliver"} => pc \in {"select", "deliver"}
          /\ UNCHANGED <<jbuffer, expected, started>>
          /\ gap # "off" => gap' # "off"
      BY <2>5 DEF Send, GapTimeout, Deliver, DeliverDone, vars, env, hist
    <3>2. NextIsHere' = NextIsHere /\ Ahead' = Ahead
      BY <3>1 DEF NextIsHere, Ahead, Lowest
    <3>3. QED
      BY <1>2, <3>1, <3>2 DEF HeldInv
  <2>6. QED
    BY <1>2, <2>1, <2>2, <2>3, <2>4, <2>5 DEF Next, Worker
<1>3. HeldInv => HeldOnlyForGap
  BY DEF HeldInv, HeldOnlyForGap
<1>4. QED
  BY <1>1, <1>2, <1>3, TypeCorrect, PlayoutCorrect, PTL DEF Spec
-----------------------------------------------------------------------------
(* The receiver thread knows of no packet the sender has not sent: neither *)
(* the map nor the packet in its hands nor the playout point is ahead.     *)
NothingUnsent ==
    /\ \A i \in jbuffer : i < sent
    /\ pc = "insert" => pkt < sent
    /\ started => nextIdx <= sent

Safe == TypeInv /\ PlayoutInv /\ NothingUnsent

(* The steps under the lock that move the playout point, in terms of the   *)
(* positions alone: the numbers of the wire do not occur.                  *)
LEMMA InsertMoves ==
    ASSUME Safe, Insert
    PROVE  /\ UNCHANGED <<sent, started, toEmit, last, staleBatch>>
           /\ \A i \in jbuffer' : i < sent
           /\ \/ lost' = lost /\ nextIdx' = nextIdx
              \/ lost' = lost + 1 /\ nextIdx' = nextIdx
              \/ started /\ nextIdx < sent /\ lost' = lost + 1 /\ nextIdx' = nextIdx + 1
<1> DEFINE full    == Cardinality(jbuffer) >= JbufMax
           oldest  == Lowest(jbuffer)
           advance == full /\ started /\ SeqOf(oldest) = expected
<1> USE ConstantsOK
<1>0. jbuffer \in SUBSET Packets
  BY DEF Safe, TypeInv
<1>1. full => oldest \in jbuffer
  BY <1>0, LowestIn, FS_EmptySet
<1>2. ASSUME advance
      PROVE  oldest = nextIdx /\ nextIdx < sent
  <2>1. oldest \in 0 .. MaxSent - 1 /\ nextIdx \in 0 .. MaxSent
    BY <1>1, <1>2 DEF Safe, TypeInv, Packets
  <2>2. SeqOf(oldest) = SeqOf(nextIdx)
    BY <1>2 DEF Safe, PlayoutInv
  <2>3. oldest < sent
    BY <1>1, <1>2 DEF Safe, NothingUnsent
  <2> HIDE DEF oldest
  <2>4. QED
    BY <2>1, <2>2, <2>3, SeqOfInjective
<1>3. /\ UNCHANGED <<sent, started, toEmit, last, staleBatch>>
      /\ \A i \in jbuffer' : i \in jbuffer \/ i = pkt
      /\ lost' = IF full THEN lost + 1 ELSE lost
      /\ nextIdx' = IF advance THEN nextIdx + 1 ELSE nextIdx
      /\ pc = "insert"
  BY DEF Insert, env
<1>4. \A i \in jbuffer' : i < sent
  BY <1>3 DEF Safe, NothingUnsent
<1>5. advance => full /\ started
  OBVIOUS
<1> HIDE DEF full, advance
<1>6. QED
  BY <1>2, <1>3, <1>4, <1>5

LEMMA TakeNextMoves ==
    ASSUME Safe, TakeNext
    PROVE  /\ UNCHANGED <<sent, started, last, lost, staleBatch>>
           /\ started /\ ~staleBatch
           /\ nextIdx < sent
           /\ toEmit' = Append(toEmit, nextIdx)
           /\ nextIdx' = nextIdx + 1
           /\ jbuffer' \subseteq jbuffer
<1>1. PICK i \in jbuffer : /\ SeqOf(i) = expected
                           /\ toEmit' = Append(toEmit, i)
                           /\ jbuffer' = jbuffer \ {i}
                           /\ nextIdx' = i + 1
  BY DEF TakeNext
<1>2. i \in 0 .. MaxSent /\ i < MaxSent /\ nextIdx \in 0 .. MaxSent
  BY ConstantsOK DEF Safe, TypeInv, Packets
<1>3. pc = "emit" /\ UNCHANGED <<sent, started, last, lost, staleBatch>>
  BY DEF TakeNext, env
<1>4. started /\ ~staleBatch /\ expected = SeqOf(nextIdx) /\ i < sent
  BY <1>3 DEF Safe, PlayoutInv, NothingUnsent
<1>5. i = nextIdx
  BY <1>1, <1>2, <1>4, SeqOfInjective
<1>6. QED
  BY <1>1, <1>3, <1>4, <1>5

LEMMA JumpGapMoves ==
    ASSUME Safe, JumpGap
    PROVE  /\ UNCHANGED <<sent, started, toEmit, last, staleBatch, jbuffer>>
           /\ started
           /\ \E n \in 1 .. MaxSent : /\ nextIdx + n <= sent
                                      /\ nextIdx' = nextIdx + n
                                      /\ lost' = lost + n
<1> DEFINE low == Lowest(jbuffer)
<1>1. /\ UNCHANGED <<sent, started, toEmit, last, staleBatch, jbuffer>>
      /\ pc = "emit" /\ jbuffer # {}
      /\ nextIdx' = low
      /\ lost' = lost + Ahead /\ Ahead >= 0
      /\ ~NextIsHere
  BY DEF JumpGap, env
<1>2. started /\ expected = SeqOf(nextIdx) /\ nextIdx \in 0 .. MaxSent
  BY <1>1 DEF Safe, PlayoutInv, TypeInv
<1>3. low \in jbuffer /\ low \in Packets /\ low < sent
  BY <1>1, LowestIn DEF Safe, TypeInv, NothingUnsent
<1>4. low # nextIdx
  BY <1>1, <1>2, <1>3 DEF NextIsHere
<1>5. Ahead = low - nextIdx
  BY <1>2, <1>3, SeqDistIsDistance DEF Ahead
<1>6. low \in Nat /\ low < MaxSent
  BY <1>3, ConstantsOK DEF Packets
<1>7. sent \in 0 .. MaxSent
  BY DEF Safe, TypeInv
<1> HIDE DEF low
<1>8. low - nextIdx \in 1 .. MaxSent
  BY <1>1, <1>2, <1>4, <1>5, <1>6, ConstantsOK
<1>9. PICK n \in 1 .. MaxSent : n = low - nextIdx
  BY <1>8
<1>10. nextIdx + n = low /\ low <= sent
  BY <1>2, <1>3, <1>6, <1>7, <1>9
<1>11. nextIdx + n <= sent /\ nextIdx' = nextIdx + n /\ lost' = lost + n
  BY <1>1, <1>5, <1>9, <1>10
<1>12. QED
  BY <1>1, <1>2, <1>11

LEMMA EmitBeginMoves ==
    ASSUME Safe, EmitBegin
    PROVE  /\ UNCHANGED <<sent, toEmit, last, lost, jbuffer>>
           /\ started' /\ toEmit = <<>>
           /\ \/ started /\ nextIdx' = nextIdx
              \/ ~started /\ \E n \in 0 .. MaxSent - 1 : n < sent /\ nextIdx' = n
<1>1. /\ UNCHANGED <<sent, toEmit, last, lost, jbuffer>>
      /\ pc = "ready" /\ jbuffer # {}
      /\ started' = TRUE
      /\ nextIdx' = IF started THEN nextIdx ELSE Lowest(jbuffer)
  BY DEF EmitBegin, env
<1>2. toEmit = <<>> /\ started \in BOOLEAN
  BY <1>1 DEF Safe, PlayoutInv, TypeInv
<1>3. Lowest(jbuffer) \in 0 .. MaxSent - 1 /\ Lowest(jbuffer) < sent
  BY <1>1, LowestIn DEF Safe, TypeInv, NothingUnsent, Packets
<1>4. QED
  BY <1>1, <1>2, <1>3

LEMMA SafeInit == Init => Safe
BY TypeInit, PlayoutInit DEF Init, Safe, NothingUnsent

LEMMA SafeStep == Safe /\ [Next]_vars => Safe'
<1> SUFFICES ASSUME Safe, [Next]_vars PROVE NothingUnsent'
  BY InductiveStep DEF Safe
<1>1. CASE Send
  BY <1>1 DEF Send, Safe, TypeInv, NothingUnsent, hist, Packets
<1>2. ASSUME NEW i \in Packets, Receive(i)
      PROVE  NothingUnsent'
  BY <1>2 DEF Receive, Safe, NothingUnsent, env, hist
<1>3. CASE Insert
  <2>1. pc' = "ready"
    BY <1>3 DEF Insert
  <2>2. sent \in Int /\ nextIdx \in Int
    BY ConstantsOK DEF Safe, TypeInv
  <2>3. QED
    BY <1>3, <2>1, <2>2, InsertMoves DEF Safe, NothingUnsent
<1>4. CASE EmitBegin
  <2>1. pc' = "emit" /\ sent \in Int
    BY <1>4, ConstantsOK DEF EmitBegin, Safe, TypeInv
  <2>2. nextIdx' <= sent
    BY <1>4, <2>1, EmitBeginMoves, ConstantsOK DEF Safe, NothingUnsent
  <2>3. QED
    BY <1>4, <2>1, <2>2, EmitBeginMoves DEF Safe, NothingUnsent
<1>5. CASE TakeNext
  <2>1. pc' = "emit" /\ sent \in Int /\ nextIdx \in Int
    BY <1>5, ConstantsOK DEF TakeNext, Safe, TypeInv
  <2>2. QED
    BY <1>5, <2>1, TakeNextMoves DEF Safe, NothingUnsent
<1>6. CASE JumpGap
  <2>1. pc' = "emit"
    BY <1>6 DEF JumpGap
  <2>2. QED
    BY <1>6, <2>1, JumpGapMoves DEF Safe, NothingUnsent
<1>7. CASE \/ GapTimeout \/ SelectError \/ EmitNothing \/ DropStale \/ WaitGap
           \/ EmitDrained \/ Deliver \/ DeliverDone \/ UNCHANGED vars
  BY <1>7 DEF GapTimeout, SelectError, EmitNothing, DropStale, WaitGap, EmitDrained,
     Deliver, DeliverDone, vars, env, hist, Safe, NothingUnsent
<1>8. CASE Flush
  BY <1>8 DEF Flush, env, Locked, Safe, NothingUnsent
<1>9. QED
  BY <1>1, <1>2, <1>3, <1>4, <1>5, <1>6, <1>7, <1>8 DEF Next, Worker

(* What the abstract playout line can see of a step, and what a stutter    *)
(* leaves as it was.                                                       *)
Shown == <<sent, started, nextIdx, toEmit, LateBatch, last, lost>>

LEMMA PlayoutStep == Safe /\ [Next]_vars => [Line!Next]_Shown
<1> SUFFICES ASSUME Safe, [Next]_vars PROVE [Line!Next]_Shown
  OBVIOUS
<1>1. CASE Send
  <2>1. Line!Send
    BY <1>1 DEF Send, hist, Line!Send, LateBatch
  <2>2. QED
    BY <2>1 DEF Line!Next
<1>2. CASE Insert
  <2>1. UNCHANGED <<sent, started, toEmit, last, LateBatch>>
    BY <1>2, InsertMoves DEF LateBatch
  <2>2. CASE lost' = lost /\ nextIdx' = nextIdx
    BY <2>1, <2>2 DEF Shown
  <2>3. CASE lost' = lost + 1 /\ nextIdx' = nextIdx
    <3>1. Line!Drop
      BY <2>1, <2>3 DEF Line!Drop
    <3>2. QED
      BY <3>1 DEF Line!Next
  <2>4. CASE started /\ nextIdx < sent /\ lost' = lost + 1 /\ nextIdx' = nextIdx + 1
    <3>1. sent \in 0 .. MaxSent /\ nextIdx \in 0 .. MaxSent
      BY DEF Safe, TypeInv
    <3>2. Line!Pass(1) /\ 1 \in 1 .. MaxSent
      BY <2>1, <2>4, <3>1, ConstantsOK DEF Line!Pass
    <3>3. QED
      BY <3>2 DEF Line!Next
  <2>5. QED
    BY <1>2, <2>2, <2>3, <2>4, InsertMoves
<1>3. CASE EmitBegin
  <2>1. /\ UNCHANGED <<sent, toEmit, last, lost>>
        /\ started' = TRUE /\ toEmit = <<>> /\ toEmit' = <<>>
    BY <1>3, EmitBeginMoves DEF EmitBegin
  <2>2. UNCHANGED LateBatch
    BY <2>1 DEF LateBatch
  <2>3. CASE started /\ nextIdx' = nextIdx
    <3>1. started = TRUE
      BY <2>3 DEF Safe, TypeInv
    <3>2. QED
      BY <2>1, <2>2, <2>3, <3>1 DEF Shown
  <2>4. ASSUME ~started, NEW n \in 0 .. MaxSent - 1, n < sent, nextIdx' = n
        PROVE  Line!Next
    <3>1. Line!Open(n)
      BY <2>1, <2>2, <2>4 DEF Line!Open
    <3>2. QED
      BY <3>1 DEF Line!Next
  <2>5. QED
    BY <1>3, <2>3, <2>4, EmitBeginMoves
<1>4. CASE TakeNext
  <2>1. ~LateBatch /\ ~LateBatch' /\ LateBatch \in BOOLEAN /\ LateBatch' \in BOOLEAN
    BY <1>4, TakeNextMoves DEF LateBatch
  <2>2. LateBatch' = LateBatch
    BY <2>1
  <2>3. Line!Take
    BY <1>4, <2>1, <2>2, TakeNextMoves DEF Line!Take
  <2>4. QED
    BY <2>3 DEF Line!Next
<1>5. CASE JumpGap
  <2>1. UNCHANGED <<sent, started, toEmit, last, LateBatch>> /\ started
    BY <1>5, JumpGapMoves DEF LateBatch
  <2>2. PICK n \in 1 .. MaxSent : /\ nextIdx + n <= sent
                                  /\ nextIdx' = nextIdx + n
                                  /\ lost' = lost + n
    BY <1>5, JumpGapMoves
  <2>3. Line!Pass(n)
    BY <2>1, <2>2 DEF Line!Pass
  <2>4. QED
    BY <2>3 DEF Line!Next
<1>6. CASE Deliver
  <2>1. /\ toEmit # <<>> /\ toEmit' = Tail(toEmit)
        /\ UNCHANGED <<sent, started, nextIdx, lost, staleBatch>>
        /\ last' = IF staleBatch THEN last ELSE Head(toEmit)
    BY <1>6 DEF Deliver, env
  <2>2. (staleBatch <=> LateBatch) /\ staleBatch \in BOOLEAN
    BY <2>1 DEF LateBatch, Safe, TypeInv
  <2>3. last' = IF LateBatch THEN last ELSE Head(toEmit)
    BY <2>1, <2>2
  <2>4. LateBatch' = (LateBatch /\ Tail(toEmit) # <<>>)
    BY <2>1, <2>2 DEF LateBatch
  <2>5. Line!HandOver
    BY <2>1, <2>3, <2>4 DEF Line!HandOver
  <2>6. QED
    BY <2>5 DEF Line!Next
<1>7. CASE Flush
  <2>1. /\ UNCHANGED <<sent, nextIdx, toEmit, lost>>
        /\ started' = FALSE /\ last' = -1
        /\ staleBatch' = (toEmit # <<>>)
    BY <1>7 DEF Flush, env
  <2>2. LateBatch' = (toEmit # <<>>)
    BY <2>1 DEF LateBatch
  <2>3. Line!Flush
    BY <2>1, <2>2 DEF Line!Flush
  <2>4. QED
    BY <2>3 DEF Line!Next
<1>8. ASSUME NEW i \in Packets, Receive(i)
      PROVE  UNCHANGED Shown
  BY <1>8 DEF Receive, env, hist, Shown, LateBatch
<1>9. CASE \/ GapTimeout \/ SelectError \/ EmitNothing \/ DropStale \/ WaitGap
           \/ EmitDrained \/ DeliverDone \/ UNCHANGED vars
  BY <1>9 DEF GapTimeout, SelectError, EmitNothing, DropStale, WaitGap, EmitDrained,
     DeliverDone, vars, env, hist, Shown, LateBatch
<1>10. QED
  BY <1>1, <1>2, <1>3, <1>4, <1>5, <1>6, <1>7, <1>8, <1>9 DEF Next, Worker

(* The jitter buffer implements the abstract playout line: with the map,   *)
(* the numbers that wrap, the gap timer and the lock hidden, every step is *)
(* a step of a point that walks along the stream, taking or counting each  *)
(* position it leaves, or is none at all.                                  *)
THEOREM BufferRefinesPlayout == Spec => ImplementsPlayout
<1>1. Init => Line!Init
  BY DEF Init, Line!Init, LateBatch
<1>2. Safe /\ [Next]_vars => [Line!Next]_<<sent, started, nextIdx, toEmit, LateBatch, last, lost>>
  BY PlayoutStep DEF Shown
<1>3. QED
  BY <1>1, <1>2, SafeInit, SafeStep, PTL DEF Spec, ImplementsPlayout, Line!Spec

-----------------------------------------------------------------------------
(* The datagrams around the audio: the header of its packets, the reports and  *)
(* the time.                                                                   *)

\* A half is a number of 16 bits.
LEMMA MaxIs == Max16 = 65535 BY SMT DEF Max16

LEMMA MaxNat == Max16 \in Nat BY SMT DEF Max16

LEMMA HalfIs == ASSUME NEW h \in Nat, h <= Max16 PROVE h \in Half
BY MaxNat DEF Half

\* The first half of a packet, put together and taken apart.
Composed(e, c, m, t) == 32768 + 4096 * e + 256 * c + 128 * m + t

TakenApart(h, e, c, m, t) ==
  /\ h \div 16384 = 2 /\ (h \div 256) % 16 = c
  /\ (h \div 4096) % 2 = e /\ (h \div 128) % 2 = m /\ h % 128 = t

LEMMA FirstHalfBits ==
  ASSUME NEW e \in {0, 1}, NEW c \in 0..15, NEW m \in {0, 1}, NEW t \in 0..127
  PROVE  /\ Composed(e, c, m, t) \in Half
         /\ TakenApart(Composed(e, c, m, t), e, c, m, t)
<1> DEFINE h == Composed(e, c, m, t)
<1>0. h = 32768 + 4096 * e + 256 * c + 128 * m + t BY DEF Composed
<1> HIDE DEF h
<1>1. h \in Half
  <2>1. h \in Nat /\ h <= 65535 BY <1>0
  <2>2. h <= Max16 BY <2>1, MaxIs, SMT
  <2> QED BY <2>1, <2>2, HalfIs
<1>2. h \div 16384 = 2 BY <1>0
<1>3. (h \div 256) % 16 = c
  <2>1. h \div 256 = 128 + 16 * e + c BY <1>0
  <2>2. (128 + 16 * e + c) % 16 = c OBVIOUS
  <2> QED BY ONLY <2>1, <2>2
<1>4. (h \div 4096) % 2 = e
  <2>1. h \div 4096 = 8 + e BY <1>0
  <2>2. (8 + e) % 2 = e OBVIOUS
  <2> QED BY ONLY <2>1, <2>2
<1>5. (h \div 128) % 2 = m
  <2>1. h \div 128 = 256 + 32 * e + 2 * c + m BY <1>0
  <2>2. (256 + 32 * e + 2 * c + m) % 2 = m OBVIOUS
  <2> QED BY ONLY <2>1, <2>2
<1>6. h % 128 = t BY <1>0
<1> QED BY ONLY <1>1, <1>2, <1>3, <1>4, <1>5, <1>6 DEF h, TakenApart

\* A word is a pair of halves.
LEMMA WordIs ==
  ASSUME NEW w \in Word32
  PROVE  w \in Seq(Half) /\ Len(w) = 2 /\ w = <<w[1], w[2]>>
<1>1. PICK u \in Half, v \in Half : w = <<u, v>> BY DEF Word32
<1> QED BY <1>1

\* Words as halves are twice as many.
LEMMA HalvesOf ==
  ASSUME NEW words \in Seq(Word32)
  PROVE  Halves(words) \in Seq(Half) /\ Len(Halves(words)) = 2 * Len(words)
<1> DEFINE k == Len(words)
           H(i) == words[((i - 1) \div 2) + 1][((i - 1) % 2) + 1]
<1>1. k \in Nat /\ \A i \in 1..k : words[i] \in Word32 BY LenProperties, ElementOfSeq
<1> HIDE DEF k
<1>2. ASSUME NEW i \in 1 .. 2 * k PROVE H(i) \in Half
  <2>1. ((i - 1) \div 2) + 1 \in 1..k /\ ((i - 1) % 2) + 1 \in 1..2 BY <1>1
  <2> QED BY <1>1, <2>1 DEF Word32
<1>3. Halves(words) = [i \in 1 .. 2 * k |-> H(i)] BY DEF Halves, k
<1> HIDE DEF H
<1>4. 2 * k \in Nat BY <1>1
<1> QED BY <1>2, <1>3, <1>4 DEF k

\* What comes first stays where it is, what follows lies behind it.
Behind(r, s, t) ==
  /\ r \in Seq(Half) /\ Len(r) = Len(s) + Len(t)
  /\ \A i \in 1 .. Len(s) : r[i] = s[i]
  /\ \A i \in 1 .. Len(t) : r[Len(s) + i] = t[i]

LEMMA Appended ==
  ASSUME NEW s \in Seq(Half), NEW t \in Seq(Half)
  PROVE  Behind(s \o t, s, t)
<1>1. Len(s) \in Nat /\ Len(t) \in Nat BY LenProperties
<1>2. /\ s \o t \in Seq(Half) /\ Len(s \o t) = Len(s) + Len(t)
      /\ \A i \in 1 .. Len(s) + Len(t) :
            (s \o t)[i] = IF i <= Len(s) THEN s[i] ELSE t[i - Len(s)]
  BY ConcatProperties
<1>3. ASSUME NEW i \in 1 .. Len(s) PROVE (s \o t)[i] = s[i] BY <1>1, <1>2
<1>4. ASSUME NEW i \in 1 .. Len(t) PROVE (s \o t)[Len(s) + i] = t[i]
  <2>1. Len(s) + i \in 1 .. Len(s) + Len(t) /\ ~(Len(s) + i <= Len(s)) /\ (Len(s) + i) - Len(s) = i
    BY <1>1
  <2> QED BY <1>2, <2>1
<1> QED BY <1>2, <1>3, <1>4 DEF Behind

\* Where the fields of a packet lie in it.
LEMMA PacketLies ==
  ASSUME NEW p, WellFormedPacket(p)
  PROVE  LET c == Len(p.csrcs)
             x == Len(p.ext)
             r == Rtp(p)
         IN  /\ r \in Seq(Half) /\ c \in 0..15 /\ x \in Nat /\ Len(p.payload) \in Nat
             /\ TakenApart(FirstHalf(p), IF p.ext = <<>> THEN 0 ELSE 1, c,
                           IF p.marker THEN 1 ELSE 0, p.pt)
             /\ Len(r) = 6 + 2 * c + (IF p.ext = <<>> THEN 0 ELSE 2 + 2 * x) + Len(p.payload)
             /\ r[1] = FirstHalf(p) /\ r[2] = p.seq
             /\ <<r[3], r[4]>> = p.ts /\ <<r[5], r[6]>> = p.ssrc
             /\ p.ext # <<>> => r[8 + 2 * c] = x
<1> DEFINE c == Len(p.csrcs)
           x == Len(p.ext)
           a == <<FirstHalf(p), p.seq>>
           y == Extension(p)
           z == Halves(p.csrcs)
<1>1. /\ p.marker \in BOOLEAN /\ p.pt \in 0..127 /\ p.seq \in Half
      /\ p.ts \in Word32 /\ p.ssrc \in Word32
      /\ p.csrcs \in Seq(Word32) /\ Len(p.csrcs) \in 0..15
      /\ p.ext \in Seq(Word32) /\ Len(p.ext) <= Max16 /\ p.payload \in Seq(Half)
  BY DEF WellFormedPacket
<1>2. c \in 0..15 /\ x \in Nat /\ x \in Half /\ Len(p.payload) \in Nat
  <2>1. c \in Nat /\ x \in Nat /\ Len(p.payload) \in Nat BY <1>1, LenProperties
  <2>2. c \in 0..15 BY <1>1
  <2>3. x \in Half BY <1>1, <2>1, HalfIs
  <2> QED BY <2>1, <2>2, <2>3
<1>3. /\ FirstHalf(p) \in Half
      /\ TakenApart(FirstHalf(p), IF p.ext = <<>> THEN 0 ELSE 1, c,
                    IF p.marker THEN 1 ELSE 0, p.pt)
  <2> DEFINE e == IF p.ext = <<>> THEN 0 ELSE 1
             m == IF p.marker THEN 1 ELSE 0
             t == p.pt
  <2>1. e \in {0, 1} /\ m \in {0, 1} /\ t \in 0..127 BY <1>1
  <2>2. FirstHalf(p) = Composed(e, c, m, t)
    <3>1. (IF p.ext = <<>> THEN 0 ELSE 4096) = 4096 * e OBVIOUS
    <3>2. (IF p.marker THEN 128 ELSE 0) = 128 * m OBVIOUS
    <3> QED BY ONLY <3>1, <3>2 DEF FirstHalf, Composed, e, c, m, t
  <2>3. c \in 0..15 BY <1>2
  <2> HIDE DEF e, m, c, t
  <2>4. Composed(e, c, m, t) \in Half /\ TakenApart(Composed(e, c, m, t), e, c, m, t)
    BY ONLY <2>1, <2>3, FirstHalfBits
  <2> QED BY <2>2, <2>4, Zenon DEF e, m, t
<1>4. a \in Seq(Half) /\ Len(a) = 2 /\ a[1] = FirstHalf(p) /\ a[2] = p.seq BY <1>1, <1>3
<1>5. \A w \in Word32 : w \in Seq(Half) /\ Len(w) = 2 /\ w = <<w[1], w[2]>> BY WordIs
<1>6. z \in Seq(Half) /\ Len(z) = 2 * c BY <1>1, HalvesOf
<1>7. /\ y \in Seq(Half) /\ Len(y) = IF p.ext = <<>> THEN 0 ELSE 2 + 2 * x
      /\ p.ext # <<>> => y[2] = x
  <2>1. CASE p.ext = <<>> BY <2>1 DEF Extension
  <2>2. CASE p.ext # <<>>
    <3> DEFINE g == <<48862, x>>
               k == Halves(p.ext)
    <3>1. g \in Seq(Half) /\ Len(g) = 2 /\ g[2] = x
      <4>1. 48862 \in Half
          <5>1. 48862 <= Max16 BY MaxIs, SMT
          <5> QED BY <5>1, HalfIs
      <4> QED BY <1>2, <4>1
    <3>2. k \in Seq(Half) /\ Len(k) = 2 * x BY <1>1, HalvesOf
    <3>3. y = g \o k BY <2>2 DEF Extension
    <3> HIDE DEF g, k, y
    <3>4. x \in Nat BY <1>2
    <3> HIDE DEF x
    <3>5. /\ g \o k \in Seq(Half) /\ Len(g \o k) = Len(g) + Len(k)
          /\ \A i \in 1 .. Len(g) + Len(k) :
                (g \o k)[i] = IF i <= Len(g) THEN g[i] ELSE k[i - Len(g)]
      BY ONLY <3>1, <3>2, ConcatProperties
    <3>6. (g \o k)[2] = x /\ Len(g \o k) = 2 + 2 * x BY <3>1, <3>2, <3>4, <3>5
    <3> QED BY <2>2, <3>3, <3>5, <3>6
  <2> QED BY <2>1, <2>2
<1> HIDE DEF a, y, z
<1>8. Rtp(p) = ((((a \o p.ts) \o p.ssrc) \o z) \o y) \o p.payload
  BY DEF Rtp, a, y, z
<1> DEFINE b == a \o p.ts
           k == b \o p.ssrc
           d == k \o z
           f == d \o y
<1>9. /\ b \in Seq(Half) /\ Len(b) = 4
      /\ b[1] = FirstHalf(p) /\ b[2] = p.seq /\ <<b[3], b[4]>> = p.ts
  <2> DEFINE w == p.ts
  <2>1. w \in Seq(Half) /\ Len(w) = 2 /\ w = <<w[1], w[2]>> BY <1>1, <1>5
  <2> HIDE DEF w
  <2>2. Behind(a \o w, a, w)
    BY <1>4, <2>1, Appended
  <2>3. /\ a \o w \in Seq(Half) /\ Len(a \o w) = 4
        /\ (a \o w)[1] = a[1] /\ (a \o w)[2] = a[2]
        /\ (a \o w)[3] = w[1] /\ (a \o w)[4] = w[2]
    BY <1>4, <2>1, <2>2 DEF Behind
  <2> QED BY <1>4, <2>1, <2>3 DEF w
<1> HIDE DEF b
<1>10. /\ k \in Seq(Half) /\ Len(k) = 6 /\ \A i \in 1..4 : k[i] = b[i]
       /\ <<k[5], k[6]>> = p.ssrc
  <2> DEFINE w == p.ssrc
  <2>1. w \in Seq(Half) /\ Len(w) = 2 /\ w = <<w[1], w[2]>> BY <1>1, <1>5
  <2> HIDE DEF w
  <2>2. Behind(b \o w, b, w)
    BY <1>9, <2>1, Appended
  <2>3. /\ b \o w \in Seq(Half) /\ Len(b \o w) = 6 /\ \A i \in 1..4 : (b \o w)[i] = b[i]
        /\ (b \o w)[5] = w[1] /\ (b \o w)[6] = w[2]
    BY <1>9, <2>1, <2>2 DEF Behind
  <2> QED BY <2>1, <2>3 DEF w
<1> HIDE DEF k
<1>11. Behind(d, k, z) BY <1>6, <1>10, Appended
<1>12. d \in Seq(Half) BY <1>11 DEF Behind
<1>13. Behind(f, d, y) BY <1>7, <1>12, Appended
<1>14. f \in Seq(Half) BY <1>13 DEF Behind
<1> DEFINE l == p.payload
           r == Rtp(p)
<1>15. Behind(r, f, l)
  <2>1. r = f \o l BY <1>8 DEF b, k, d, f
  <2>2. Behind(f \o l, f, l) BY <1>1, <1>14, Appended
  <2> QED BY <2>1, <2>2
<1> HIDE DEF k, d, f, l, r, c, x
<1>16. /\ Len(d) = 6 + 2 * c /\ Len(f) = Len(d) + Len(y) /\ Len(r) = Len(f) + Len(l)
       /\ r \in Seq(Half) /\ Len(l) \in Nat /\ Len(y) \in Nat
  <2>1. Len(l) \in Nat BY <1>2 DEF l
  <2> QED BY <1>2, <1>6, <1>7, <1>10, <1>11, <1>13, <1>15, <2>1 DEF Behind
<1>17. r[1] = k[1] /\ r[2] = k[2] /\ r[3] = k[3] /\ r[4] = k[4] /\ r[5] = k[5] /\ r[6] = k[6]
  <2>1. ASSUME NEW i \in 1..6 PROVE r[i] = k[i]
    <3>1. i \in 1 .. Len(k) /\ i \in 1 .. Len(d) /\ i \in 1 .. Len(f)
      BY <1>2, <1>10, <1>16
    <3> QED BY <1>11, <1>13, <1>15, <3>1 DEF Behind
  <2> QED BY <2>1
<1>18. ASSUME p.ext # <<>> PROVE r[8 + 2 * c] = x
  <2>1. Len(y) = 2 + 2 * x /\ y[2] = x BY <1>7, <1>18
  <2>2. 2 \in 1 .. Len(y) /\ Len(d) + 2 \in 1 .. Len(f) /\ Len(d) + 2 = 8 + 2 * c
    BY <1>2, <1>16, <2>1
  <2>3. f[Len(d) + 2] = x BY <1>13, <2>1, <2>2 DEF Behind
  <2> QED BY <1>15, <2>2, <2>3 DEF Behind
<1>19. Len(y) = IF p.ext = <<>> THEN 0 ELSE 2 + 2 * x BY <1>7
<1>20. <<r[3], r[4]>> = p.ts /\ <<r[5], r[6]>> = p.ssrc /\ r[1] = FirstHalf(p) /\ r[2] = p.seq
  BY <1>9, <1>10, <1>17
<1>21. Len(r) = 6 + 2 * c + (IF p.ext = <<>> THEN 0 ELSE 2 + 2 * x) + Len(l)
  BY <1>2, <1>16, <1>19
<1> QED BY <1>2, <1>3, <1>16, <1>18, <1>20, <1>21, Zenon DEF r, c, x, l

\* A packet that is cut short is the front of it.
LEMMA CutPacket ==
  ASSUME NEW r \in Seq(Half), NEW n \in 1 .. Len(r)
  PROVE  /\ SubSeq(r, 1, n) \in Seq(Half) /\ Len(SubSeq(r, 1, n)) = n
         /\ \A i \in 1 .. n : SubSeq(r, 1, n)[i] = r[i]
<1>1. Len(r) \in Nat BY LenProperties
<1>2. ASSUME NEW i \in 1 .. n PROVE r[i] \in Half
  <2>1. i \in 1 .. Len(r) BY <1>1
  <2> QED BY <2>1, ElementOfSeq
<1>3. /\ SubSeq(r, 1, n) \in Seq(Half)
      /\ Len(SubSeq(r, 1, n)) = IF 1 <= n THEN n - 1 + 1 ELSE 0
      /\ \A i \in 1 .. n - 1 + 1 : SubSeq(r, 1, n)[i] = r[1 + i - 1]
  <2>1. 1 \in Int /\ n \in Int BY <1>1
  <2> QED BY <1>2, <2>1, SubSeqProperties
<1>4. 1 <= n /\ n - 1 + 1 = n BY <1>1
<1>5. \A i \in 1 .. n : 1 + i - 1 = i BY <1>1
<1> QED BY <1>3, <1>4, <1>5

\* The bits that say whether there is an extension, and the marker.
LEMMA BitIs ==
  ASSUME NEW h
  PROVE  /\ Bit(h, 12) = ((h \div 4096) % 2 = 1)
         /\ Bit(h, 7) = ((h \div 128) % 2 = 1)
<1>1. 2 ^ 12 = 4096 /\ 2 ^ 7 = 128 OBVIOUS
<1> QED BY <1>1, SMT DEF Bit

\* Neither parser takes a payload behind the end of what arrived.
LEMMA Bounded ==
  ASSUME NEW d \in Seq(Half)
  PROVE  /\ AudioHeader(d).ok => AudioHeader(d).off < 2 * Len(d)
         /\ VideoHeader(d).ok => VideoHeader(d).off <= 2 * Len(d)
<1> DEFINE n == Len(d)
           fixed == 12 + 4 * Csrcs(d)
           w == ExtensionWords(d, fixed)
<1>1. n \in Nat BY LenProperties
<1>2. \A off : Fields(d, off).ok /\ Fields(d, off).off = off BY DEF Fields
<1>3. ~Rejected.ok BY DEF Rejected
<1>4. ASSUME 2 * n >= 12
      PROVE  fixed \in Nat /\ (fixed + 4 <= 2 * n => w \in Nat)
  <2>1. 1 \in 1..n BY <1>1, <1>4
  <2>2. d[1] \in Half BY <2>1, ElementOfSeq
  <2>3. d[1] \in Nat BY <2>2, MaxNat DEF Half
  <2> DEFINE c == (d[1] \div 256) % 16
  <2>4. c \in Nat BY <2>3
  <2>5. fixed = 12 + 4 * c BY DEF Csrcs
  <2> HIDE DEF c, fixed
  <2>6. fixed \in Nat BY <2>4, <2>5
  <2>7. ASSUME fixed + 4 <= 2 * n PROVE w \in Nat
    <3>1. (fixed \div 2) + 2 = 8 + 2 * c BY <2>4, <2>5
    <3>2. 8 + 2 * c \in 1..n BY <1>1, <2>4, <2>5, <2>7
    <3>3. d[(fixed \div 2) + 2] \in Half BY <3>1, <3>2, ElementOfSeq
    <3> QED BY <3>3, MaxNat DEF Half, ExtensionWords
  <2> QED BY <2>6, <2>7
<1>5. ASSUME AudioHeader(d).ok PROVE AudioHeader(d).off < 2 * n
  <2> DEFINE off == IF HasExtension(d) /\ fixed + 4 <= 2 * n
                    THEN fixed + 4 + ((4 * w) % 65536) ELSE fixed
  <2>1. AudioHeader(d) = IF 2 * n < 12 \/ Version(d[1]) # 2 \/ off >= 2 * n THEN Rejected
                         ELSE Fields(d, off)
    BY DEF AudioHeader
  <2>2. ~(2 * n < 12) /\ ~(off >= 2 * n) /\ AudioHeader(d).off = off
    BY <1>2, <1>3, <1>5, <2>1
  <2>3. 2 * n >= 12 BY <1>1, <2>2
  <2>4. fixed \in Nat /\ (fixed + 4 <= 2 * n => w \in Nat) BY <1>4, <2>3
  <2> HIDE DEF fixed, w
  <2>5. off \in Nat BY <2>4
  <2> HIDE DEF off
  <2> QED BY <1>1, <2>2, <2>5
<1>6. ASSUME VideoHeader(d).ok PROVE VideoHeader(d).off <= 2 * n
  <2> DEFINE off == fixed + 4 + 4 * w
  <2>1. VideoHeader(d) = IF 2 * n < 12 \/ Version(d[1]) # 2 \/ fixed > 2 * n THEN Rejected
                         ELSE IF ~HasExtension(d) THEN Fields(d, fixed)
                         ELSE IF fixed + 4 > 2 * n \/ off > 2 * n THEN Rejected
                         ELSE Fields(d, off)
    BY DEF VideoHeader
  <2>2. /\ ~(2 * n < 12) /\ ~(fixed > 2 * n)
        /\ \/ VideoHeader(d).off = fixed
           \/ ~(fixed + 4 > 2 * n) /\ ~(off > 2 * n) /\ VideoHeader(d).off = off
    BY <1>2, <1>3, <1>6, <2>1
  <2>3. 2 * n >= 12 BY <1>1, <2>2
  <2>4. fixed \in Nat /\ (fixed + 4 <= 2 * n => w \in Nat) BY <1>4, <2>3
  <2> HIDE DEF fixed, w
  <2>5. ~(fixed + 4 > 2 * n) => off \in Nat BY <1>1, <2>4
  <2> HIDE DEF off
  <2> QED BY <1>1, <2>2, <2>4, <2>5
<1> QED BY <1>5, <1>6

\* Both parsers find the fields and the payload of a packet that is complete.
LEMMA Complete ==
  ASSUME NEW p, WellFormedPacket(p)
  PROVE  LET d    == Rtp(p)
             off  == 12 + 4 * Len(p.csrcs) + (IF p.ext = <<>> THEN 0 ELSE 4 + 4 * Len(p.ext))
             want == [ok |-> TRUE, marker |-> p.marker, pt |-> p.pt, seq |-> p.seq,
                      ts |-> p.ts, ssrc |-> p.ssrc, off |-> off]
         IN  VideoHeader(d) = want /\ (p.payload # <<>> => AudioHeader(d) = want)
<1> DEFINE d == Rtp(p)
           c == Len(p.csrcs)
           x == Len(p.ext)
           l == Len(p.payload)
           n == Len(d)
           e == IF p.ext = <<>> THEN 0 ELSE 1
           m == IF p.marker THEN 1 ELSE 0
           fixed == 12 + 4 * Csrcs(d)
           w == ExtensionWords(d, fixed)
           off == 12 + 4 * c + (IF p.ext = <<>> THEN 0 ELSE 4 + 4 * x)
           want == [ok |-> TRUE, marker |-> p.marker, pt |-> p.pt, seq |-> p.seq,
                    ts |-> p.ts, ssrc |-> p.ssrc, off |-> off]
<1>1. /\ d \in Seq(Half) /\ c \in 0..15 /\ x \in Nat /\ l \in Nat
      /\ TakenApart(FirstHalf(p), e, c, m, p.pt)
      /\ n = 6 + 2 * c + (IF p.ext = <<>> THEN 0 ELSE 2 + 2 * x) + l
      /\ d[1] = FirstHalf(p) /\ d[2] = p.seq
      /\ <<d[3], d[4]>> = p.ts /\ <<d[5], d[6]>> = p.ssrc
      /\ p.ext # <<>> => d[8 + 2 * c] = x
  BY PacketLies, Zenon
<1>2. p.marker \in BOOLEAN /\ 2 * n <= MaxDatagram /\ p.payload \in Seq(Half)
  BY DEF WellFormedPacket
<1> HIDE DEF d
<1>3. /\ Version(d[1]) = 2 /\ Csrcs(d) = c /\ d[1] % 128 = p.pt
      /\ Bit(d[1], 12) = (e = 1) /\ Bit(d[1], 7) = (m = 1)
  <2>1. TakenApart(d[1], e, c, m, p.pt) BY <1>1
  <2> HIDE DEF c, e, m
  <2>2. /\ Version(d[1]) = 2 /\ Csrcs(d) = c /\ d[1] % 128 = p.pt
        /\ (d[1] \div 4096) % 2 = e /\ (d[1] \div 128) % 2 = m
    BY ONLY <2>1, SMT DEF TakenApart, Version, Csrcs
  <2>3. /\ Bit(d[1], 12) = ((d[1] \div 4096) % 2 = 1)
        /\ Bit(d[1], 7) = ((d[1] \div 128) % 2 = 1)
    BY BitIs
  <2>4. Bit(d[1], 12) = (e = 1) /\ Bit(d[1], 7) = (m = 1)
    <3> DEFINE u == (d[1] \div 4096) % 2
               v == (d[1] \div 128) % 2
    <3>1. u = e /\ v = m BY <2>2
    <3>2. Bit(d[1], 12) = (u = 1) /\ Bit(d[1], 7) = (v = 1) BY <2>3
    <3> HIDE DEF u, v
    <3> QED BY ONLY <3>1, <3>2
  <2> QED BY <2>2, <2>4
<1>4. HasExtension(d) = (p.ext # <<>>)
  <2>1. (e = 1) = (p.ext # <<>>) OBVIOUS
  <2> QED BY <1>3, <2>1, Zenon DEF HasExtension
<1>5. Bit(d[1], 7) = p.marker
  <2>1. (m = 1) = p.marker BY <1>2
  <2> QED BY <1>3, <2>1, Zenon
<1>6. fixed = 12 + 4 * c BY <1>3
<1>7. p.ext # <<>> => w = x
  <2> HIDE DEF c, fixed
  <2>1. (fixed \div 2) + 2 = 8 + 2 * c BY <1>1, <1>6
  <2> QED BY <1>1, <2>1 DEF ExtensionWords
<1>8. Fields(d, off) = want
  <2> HIDE DEF off
  <2>1. Word(d, 3) = p.ts /\ Word(d, 5) = p.ssrc
    <3>1. 3 + 1 = 4 /\ 5 + 1 = 6 OBVIOUS
    <3> QED BY <1>1, <3>1 DEF Word
  <2> QED BY <1>1, <1>3, <1>5, <2>1, Zenon DEF Fields, off
<1>9. /\ n \in Nat /\ off \in Nat /\ ~(2 * n < 12)
      /\ 2 * n = off + 2 * l /\ (p.ext # <<>> => off = 12 + 4 * c + 4 + 4 * x)
      /\ (p.ext = <<>> => off = 12 + 4 * c)
  <2> HIDE DEF c, x, l, n
  <2> QED BY <1>1
<1> HIDE DEF c, x, l, n, w, fixed, off, want
<1>9a. c \in Nat /\ x \in Nat /\ l \in Nat BY <1>1
<1>10. VideoHeader(d) = want
  <2> DEFINE o == fixed + 4 + 4 * w
  <2>1. VideoHeader(d) = IF 2 * n < 12 \/ Version(d[1]) # 2 \/ fixed > 2 * n THEN Rejected
                         ELSE IF ~HasExtension(d) THEN Fields(d, fixed)
                         ELSE IF fixed + 4 > 2 * n \/ o > 2 * n THEN Rejected
                         ELSE Fields(d, o)
    BY DEF VideoHeader, n, fixed, w
  <2>2. ~(fixed > 2 * n) BY <1>6, <1>9, <1>9a
  <2>3. CASE p.ext = <<>>
    <3>1. fixed = off BY <1>6, <1>9, <2>3
    <3> QED BY <1>3, <1>4, <1>8, <1>9, <2>1, <2>2, <2>3, <3>1, Zenon
  <2>4. CASE p.ext # <<>>
    <3>0. fixed = 12 + 4 * c /\ w = x /\ off = 12 + 4 * c + 4 + 4 * x /\ 2 * n = off + 2 * l
      BY <1>6, <1>7, <1>9, <2>4
    <3>1. o = off /\ ~(fixed + 4 > 2 * n) /\ ~(o > 2 * n) BY ONLY <1>9a, <3>0 DEF o
    <3> HIDE DEF o
    <3> QED BY <1>3, <1>4, <1>8, <1>9, <2>1, <2>2, <2>4, <3>1, Zenon
  <2> QED BY <2>3, <2>4
<1>11. ASSUME p.payload # <<>> PROVE AudioHeader(d) = want
  <2> DEFINE o == IF HasExtension(d) /\ fixed + 4 <= 2 * n
                  THEN fixed + 4 + ((4 * w) % 65536) ELSE fixed
  <2>1. AudioHeader(d) = IF 2 * n < 12 \/ Version(d[1]) # 2 \/ o >= 2 * n THEN Rejected
                         ELSE Fields(d, o)
    BY DEF AudioHeader, n, fixed, w
  <2>2. l > 0
    <3>1. Len(p.payload) \in Nat \ {0} BY <1>2, <1>11, EmptySeq
    <3> QED BY <3>1 DEF l
  <2>3. o = off
    <3>1. CASE p.ext = <<>>
      <4>1. ~HasExtension(d) /\ fixed = off BY <1>4, <1>6, <1>9, <3>1
      <4> QED BY <4>1
    <3>2. CASE p.ext # <<>>
      <4>0. fixed = 12 + 4 * c /\ w = x /\ off = 12 + 4 * c + 4 + 4 * x /\ 2 * n = off + 2 * l
        BY <1>6, <1>7, <1>9, <3>2
      <4>1. fixed + 4 <= 2 * n /\ 4 * x <= 2 * n BY ONLY <1>9a, <4>0
      <4>2. 2 * n <= 65535 BY <1>2, SMT DEF MaxDatagram, n
      <4>3. 4 * x \in Nat /\ 4 * x < 65536 BY <1>9a, <1>9, <4>1, <4>2
      <4>4. (4 * w) % 65536 = 4 * x BY <4>0, <4>3
      <4>5. HasExtension(d) BY <1>4, <3>2
      <4>6. o = fixed + 4 + 4 * x BY <4>1, <4>4, <4>5, SMT DEF o
      <4> QED BY ONLY <1>9a, <4>0, <4>6
    <3> QED BY <3>1, <3>2
  <2> HIDE DEF o
  <2>4. ~(o >= 2 * n) BY <1>9a, <1>9, <2>2, <2>3
  <2> QED BY <1>3, <1>8, <1>9, <2>1, <2>3, <2>4, Zenon
<1> QED BY <1>10, <1>11, Zenon DEF d, c, x, off, want

\* However a packet is cut, both parsers of the RTP header agree with what its
\* sender wrote: the same fields and the payload if it is complete, and never a
\* payload behind the end of what arrived (rtp.h, receiver_worker).
THEOREM HeadersUnderstood ==
  ASSUME NEW p, WellFormedPacket(p), NEW n \in 1 .. Len(Rtp(p))
  PROVE  HeadersAgree(p, Parsed(p, n))
<1> DEFINE r == Rtp(p)
           d == SubSeq(r, 1, n)
           whole == n = Len(r)
           off   == 12 + 4 * Len(p.csrcs) + (IF p.ext = <<>> THEN 0 ELSE 4 + 4 * Len(p.ext))
           want  == [ok |-> TRUE, marker |-> p.marker, pt |-> p.pt, seq |-> p.seq,
                     ts |-> p.ts, ssrc |-> p.ssrc, off |-> off]
<1>1. r \in Seq(Half) BY PacketLies, Zenon
<1>2. d \in Seq(Half) /\ Len(d) = n /\ \A i \in 1..n : d[i] = r[i]
  <2> HIDE DEF r
  <2>1. n \in 1 .. Len(r) BY DEF r
  <2> QED BY <1>1, <2>1, CutPacket
<1>3. ASSUME whole PROVE d = r
  <2> HIDE DEF r, d
  <2> QED BY <1>1, <1>2, <1>3, SeqEqual
<1>4. whole => VideoHeader(d) = want /\ (p.payload # <<>> => AudioHeader(d) = want)
  BY <1>3, Complete, Zenon
<1>5. /\ AudioHeader(d).ok => AudioHeader(d).off < 2 * n
      /\ VideoHeader(d).ok => VideoHeader(d).off <= 2 * n
  <2> HIDE DEF d
  <2> QED BY <1>2, Bounded
<1>6. Parsed(p, n) = [len |-> n, audio |-> AudioHeader(d), video |-> VideoHeader(d)]
  BY DEF Parsed
<1> DEFINE q == Parsed(p, n)
<1>7. q.len = n /\ q.audio = AudioHeader(d) /\ q.video = VideoHeader(d) BY <1>6
<1> HIDE DEF d, q, want
<1>8. /\ q.len = Len(r) /\ p.payload # <<>> => q.audio = want
      /\ q.len = Len(r) => q.video = want
      /\ q.audio.ok => q.audio.off < 2 * q.len
      /\ q.video.ok => q.video.off <= 2 * q.len
  BY <1>4, <1>5, <1>7, Zenon
<1> QED BY <1>8, Zenon DEF HeadersAgree, q, want

\* Two neighbours of a sequence.
LEMMA Pair ==
  ASSUME NEW s \in Seq(Half), NEW i \in Nat, 1 <= i, i < Len(s)
  PROVE  SubSeq(s, i, i + 1) = <<s[i], s[i + 1]>>
<1> DEFINE u == SubSeq(s, i, i + 1)
           v == <<s[i], s[i + 1]>>
<1>1. Len(s) \in Nat BY LenProperties
<1>2. ASSUME NEW k \in i .. i + 1 PROVE s[k] \in Half
  <2>1. k \in 1 .. Len(s) BY <1>1
  <2> QED BY <2>1, ElementOfSeq
<1>3. /\ u \in Seq(Half) /\ Len(u) = IF i <= i + 1 THEN (i + 1) - i + 1 ELSE 0
      /\ \A k \in 1 .. (i + 1) - i + 1 : u[k] = s[i + k - 1]
  <2>1. i \in Int /\ i + 1 \in Int OBVIOUS
  <2> QED BY <1>2, <2>1, SubSeqProperties
<1>4. Len(u) = 2 /\ u[1] = s[i] /\ u[2] = s[i + 1] BY <1>3
<1>5. v \in Seq(Half) /\ Len(v) = 2 /\ v[1] = s[i] /\ v[2] = s[i + 1] BY <1>2
<1> HIDE DEF u, v
<1>6. \A k \in 1 .. Len(u) : u[k] = v[k] BY <1>4, <1>5
<1>7. u = v BY <1>3, <1>4, <1>5, <1>6, SeqEqual
<1> QED BY <1>7 DEF u, v

\* The time of an answer fits its two halves, and is exact to a tick.
LEMMA Compact ==
  ASSUME NEW t \in Clock
  PROVE  /\ CompactNtp(t) \in Seq(Half) /\ Len(CompactNtp(t)) = 2
         /\ CompactNtp(t) = <<CompactNtp(t)[1], CompactNtp(t)[2]>>
         /\ CompactNtp(t)[1] = (t.sec + 32384) % 65536
         /\ CompactNtp(t)[2] = (t.us * 1024) \div 15625
<1> DEFINE a == (t.sec + 32384) % 65536
           b == (t.us * 1024) \div 15625
<1>1. t.sec \in Nat /\ t.us \in Nat /\ t.us < 1000000
  <2>1. Second = 1000000 BY SMT DEF Second
  <2>2. t.sec \in Nat /\ t.us \in Nat /\ t.us < Second
    <3>1. Second \in Nat BY SMT DEF Second
    <3> QED BY <3>1 DEF Clock
  <2> QED BY <2>1, <2>2, SMT
<1>2. a \in Nat /\ a <= 65535 BY <1>1, SMT
<1>3. b \in Nat /\ b <= 65535 BY <1>1, SMT
<1>4. CompactNtp(t) = <<a, b>> BY DEF CompactNtp
<1> HIDE DEF a, b
<1>5. a \in Half /\ b \in Half
  <2>1. a <= Max16 /\ b <= Max16 BY <1>2, <1>3, MaxIs, SMT
  <2> QED BY <1>2, <1>3, <2>1, HalfIs
<1>6. /\ CompactNtp(t) \in Seq(Half) /\ Len(CompactNtp(t)) = 2
      /\ CompactNtp(t)[1] = a /\ CompactNtp(t)[2] = b
      /\ CompactNtp(t) = <<CompactNtp(t)[1], CompactNtp(t)[2]>>
  BY <1>4, <1>5
<1> QED BY <1>6 DEF a, b

\* Where the parts of an answer lie in it.
Answer(ours, w, c) == <<32768 + 84, 4>> \o ours \o w \o c \o c

Placed(a, w, c) ==
  /\ a \in Seq(Half) /\ Len(a) = 10 /\ a[5] = w[1] /\ a[6] = w[2]
  /\ a[7] = c[1] /\ a[8] = c[2] /\ a[9] = c[1] /\ a[10] = c[2]

LEMMA AnswerIs ==
  ASSUME NEW ours \in Seq(Half), Len(ours) = 2, NEW w \in Seq(Half), Len(w) = 2,
         NEW c \in Seq(Half), Len(c) = 2
  PROVE  Placed(Answer(ours, w, c), w, c)
<1> DEFINE h == <<32768 + 84, 4>>
           p == h \o ours
           q == p \o w
           r == q \o c
           a == r \o c
<1>1. h \in Seq(Half) /\ Len(h) = 2
  <2>1. 32768 + 84 <= Max16 /\ 4 <= Max16 BY MaxIs, SMT
  <2>2. 32768 + 84 \in Half /\ 4 \in Half
    <3>1. 32768 + 84 \in Nat /\ 4 \in Nat BY SMT
    <3> QED BY <2>1, <3>1, HalfIs
  <2> QED BY <2>2
<1> HIDE DEF h
<1>2. Behind(p, h, ours) BY <1>1, Appended
<1>3. p \in Seq(Half) /\ Len(p) = 4 BY <1>1, <1>2 DEF Behind
<1> HIDE DEF p
<1>4. Behind(q, p, w) BY <1>3, Appended
<1>5. q \in Seq(Half) /\ Len(q) = 6 /\ q[5] = w[1] /\ q[6] = w[2] BY <1>3, <1>4 DEF Behind
<1> HIDE DEF q
<1>6. Behind(r, q, c) BY <1>5, Appended
<1>7. /\ r \in Seq(Half) /\ Len(r) = 8 /\ r[5] = q[5] /\ r[6] = q[6]
      /\ r[7] = c[1] /\ r[8] = c[2]
  BY <1>5, <1>6 DEF Behind
<1> HIDE DEF r
<1>8. Behind(a, r, c) BY <1>7, Appended
<1>9. /\ a \in Seq(Half) /\ Len(a) = 10 /\ a[5] = r[5] /\ a[6] = r[6]
      /\ a[7] = r[7] /\ a[8] = r[8] /\ a[9] = c[1] /\ a[10] = c[2]
  BY <1>7, <1>8 DEF Behind
<1>10. a = Answer(ours, w, c) BY SMT DEF Answer, h, p, q, r
<1> HIDE DEF a
<1>11. Placed(a, w, c) BY <1>5, <1>7, <1>9, Zenon DEF Placed
<1> QED BY <1>10, <1>11

\* Two times less than 2^16 seconds apart, by their ticks.
LEMMA Apart ==
  ASSUME NEW t \in Clock, NEW u \in Clock, Within(t, u)
  PROVE  AsFarApart(t, u, CompactNtp(t), CompactNtp(u))
<1> DEFINE k == u.sec - t.sec
           s == t.sec
           x == t.us
           y == u.us
           f == (x * 1024) \div 15625
           g == (y * 1024) \div 15625
<1>1. s \in Nat /\ k \in Nat /\ k <= 65535 /\ x \in Nat /\ y \in Nat /\ u.sec = s + k
  <2>1. Second \in Nat BY SMT DEF Second
  <2>2. t.sec \in Nat /\ t.us \in Nat /\ u.sec \in Nat /\ u.us \in Nat BY <2>1 DEF Clock
  <2>3. t.sec <= u.sec /\ u.sec - t.sec <= Max16 BY DEF Within
  <2> QED BY <2>2, <2>3, MaxIs, SMT
<1>2. /\ CompactNtp(t)[1] = (s + 32384) % 65536 /\ CompactNtp(t)[2] = f
      /\ CompactNtp(u)[1] = (s + k + 32384) % 65536 /\ CompactNtp(u)[2] = g
  BY <1>1, Compact, SMTT(30)
<1> DEFINE ticks == 65536 * ((CompactNtp(u)[1] - CompactNtp(t)[1]) % 65536)
                    + CompactNtp(u)[2] - CompactNtp(t)[2]
           us == Second * (u.sec - t.sec) + u.us - t.us
<1>3. us = 1000000 * k + y - x
  <2>1. Second = 1000000 BY SMT DEF Second
  <2> QED BY <2>1, SMT
<1> HIDE DEF k, s, x, y
<1>4. (((s + k + 32384) % 65536) - ((s + 32384) % 65536)) % 65536 = k BY <1>1, SMT
<1>5. /\ f \in Int /\ 15625 * f <= 1024 * x /\ 1024 * x < 15625 * f + 15625
      /\ g \in Int /\ 15625 * g <= 1024 * y /\ 1024 * y < 15625 * g + 15625
  BY <1>1, SMT
<1>6. ticks = 65536 * k + g - f
  <2> DEFINE a == CompactNtp(t)
             b == CompactNtp(u)
  <2> HIDE DEF a, b, f, g
  <2>1. a[1] = (s + 32384) % 65536 /\ a[2] = f /\ b[1] = (s + k + 32384) % 65536 /\ b[2] = g
    BY <1>2 DEF a, b
  <2>2. (b[1] - a[1]) % 65536 = k
    <3> DEFINE A == a[1]
               B == b[1]
               X == (s + 32384) % 65536
               Y == (s + k + 32384) % 65536
    <3>1. A = X /\ B = Y BY <2>1
    <3>2. (Y - X) % 65536 = k BY ONLY <1>1, <1>4, SMT DEF X, Y
    <3> HIDE DEF A, B, X, Y
    <3>3. (B - A) % 65536 = k BY ONLY <3>1, <3>2, SMT
    <3> QED BY <3>3, SMT DEF A, B
  <2>3. ticks = 65536 * ((b[1] - a[1]) % 65536) + b[2] - a[2] BY SMT DEF a, b
  <2> QED BY <2>1, <2>2, <2>3, SMT
<1> HIDE DEF ticks, us, f, g
<1>7. /\ ticks \in Int /\ us \in Int
      /\ 15625 * (ticks - 1) <= 1024 * us /\ 1024 * us <= 15625 * (ticks + 1)
  BY ONLY <1>1, <1>3, <1>5, <1>6, SMT
<1>8. \A lo, hi, z \in Int : lo <= z /\ z <= hi => z \in lo .. hi OBVIOUS
<1>9. 15625 * (ticks - 1) \in Int /\ 15625 * (ticks + 1) \in Int /\ 1024 * us \in Int
  BY ONLY <1>7, SMT
<1>10. 1024 * us \in 15625 * (ticks - 1) .. 15625 * (ticks + 1)
  <2> DEFINE lo == 15625 * (ticks - 1)
             hi == 15625 * (ticks + 1)
             z == 1024 * us
  <2>1. lo \in Int /\ hi \in Int /\ z \in Int /\ lo <= z /\ z <= hi BY <1>7, <1>9
  <2> HIDE DEF lo, hi, z
  <2>2. z \in lo .. hi BY <2>1, <1>8
  <2> QED BY <2>2 DEF lo, hi, z
<1> QED BY <1>10, SMT DEF AsFarApart, ticks, us

\* The answers to two requests for the time are as far apart as the requests, to
\* a tick, whatever the hour and also where the seconds of the short form wrap;
\* each carries the request's own time (timing.cpp).
THEOREM TimesUnderstood ==
  ASSUME NEW d, WellFormedTimeRequest(d), NEW ours \in Word32,
         NEW t \in Clock, NEW u \in Clock, Within(t, u)
  PROVE  TimesAgree(d, t, u, <<HandleTiming(d, ours, t), HandleTiming(d, ours, u)>>)
<1> DEFINE A(x) == HandleTiming(d, ours, x)
           w == Word(d, 5)
<1>1. d \in Seq(Half) /\ Len(d) \in Nat
  <2>1. d \in Seq(Half) BY DEF WellFormedTimeRequest
  <2> QED BY <2>1, LenProperties
<1>2. ASSUME Len(d) < 10 PROVE A(t) = <<>> /\ A(u) = <<>> BY <1>2, SMT DEF HandleTiming
<1>3. ASSUME ~(Len(d) < 10)
      PROVE  /\ SubSeq(A(t), 5, 6) = SubSeq(d, 5, 6)
             /\ SubSeq(A(t), 7, 8) = SubSeq(A(t), 9, 10)
             /\ AsFarApart(t, u, SubSeq(A(t), 7, 8), SubSeq(A(u), 7, 8))
  <2>1. d[1] = 32768 + 83 /\ d[2] = 4
    BY <1>1, <1>3, SMT DEF WellFormedTimeRequest
  <2>2. Version(d[1]) = 2 /\ Low8(d[1]) = 83 BY <2>1, SMT DEF Version, Low8
  <2>3. \A x : A(x) = Answer(ours, w, CompactNtp(x))
    BY <1>3, <2>1, <2>2, SMT DEF HandleTiming, Answer
  <2>4. ours \in Seq(Half) /\ Len(ours) = 2 BY WordIs
  <2>5. w \in Seq(Half) /\ Len(w) = 2 /\ w = <<d[5], d[6]>>
    <3> DEFINE a == d[5]
               b == d[6]
    <3>1. a \in Half /\ b \in Half BY <1>1, <1>3, ElementOfSeq
    <3>2. w = <<a, b>>
      <4>1. 5 + 1 = 6 OBVIOUS
      <4> QED BY <4>1 DEF Word
    <3> HIDE DEF a, b, w
    <3>3. w \in Seq(Half) /\ Len(w) = 2 BY <3>1, <3>2
    <3> QED BY <3>2, <3>3 DEF a, b
  <2> HIDE DEF A, w
  <2>6. ASSUME NEW x \in Clock
        PROVE  /\ Placed(A(x), w, CompactNtp(x))
               /\ SubSeq(A(x), 7, 8) = CompactNtp(x)
    <3> DEFINE c == CompactNtp(x)
    <3>1. c \in Seq(Half) /\ Len(c) = 2 /\ c = <<c[1], c[2]>> BY Compact, SMT
    <3>2. A(x) = Answer(ours, w, c) BY <2>3
    <3> HIDE DEF c
    <3>3. Placed(A(x), w, c) BY <2>4, <2>5, <3>1, <3>2, AnswerIs
    <3>4. /\ A(x) \in Seq(Half) /\ Len(A(x)) = 10 /\ A(x)[7] = c[1] /\ A(x)[8] = c[2]
      BY <3>3 DEF Placed
    <3>5. SubSeq(A(x), 7, 7 + 1) = <<A(x)[7], A(x)[7 + 1]>> BY <3>4, Pair
    <3>6. 7 + 1 = 8 OBVIOUS
    <3>7. SubSeq(A(x), 7, 8) = c BY <3>1, <3>4, <3>5, <3>6
    <3> QED BY <3>3, <3>7 DEF c
  <2>7. SubSeq(A(t), 5, 6) = SubSeq(d, 5, 6)
    <3>1. A(t) \in Seq(Half) /\ Len(A(t)) = 10 /\ A(t)[5] = w[1] /\ A(t)[6] = w[2]
      BY <2>6 DEF Placed
    <3>2. SubSeq(A(t), 5, 5 + 1) = <<A(t)[5], A(t)[5 + 1]>> BY <3>1, Pair
    <3>3. SubSeq(d, 5, 5 + 1) = <<d[5], d[5 + 1]>> BY <1>1, <1>3, Pair
    <3>4. w[1] = d[5] /\ w[2] = d[6] BY <2>5
    <3>5. 5 + 1 = 6 OBVIOUS
    <3> QED BY <3>1, <3>2, <3>3, <3>4, <3>5
  <2>8. SubSeq(A(t), 7, 8) = SubSeq(A(t), 9, 10)
    <3>1. /\ A(t) \in Seq(Half) /\ Len(A(t)) = 10 /\ A(t)[7] = A(t)[9] /\ A(t)[8] = A(t)[10]
      BY <2>6 DEF Placed
    <3>2. SubSeq(A(t), 7, 7 + 1) = <<A(t)[7], A(t)[7 + 1]>> BY <3>1, Pair
    <3>3. SubSeq(A(t), 9, 9 + 1) = <<A(t)[9], A(t)[9 + 1]>> BY <3>1, Pair
    <3>4. 7 + 1 = 8 /\ 9 + 1 = 10 OBVIOUS
    <3> QED BY <3>1, <3>2, <3>3, <3>4
  <2>9. AsFarApart(t, u, SubSeq(A(t), 7, 8), SubSeq(A(u), 7, 8))
    <3>1. SubSeq(A(t), 7, 8) = CompactNtp(t) /\ SubSeq(A(u), 7, 8) = CompactNtp(u) BY <2>6
    <3> QED BY <3>1, Apart
  <2> QED BY <2>7, <2>8, <2>9
<1> DEFINE answers == <<A(t), A(u)>>
<1>4. answers[1] = A(t) /\ answers[2] = A(u) OBVIOUS
<1> HIDE DEF A, answers
<1>5. TimesAgree(d, t, u, answers) BY <1>2, <1>3, <1>4 DEF TimesAgree
<1> QED BY <1>5, Zenon DEF A, answers

-----------------------------------------------------------------------------
(* The reports of the sender. *)

\* A word of a sequence of words, among its halves.
LEMMA HalvesPair ==
  ASSUME NEW words \in Seq(Word32), NEW i \in 1 .. Len(words)
  PROVE  <<Halves(words)[2 * i - 1], Halves(words)[2 * i]>> = words[i]
<1> DEFINE k == Len(words)
           H(j) == words[((j - 1) \div 2) + 1][((j - 1) % 2) + 1]
<1>1. k \in Nat /\ words[i] \in Word32 BY LenProperties, ElementOfSeq
<1>2. Halves(words) = [j \in 1 .. 2 * k |-> H(j)] BY DEF Halves
<1> HIDE DEF k
<1>3. i \in 1..k /\ 2 * i - 1 \in 1 .. 2 * k /\ 2 * i \in 1 .. 2 * k BY <1>1 DEF k
<1>4. Halves(words)[2 * i - 1] = H(2 * i - 1) /\ Halves(words)[2 * i] = H(2 * i)
  <2> HIDE DEF H
  <2> QED BY <1>2, <1>3
<1>5. /\ (((2 * i - 1) - 1) \div 2) + 1 = i /\ (((2 * i - 1) - 1) % 2) + 1 = 1
      /\ ((2 * i - 1) \div 2) + 1 = i /\ ((2 * i - 1) % 2) + 1 = 2
  BY <1>3
<1>6. H(2 * i - 1) = words[i][1] /\ H(2 * i) = words[i][2] BY <1>5
<1>7. words[i] = <<words[i][1], words[i][2]>> BY <1>1, WordIs
<1> QED BY <1>4, <1>6, <1>7

\* A sub-packet as it is written, and what of it the receiver looks at.
Written(s, p) ==
  /\ s \in Seq(Half) /\ Len(s) = 2 + 2 * Len(p.words) /\ Len(p.words) \in Nat
  /\ Version(s[1]) = 2 /\ Low8(s[1]) = p.type /\ s[2] = Len(p.words)
  /\ \A i \in 1 .. Len(p.words) : <<s[2 * i + 1], s[2 * i + 2]>> = p.words[i]

LEMMA SubPacketIs ==
  ASSUME NEW p \in [type : 0..255, count : 0..31, words : Seq(Word32)], Len(p.words) <= Max16
  PROVE  Written(SubPacket(p), p)
<1> DEFINE t == p.type
           c == p.count
           w == p.words
           l == Len(w)
           f == 32768 + 256 * c + t
           a == <<f, l>>
           z == Halves(w)
           s == a \o z
<1>1. t \in 0..255 /\ c \in 0..31 /\ w \in Seq(Word32) OBVIOUS
<1>2. l \in Nat /\ l \in Half
  <2>1. l \in Nat BY <1>1, LenProperties
  <2>2. l <= Max16 OBVIOUS
  <2> QED BY <2>1, <2>2, HalfIs
<1>3. SubPacket(p) = s BY DEF SubPacket
<1> HIDE DEF t, c, w
<1>4. f \in Half /\ Version(f) = 2 /\ Low8(f) = t
  <2>1. f \in Nat /\ f <= 65535 BY <1>1
  <2>2. f <= Max16 BY <2>1, MaxIs, SMT
  <2>3. f \div 16384 = 2 /\ f % 256 = t BY <1>1
  <2> HIDE DEF f
  <2> QED BY <2>1, <2>2, <2>3, HalfIs DEF Version, Low8
<1> HIDE DEF f, l
<1>5. a \in Seq(Half) /\ Len(a) = 2 /\ a[1] = f /\ a[2] = l BY <1>2, <1>4
<1>6. z \in Seq(Half) /\ Len(z) = 2 * l BY <1>1, HalvesOf DEF l
<1> HIDE DEF a, z
<1>7. Behind(s, a, z) BY <1>5, <1>6, Appended
<1> HIDE DEF s
<1>8. s \in Seq(Half) /\ Len(s) = 2 + 2 * l BY <1>2, <1>5, <1>6, <1>7 DEF Behind
<1>9. s[1] = f /\ s[2] = l
  <2>1. s[1] = a[1] /\ s[2] = a[2] BY <1>5, <1>7 DEF Behind
  <2> QED BY <1>5, <2>1
<1>10. ASSUME NEW i \in 1..l PROVE <<s[2 * i + 1], s[2 * i + 2]>> = w[i]
  <2>1. /\ 2 * i - 1 \in 1 .. 2 * l /\ 2 * i \in 1 .. 2 * l
        /\ 2 + (2 * i - 1) = 2 * i + 1 /\ 2 + 2 * i = 2 * i + 2
    BY <1>2
  <2>2. s[2 + (2 * i - 1)] = z[2 * i - 1] /\ s[2 + 2 * i] = z[2 * i]
    BY <1>5, <1>6, <1>7, <2>1 DEF Behind
  <2>3. <<z[2 * i - 1], z[2 * i]>> = w[i]
    <3>1. i \in 1 .. Len(w) BY DEF l
    <3> QED BY <1>1, <3>1, HalvesPair DEF z
  <2> QED BY <2>1, <2>2, <2>3
<1>11. Written(s, p)
  BY <1>2, <1>4, <1>8, <1>9, <1>10 DEF Written, l, w, t
<1> QED BY <1>3, <1>11

\* Induction, on a set of naturals.
LEMMA SetInduction ==
  ASSUME NEW S, 0 \in S, \A n \in Nat : n \in S => n + 1 \in S
  PROVE  Nat \subseteq S
<1> SUFFICES ASSUME ~(Nat \subseteq S) PROVE FALSE OBVIOUS
<1> DEFINE T == Nat \ S
<1>1. T \in SUBSET Nat /\ T # {} OBVIOUS
<1>2. PICK m \in T : \A n \in T : m <= n
  <2> HIDE DEF T
  <2> QED BY <1>1, NatLeast
<1>3. m - 1 \in Nat /\ (m - 1) + 1 = m BY <1>2
<1>4. m - 1 \notin T BY <1>2, <1>3
<1> QED BY <1>2, <1>3, <1>4

\* The two loops: what joins the sub-packets, and what finds them again.  One
\* turn of each, from s, turn number i.
Turn(l, s, i) ==
  CASE l.of = "Fronts"     -> s \o SubPacket(l.ps[i])
    [] l.of = "HandleRtcp" -> SubPacketAt(s, l.d)

\* f has what each of n turns leaves, from z on.
Turns(l, z, n, f) == f = [i \in 0..n |-> IF i = 0 THEN z ELSE Turn(l, f[i - 1], i)]

LEMMA TurnsExist ==
  ASSUME NEW l, NEW z, NEW n \in Nat
  PROVE  \E f : Turns(l, z, n, f)
<1> DEFINE S == {k \in Nat : \E f : Turns(l, z, k, f)}
<1>1. 0 \in S
  <2>1. Turns(l, z, 0, [i \in 0..0 |-> z]) BY DEF Turns
  <2> QED BY <2>1
<1>2. ASSUME NEW k \in Nat, k \in S PROVE k + 1 \in S
  <2>1. PICK f : Turns(l, z, k, f) BY <1>2
  <2> DEFINE g == [i \in 0..k+1 |-> IF i <= k THEN f[i] ELSE Turn(l, f[k], k + 1)]
  <2>2. Turns(l, z, k + 1, g) BY <2>1 DEF Turns
  <2> HIDE DEF g
  <2> QED BY <2>2
<1> HIDE DEF S
<1>3. n \in S BY <1>1, <1>2, SetInduction
<1> QED BY <1>3 DEF S

\* The fronts of some sub-packets, each behind the one before it.
LEMMA FrontsTurn ==
  ASSUME NEW ps, Len(ps) \in Nat
  PROVE  Turns([of |-> "Fronts", ps |-> ps], <<>>, Len(ps), Fronts(ps))
<1> DEFINE l == [of |-> "Fronts", ps |-> ps]
           P(f) == f = [k \in 0 .. Len(ps) |->
                          IF k = 0 THEN <<>> ELSE f[k - 1] \o SubPacket(ps[k])]
<1>1. \A s, i : Turn(l, s, i) = s \o SubPacket(ps[i]) BY DEF Turn
<1> HIDE DEF l
<1>2. \A f : P(f) <=> Turns(l, <<>>, Len(ps), f) BY <1>1 DEF Turns
<1>3. Fronts(ps) = CHOOSE f : P(f) BY DEF Fronts
<1> HIDE DEF P
<1>4. PICK f : Turns(l, <<>>, Len(ps), f) BY TurnsExist
<1>5. P(f) BY <1>2, <1>4
<1>6. P(Fronts(ps)) BY <1>3, <1>5
<1> QED BY <1>2, <1>6 DEF l

\* The receiver's turns through a datagram.
LEMMA HandleTurns ==
  ASSUME NEW h, NEW d, NEW n \in Nat, n = Len(d) \div 2
  PROVE  \E f : /\ Turns([of |-> "HandleRtcp", d |-> d], [h |-> h, at |-> 1], n, f)
                /\ HandleRtcp(h, d) = f[n].h
<1> DEFINE l == [of |-> "HandleRtcp", d |-> d]
           z == [h |-> h, at |-> 1]
           T(s, i) == SubPacketAt(s, d)
           P(f) == f = [i \in 0 .. n |->
                          IF i = 0 THEN z
                          ELSE LET s == f[i - 1]
                               IN  IF s = z THEN T(z, i) ELSE T(s, i)]
           g == CHOOSE f : P(f)
<1>1. \A s, i : Turn(l, s, i) = T(s, i) BY DEF Turn
<1>2. HandleRtcp(h, d) = g[n].h BY ZenonT(60) DEF HandleRtcp, Iterate
<1> HIDE DEF l, z, T
<1>3. \A f : P(f) <=> Turns(l, z, n, f) BY <1>1 DEF Turns
<1> HIDE DEF P
<1>4. PICK f : Turns(l, z, n, f) BY TurnsExist
<1>5. P(f) BY <1>3, <1>4
<1>6. P(g) BY <1>5
<1>7. Turns(l, z, n, g) BY <1>3, <1>6
<1> QED BY <1>2, <1>7 DEF l, z

\* One turn over a sub-packet that is complete.
Told(p, g) == IF IsReport(p) THEN [last_sr |-> ReportOf(p), has_sr |-> TRUE] ELSE g

LEMMA TurnTakes ==
  ASSUME NEW p, NEW s, Written(s, p), NEW d, NEW a \in Nat, Len(d) \in Nat,
         a + Len(s) <= Len(d), \A i \in 1 .. Len(s) : d[a + i] = s[i], NEW g
  PROVE  SubPacketAt([h |-> g, at |-> a + 1], d) = [h |-> Told(p, g), at |-> a + Len(s) + 1]
<1> DEFINE k == Len(p.words)
           y == [h |-> g, at |-> a + 1]
           halves == 2 * (d[y.at + 1] + 1)
           isSr == Low8(d[y.at]) = 200 /\ halves >= 14
           q == [last_sr |-> SenderReport(d, y.at), has_sr |-> TRUE]
<1>1. /\ k \in Nat /\ Len(s) = 2 + 2 * k /\ Version(s[1]) = 2 /\ Low8(s[1]) = p.type
      /\ s[2] = k /\ \A i \in 1..k : <<s[2 * i + 1], s[2 * i + 2]>> = p.words[i]
  BY DEF Written
<1>2. y.at = a + 1 /\ y.h = g OBVIOUS
<1>3. SubPacketAt(y, d) =
        IF y.at + 1 > Len(d) THEN y
        ELSE IF Version(d[y.at]) # 2 \/ y.at + halves - 1 > Len(d) THEN y
        ELSE [at |-> y.at + halves, h |-> IF isSr THEN q ELSE y.h]
  BY DEF SubPacketAt
<1> HIDE DEF k, y
<1>4. d[y.at] = s[1] /\ d[y.at + 1] = k
  <2>1. 1 \in 1 .. Len(s) /\ 2 \in 1 .. Len(s) /\ (a + 1) + 1 = a + 2 BY <1>1
  <2>2. d[a + 1] = s[1] /\ d[a + 2] = s[2] BY <2>1
  <2> QED BY <1>1, <1>2, <2>1, <2>2
<1>5. halves = 2 + 2 * k BY <1>1, <1>4
<1>6. Version(d[y.at]) = 2 /\ Low8(d[y.at]) = p.type BY <1>1, <1>4
<1>7. ~(y.at + 1 > Len(d)) /\ ~(y.at + halves - 1 > Len(d)) /\ y.at + halves = a + Len(s) + 1
  <2> HIDE DEF halves
  <2> QED BY <1>1, <1>2, <1>5
<1>8. isSr = IsReport(p)
  <2>1. (halves >= 14) = (k >= 6)
    <3> HIDE DEF halves
    <3> QED BY <1>1, <1>5
  <2> HIDE DEF halves
  <2> QED BY <1>6, <2>1 DEF IsReport, k
<1> HIDE DEF halves, isSr
<1>9. IsReport(p) => SenderReport(d, y.at) = ReportOf(p)
  <2> SUFFICES ASSUME IsReport(p) PROVE SenderReport(d, y.at) = ReportOf(p) OBVIOUS
  <2>1. k >= 6 BY DEF IsReport, k
  <2>2. ASSUME NEW i \in 1..4 PROVE Word(d, y.at + 2 * i) = p.words[i]
    <3>1. i \in 1..k /\ 2 * i + 1 \in 1 .. Len(s) /\ 2 * i + 2 \in 1 .. Len(s)
      <4>1. k \in Nat /\ Len(s) = 2 + 2 * k BY <1>1
      <4>2. i \in Nat /\ 1 <= i /\ i <= 4 OBVIOUS
      <4> QED BY ONLY <2>1, <4>1, <4>2
    <3>2. y.at + 2 * i = a + (2 * i + 1) /\ (y.at + 2 * i) + 1 = a + (2 * i + 2) BY <1>2
    <3>3. d[a + (2 * i + 1)] = s[2 * i + 1] /\ d[a + (2 * i + 2)] = s[2 * i + 2] BY <3>1
    <3>4. <<s[2 * i + 1], s[2 * i + 2]>> = p.words[i] BY <1>1, <3>1
    <3>5. Word(d, y.at + 2 * i) = <<d[y.at + 2 * i], d[(y.at + 2 * i) + 1]>> BY DEF Word
    <3> QED BY <3>2, <3>3, <3>4, <3>5
  <2>3. 2 * 1 = 2 /\ 2 * 2 = 4 /\ 2 * 3 = 6 /\ 2 * 4 = 8 OBVIOUS
  <2>4. /\ Word(d, y.at + 2) = p.words[1] /\ Word(d, y.at + 4) = p.words[2]
        /\ Word(d, y.at + 6) = p.words[3] /\ Word(d, y.at + 8) = p.words[4]
    BY <2>2, <2>3
  <2> QED BY ONLY <2>4 DEF SenderReport, ReportOf
<1>10. SubPacketAt(y, d) = [at |-> y.at + halves, h |-> IF isSr THEN q ELSE y.h]
  <2> HIDE DEF q
  <2> QED BY <1>3, <1>6, <1>7
<1>11. (IF isSr THEN q ELSE y.h) = Told(p, g) BY <1>2, <1>8, <1>9 DEF Told
<1> HIDE DEF q
<1>12. SubPacketAt(y, d) = [at |-> a + Len(s) + 1, h |-> Told(p, g)] BY <1>7, <1>10, <1>11
<1> QED BY <1>12 DEF y

\* No turn changes anything at the end, or over a sub-packet that is cut.
LEMMA TurnEnds ==
  ASSUME NEW d, NEW a \in Nat, Len(d) \in Nat, a >= Len(d), NEW g
  PROVE  SubPacketAt([h |-> g, at |-> a + 1], d) = [h |-> g, at |-> a + 1]
<1> DEFINE y == [h |-> g, at |-> a + 1]
<1>1. y.at + 1 > Len(d) OBVIOUS
<1> HIDE DEF y
<1>2. SubPacketAt(y, d) = y BY <1>1 DEF SubPacketAt
<1> QED BY <1>2 DEF y

LEMMA TurnStays ==
  ASSUME NEW p, NEW s, Written(s, p), NEW d, NEW a \in Nat, Len(d) \in Nat,
         Len(d) < a + Len(s), \A i \in 1 .. Len(s) : a + i <= Len(d) => d[a + i] = s[i], NEW g
  PROVE  SubPacketAt([h |-> g, at |-> a + 1], d) = [h |-> g, at |-> a + 1]
<1> DEFINE k == Len(p.words)
           y == [h |-> g, at |-> a + 1]
           halves == 2 * (d[y.at + 1] + 1)
<1>1. k \in Nat /\ Len(s) = 2 + 2 * k /\ s[2] = k BY DEF Written
<1>2. y.at = a + 1 OBVIOUS
<1> HIDE DEF k, y
<1>3. CASE y.at + 1 > Len(d) BY <1>3 DEF SubPacketAt, y
<1>4. CASE ~(y.at + 1 > Len(d))
  <2>1. 2 \in 1 .. Len(s) /\ a + 2 <= Len(d) /\ y.at + 1 = a + 2 BY <1>1, <1>2, <1>4
  <2>2. d[y.at + 1] = k BY <1>1, <2>1
  <2>3. halves = 2 + 2 * k BY <1>1, <2>2
  <2> HIDE DEF halves
  <2>4. y.at + halves - 1 > Len(d) BY <1>1, <1>2, <2>3
  <2>5. SubPacketAt(y, d) = y BY <1>4, <2>4 DEF SubPacketAt, halves
  <2> QED BY <2>5 DEF y
<1> QED BY <1>3, <1>4

\* The fronts of a datagram: each lies in the longer ones.
LEMMA FrontsLie ==
  ASSUME NEW ps, WellFormedCompound(ps), NEW F, F = Fronts(ps), NEW n \in Nat, n = Len(ps)
  PROVE  /\ F[0] = <<>>
         /\ \A k \in 0..n : F[k] \in Seq(Half) /\ 2 * k <= Len(F[k])
         /\ \A k \in 1..n : /\ Written(SubPacket(ps[k]), ps[k])
                            /\ Behind(F[k], F[k - 1], SubPacket(ps[k]))
<1>1. Turns([of |-> "Fronts", ps |-> ps], <<>>, n, F) BY FrontsTurn
<1>2. F[0] = <<>> /\ \A k \in 1..n : F[k] = F[k - 1] \o SubPacket(ps[k])
  <2> DEFINE l == [of |-> "Fronts", ps |-> ps]
  <2>1. \A s, i : Turn(l, s, i) = s \o SubPacket(ps[i]) BY DEF Turn
  <2> HIDE DEF l
  <2>2. Turns(l, <<>>, n, F) BY <1>1 DEF l
  <2>3. ASSUME NEW k \in 1..n PROVE F[k] = Turn(l, F[k - 1], k) BY <2>2 DEF Turns
  <2>4. F[0] = <<>> BY <2>2 DEF Turns
  <2> QED BY <2>1, <2>3, <2>4
<1>3. ASSUME NEW k \in 1..n PROVE Written(SubPacket(ps[k]), ps[k])
  <2>1. k \in DOMAIN ps BY DEF WellFormedCompound
  <2>2. Len(ps[k].words) <= Max16 BY <2>1 DEF WellFormedCompound
  <2>3. ps[k] \in [type : 0..255, count : 0..31, words : Seq(Word32)]
    BY ElementOfSeq DEF WellFormedCompound
  <2> QED BY <2>2, <2>3, SubPacketIs
<1> DEFINE S == {k \in Nat : k <= n => F[k] \in Seq(Half) /\ 2 * k <= Len(F[k])}
<1>4. 0 \in S
  <2>1. <<>> \in Seq(Half) /\ Len(<<>>) = 0 BY EmptySeq
  <2>2. F[0] \in Seq(Half) /\ 2 * 0 <= Len(F[0])
    <3>1. F[0] \in Seq(Half) /\ Len(F[0]) = 0 BY <1>2, <2>1
    <3> QED BY <3>1
  <2> QED BY <2>2
<1>5. ASSUME NEW k \in Nat, k \in S PROVE k + 1 \in S
  <2> SUFFICES ASSUME k + 1 <= n PROVE F[k + 1] \in Seq(Half) /\ 2 * (k + 1) <= Len(F[k + 1])
    OBVIOUS
  <2> DEFINE s == SubPacket(ps[k + 1])
             f == F[k]
  <2>1. f \in Seq(Half) /\ 2 * k <= Len(f) BY <1>5
  <2>2. k + 1 \in 1..n /\ (k + 1) - 1 = k OBVIOUS
  <2>3. F[k + 1] = f \o s BY <1>2, <2>2
  <2>4. s \in Seq(Half) /\ Len(s) \in Nat /\ 2 <= Len(s) BY <1>3, <2>2 DEF Written
  <2> HIDE DEF f, s
  <2>5. Behind(f \o s, f, s) BY <2>1, <2>4, Appended
  <2>6. f \o s \in Seq(Half) /\ Len(f \o s) = Len(f) + Len(s) BY <2>5 DEF Behind
  <2>7. Len(f) \in Nat BY <2>1, LenProperties
  <2> QED BY <2>1, <2>3, <2>4, <2>6, <2>7
<1> HIDE DEF S
<1>6. ASSUME NEW k \in 0..n PROVE F[k] \in Seq(Half) /\ 2 * k <= Len(F[k])
  <2>1. Nat \subseteq S BY <1>4, <1>5, SetInduction
  <2>2. k \in S BY <2>1
  <2> QED BY <2>2 DEF S
<1>7. ASSUME NEW k \in 1..n PROVE Behind(F[k], F[k - 1], SubPacket(ps[k]))
  <2>1. k - 1 \in 0..n OBVIOUS
  <2>2. F[k - 1] \in Seq(Half) /\ SubPacket(ps[k]) \in Seq(Half) BY <1>3, <1>6, <2>1 DEF Written
  <2> QED BY <1>2, <2>2, Appended
<1> QED BY <1>2, <1>3, <1>6, <1>7

Grown(F, k, j) ==
  /\ Len(F[k]) \in Nat /\ Len(F[k]) <= Len(F[j])
  /\ \A i \in 1 .. Len(F[k]) : F[j][i] = F[k][i]

LEMMA FrontsGrow ==
  ASSUME NEW ps, WellFormedCompound(ps), NEW F, F = Fronts(ps), NEW n \in Nat, n = Len(ps),
         NEW k \in 0..n, NEW j \in k..n
  PROVE  Grown(F, k, j)
<1>1. /\ \A m \in 0..n : F[m] \in Seq(Half)
      /\ \A m \in 1..n : Behind(F[m], F[m - 1], SubPacket(ps[m]))
      /\ \A m \in 1..n : Written(SubPacket(ps[m]), ps[m])
  BY FrontsLie
<1>2. \A m \in 0..n : Len(F[m]) \in Nat BY <1>1, LenProperties
<1> DEFINE In(m) == /\ Len(F[k]) <= Len(F[m])
                    /\ \A i \in 1 .. Len(F[k]) : F[m][i] = F[k][i]
           S == {m \in Nat : m \in k..n => In(m)}
<1>3. 0 \in S
  <2>1. ASSUME 0 \in k..n PROVE In(0)
    <3>1. k = 0 BY <2>1
    <3>2. Len(F[0]) <= Len(F[0]) BY <1>2
    <3> QED BY <3>1, <3>2
  <2> HIDE DEF In
  <2> QED BY <2>1
<1>4. ASSUME NEW m \in Nat, m \in S PROVE m + 1 \in S
  <2> SUFFICES ASSUME m + 1 \in k..n PROVE In(m + 1) OBVIOUS
  <2>1. CASE m + 1 = k BY <1>2, <2>1
  <2>2. CASE m + 1 # k
    <3>1. m \in k..n /\ m + 1 \in 1..n /\ (m + 1) - 1 = m /\ m \in 0..n BY <2>2
    <3>2. In(m) BY <1>4, <3>1
    <3> DEFINE s == SubPacket(ps[m + 1])
               f == F[m]
               g == F[m + 1]
    <3>3. Behind(g, f, s) BY <1>1, <3>1
    <3>4. Len(s) \in Nat BY <1>1, <3>1, LenProperties DEF Written
    <3>5. Len(f) \in Nat /\ Len(F[k]) \in Nat BY <1>2, <3>1
    <3>6. Len(F[k]) <= Len(f) /\ \A i \in 1 .. Len(F[k]) : f[i] = F[k][i] BY <3>2
    <3> HIDE DEF f, g, s
    <3>7. Len(g) = Len(f) + Len(s) /\ \A i \in 1 .. Len(f) : g[i] = f[i] BY <3>3 DEF Behind
    <3>8. Len(F[k]) <= Len(g) BY <3>4, <3>5, <3>6, <3>7
    <3>9. ASSUME NEW i \in 1 .. Len(F[k]) PROVE g[i] = F[k][i]
      <4>1. i \in 1 .. Len(f) BY <3>5, <3>6
      <4> QED BY <3>6, <3>7, <4>1
    <3> QED BY <3>8, <3>9 DEF g
  <2> QED BY <2>1, <2>2
<1> HIDE DEF S
<1>5. j \in S BY <1>3, <1>4, SetInduction
<1>6. In(j) BY <1>5 DEF S
<1>7. Len(F[k]) \in Nat BY <1>2
<1> QED BY <1>6, <1>7 DEF Grown

\* What is known behind the first k sub-packets: the last report among them.
Heard(ps, k, h, g) ==
  LET reports == {i \in 1..k : IsReport(ps[i])}
  IN  /\ reports = {} => g = h
      /\ \A i \in reports : (\A m \in reports : m <= i) =>
            g = [last_sr |-> ReportOf(ps[i]), has_sr |-> TRUE]

LEMMA HeardMore ==
  ASSUME NEW ps, NEW k \in Nat, NEW h, NEW g, Heard(ps, k, h, g)
  PROVE  Heard(ps, k + 1, h, Told(ps[k + 1], g))
<1> DEFINE A == {i \in 1..k : IsReport(ps[i])}
           B == {i \in 1..(k + 1) : IsReport(ps[i])}
           x == Told(ps[k + 1], g)
           R(i) == [last_sr |-> ReportOf(ps[i]), has_sr |-> TRUE]
<1>1. /\ A = {} => g = h
      /\ \A i \in A : (\A m \in A : m <= i) => g = R(i)
  BY DEF Heard
<1> HIDE DEF R
<1>2. CASE IsReport(ps[k + 1])
  <2>1. x = R(k + 1) BY <1>2 DEF Told, R
  <2>2. k + 1 \in B BY <1>2
  <2>3. \A i \in B : (\A m \in B : m <= i) => i = k + 1 BY <2>2
  <2> HIDE DEF x, B
  <2>4. /\ B = {} => x = h
        /\ \A i \in B : (\A m \in B : m <= i) => x = R(i)
    BY <2>1, <2>2, <2>3
  <2> QED BY <2>4 DEF Heard, x, B, R
<1>3. CASE ~IsReport(ps[k + 1])
  <2>1. x = g BY <1>3 DEF Told
  <2>2. A = B
    <3>1. \A i : i \in 1..(k + 1) <=> i \in 1..k \/ i = k + 1 OBVIOUS
    <3> QED BY <1>3, <3>1
  <2> HIDE DEF x, A
  <2>3. /\ A = {} => x = h
        /\ \A i \in A : (\A m \in A : m <= i) => x = R(i)
    BY <1>1, <2>1
  <2> QED BY <2>2, <2>3 DEF Heard, x, R
<1> QED BY <1>2, <1>3

\* A sender's report is found wherever it stands in its datagram, the last of
\* several counts, and what is cut off says nothing: what a receiver knows after
\* the first n halves of any sub-packets (rtcp.cpp, handle_packet).
THEOREM ReportsUnderstood ==
  ASSUME NEW ps, WellFormedCompound(ps), NEW n \in 1 .. Len(Compound(ps)), NEW h
  PROVE  ReportsAgree(ps, n, h, HandleRtcp(h, SubSeq(Compound(ps), 1, n)))
<1> DEFINE N == Len(ps)
           F == Fronts(ps)
           d == SubSeq(F[N], 1, n)
           t == n \div 2
           S(k) == SubPacket(ps[k])
           At(k, g) == [h |-> g, at |-> Len(F[k]) + 1]
           Ended(k) == k = N \/ n < Len(F[k + 1])
           Stands(i, z) == \E k \in 0..N : /\ z = At(k, z.h) /\ Len(F[k]) <= n
                                           /\ Heard(ps, k, h, z.h)
                                           /\ k = i \/ Ended(k)
<1>1. N \in Nat BY LenProperties DEF WellFormedCompound
<1>2. /\ F[0] = <<>>
      /\ \A k \in 0..N : F[k] \in Seq(Half) /\ 2 * k <= Len(F[k])
      /\ \A k \in 1..N : Written(S(k), ps[k]) /\ Behind(F[k], F[k - 1], S(k))
  BY <1>1, FrontsLie
<1>3. \A k \in 0..N : \A j \in k..N : /\ Len(F[k]) \in Nat /\ Len(F[k]) <= Len(F[j])
                                      /\ \A i \in 1 .. Len(F[k]) : F[j][i] = F[k][i]
  <2> TAKE k \in 0..N
  <2> TAKE j \in k..N
  <2> HIDE DEF N, F
  <2>1. N = Len(ps) /\ F = Fronts(ps) BY DEF N, F
  <2>2. Grown(F, k, j) BY <1>1, <2>1, FrontsGrow
  <2> QED BY <2>2 DEF Grown
<1>4. Compound(ps) = F[N] BY DEF Compound
<1> HIDE DEF N, F, S
<1>5. n \in 1 .. Len(F[N]) /\ F[N] \in Seq(Half) /\ n \in Nat
  <2>1. N \in 0..N BY <1>1
  <2>2. Len(F[N]) \in Nat BY <1>3, <2>1, <1>1
  <2> QED BY <1>2, <1>4, <2>1, <2>2
<1>6. d \in Seq(Half) /\ Len(d) = n /\ \A i \in 1..n : d[i] = F[N][i] BY <1>5, CutPacket
<1> HIDE DEF d
<1>7. t \in Nat BY <1>5
<1> HIDE DEF t
<1>8. PICK f : /\ Turns([of |-> "HandleRtcp", d |-> d], [h |-> h, at |-> 1], t, f)
               /\ HandleRtcp(h, d) = f[t].h
  BY <1>6, <1>7, HandleTurns DEF t
<1>9. f[0] = [h |-> h, at |-> 1] /\ \A i \in 1..t : f[i] = SubPacketAt(f[i - 1], d)
  <2> DEFINE l == [of |-> "HandleRtcp", d |-> d]
             z == [h |-> h, at |-> 1]
  <2>1. \A s, i : Turn(l, s, i) = SubPacketAt(s, d) BY DEF Turn
  <2>2. Turns(l, z, t, f) BY <1>8
  <2> HIDE DEF l, z
  <2>3. f[0] = z /\ \A i \in 1..t : f[i] = Turn(l, f[i - 1], i) BY <1>7, <2>2 DEF Turns
  <2> QED BY <2>1, <2>3 DEF z
<1>10. Stands(0, f[0])
  <2>1. Len(F[0]) = 0 BY <1>2
  <2>2. f[0] = At(0, h) BY <1>9, <2>1
  <2>3. Heard(ps, 0, h, h) BY DEF Heard
  <2>4. 0 \in 0..N /\ Len(F[0]) <= n BY <1>1, <1>5, <2>1
  <2>5. f[0].h = h BY <1>9
  <2> HIDE DEF At, Ended
  <2> QED BY <2>2, <2>3, <2>4, <2>5
\* One turn: over a sub-packet that is complete, or none.
<1>11. ASSUME NEW k \in 0..N, Len(F[k]) <= n, NEW g
       PROVE  /\ Ended(k) => SubPacketAt(At(k, g), d) = At(k, g)
              /\ ~Ended(k) => /\ k + 1 \in 0..N /\ Len(F[k + 1]) <= n
                              /\ SubPacketAt(At(k, g), d) = At(k + 1, Told(ps[k + 1], g))
  <2> DEFINE a == Len(F[k])
  <2>1. a \in Nat /\ k \in k..N BY <1>1, <1>3
  <2>2. ASSUME k # N
        PROVE  /\ k + 1 \in 1..N /\ Written(S(k + 1), ps[k + 1]) /\ Len(F[k + 1]) = a + Len(S(k + 1))
               /\ Len(S(k + 1)) \in Nat
               /\ \A i \in 1 .. Len(S(k + 1)) : a + i <= n => d[a + i] = S(k + 1)[i]
    <3> DEFINE s == S(k + 1)
               b == F[k + 1]
    <3>1. k + 1 \in 1..N /\ k + 1 \in 0..N /\ (k + 1) - 1 = k /\ N \in (k + 1)..N BY <1>1, <2>2
    <3>2. Written(s, ps[k + 1]) /\ Behind(b, F[k], s) BY <1>2, <3>1
    <3>3. Len(b) \in Nat /\ \A i \in 1 .. Len(b) : F[N][i] = b[i] BY <1>3, <3>1
    <3>4. Len(s) \in Nat BY <3>2, LenProperties DEF Written
    <3> HIDE DEF s, b
    <3>5. Len(b) = a + Len(s) /\ \A i \in 1 .. Len(s) : b[a + i] = s[i] BY <3>2 DEF Behind
    <3>6. ASSUME NEW i \in 1 .. Len(s), a + i <= n PROVE d[a + i] = s[i]
      <4>1. a + i \in 1..n /\ a + i \in 1 .. Len(b) BY <1>5, <2>1, <3>4, <3>5, <3>6
      <4> QED BY <1>6, <3>3, <3>5, <4>1
    <3> QED BY <3>1, <3>2, <3>4, <3>5, <3>6 DEF s, b
  <2> HIDE DEF a
  <2>3. At(k, g) = [h |-> g, at |-> a + 1] BY DEF a
  <2>4. a <= n BY <1>11 DEF a
  <2>5. ASSUME k = N PROVE SubPacketAt([h |-> g, at |-> a + 1], d) = [h |-> g, at |-> a + 1]
    <3>1. Len(d) \in Nat /\ Len(d) = n BY <1>5, <1>6
    <3>2. a >= Len(d) /\ a \in Nat BY <1>5, <2>1, <2>4, <2>5, <3>1 DEF a
    <3> QED BY <3>1, <3>2, TurnEnds
  <2>6. ASSUME k # N, n < Len(F[k + 1])
        PROVE  SubPacketAt([h |-> g, at |-> a + 1], d) = [h |-> g, at |-> a + 1]
    <3> DEFINE s == S(k + 1)
               p == ps[k + 1]
    <3>1. Written(s, p) /\ n < a + Len(s) BY <2>2, <2>6
    <3>2. \A i \in 1 .. Len(s) : a + i <= n => d[a + i] = s[i] BY <2>2, <2>6
    <3> HIDE DEF s, p
    <3>3. Len(d) = n /\ Len(d) \in Nat BY <1>5, <1>6
    <3>4. Len(d) < a + Len(s) /\ \A i \in 1 .. Len(s) : a + i <= Len(d) => d[a + i] = s[i]
      BY <3>1, <3>2, <3>3
    <3> QED BY <2>1, <3>1, <3>3, <3>4, TurnStays
  <2>7. ASSUME k # N, ~(n < Len(F[k + 1]))
        PROVE  /\ k + 1 \in 0..N /\ Len(F[k + 1]) <= n
               /\ SubPacketAt([h |-> g, at |-> a + 1], d) = At(k + 1, Told(ps[k + 1], g))
    <3> DEFINE s == S(k + 1)
    <3>1. /\ k + 1 \in 1..N /\ Written(s, ps[k + 1]) /\ Len(F[k + 1]) = a + Len(s)
          /\ Len(s) \in Nat
          /\ \A i \in 1 .. Len(s) : a + i <= n => d[a + i] = s[i]
      BY <2>2, <2>7
    <3> HIDE DEF s
    <3>2. a + Len(s) <= n /\ Len(F[k + 1]) <= n BY <1>5, <2>1, <2>7, <3>1
    <3>3. ASSUME NEW i \in 1 .. Len(s) PROVE d[a + i] = s[i]
      <4>1. a + i <= n BY <1>5, <2>1, <3>1, <3>2
      <4> QED BY <3>1, <4>1
    <3>4. SubPacketAt([h |-> g, at |-> a + 1], d)
          = [h |-> Told(ps[k + 1], g), at |-> a + Len(s) + 1]
      BY <1>5, <1>6, <2>1, <3>1, <3>2, <3>3, TurnTakes
    <3>5. k + 1 \in 0..N BY <3>1
    <3> QED BY <3>1, <3>2, <3>4, <3>5
  <2> HIDE DEF At
  <2> QED BY <2>3, <2>5, <2>6, <2>7
<1> HIDE DEF At
<1>12. ASSUME NEW i \in Nat, i + 1 <= t, Stands(i, f[i]) PROVE Stands(i + 1, f[i + 1])
  <2> DEFINE g == f[i].h
  <2>1. PICK k \in 0..N : /\ f[i] = At(k, g) /\ Len(F[k]) <= n /\ Heard(ps, k, h, g)
                          /\ k = i \/ Ended(k)
    <3> HIDE DEF Ended
    <3> QED BY <1>12
  <2> HIDE DEF g
  <2>2. i + 1 \in 1..t /\ (i + 1) - 1 = i BY <1>7, <1>12
  <2>3. f[i + 1] = SubPacketAt(At(k, g), d) BY <1>9, <2>1, <2>2
  <2> HIDE DEF Ended
  <2>4. CASE Ended(k)
    <3>1. f[i + 1] = At(k, g) BY <1>11, <2>1, <2>3, <2>4
    <3>2. f[i + 1].h = g BY <3>1 DEF At
    <3> QED BY <2>1, <2>4, <3>1, <3>2
  <2>5. CASE ~Ended(k)
    <3>1. /\ k + 1 \in 0..N /\ Len(F[k + 1]) <= n
          /\ f[i + 1] = At(k + 1, Told(ps[k + 1], g))
      BY <1>11, <2>1, <2>3, <2>5
    <3>2. k \in Nat BY <1>1
    <3>3. Heard(ps, k + 1, h, Told(ps[k + 1], g)) BY <2>1, <3>2, HeardMore
    <3>4. k + 1 = i + 1 BY <2>1, <2>5
    <3>5. f[i + 1].h = Told(ps[k + 1], g) BY <3>1 DEF At
    <3> QED BY <3>1, <3>3, <3>4, <3>5
  <2> QED BY <2>4, <2>5
<1>13. Stands(t, f[t])
  <2> DEFINE T == {i \in Nat : i <= t => Stands(i, f[i])}
  <2> HIDE DEF Stands
  <2>1. 0 \in T BY <1>10
  <2>2. ASSUME NEW i \in Nat, i \in T PROVE i + 1 \in T
    <3>1. ASSUME i + 1 <= t PROVE Stands(i + 1, f[i + 1])
      <4>1. i <= t BY <1>7, <3>1
      <4> QED BY <1>12, <2>2, <3>1, <4>1
    <3> QED BY <3>1
  <2> HIDE DEF T
  <2>3. t \in T BY <1>7, <2>1, <2>2, SetInduction
  <2> QED BY <1>7, <2>3 DEF T
<1> DEFINE g == f[t].h
<1>14. PICK k \in 0..N : /\ Len(F[k]) <= n /\ Heard(ps, k, h, g)
                         /\ k = t \/ Ended(k)
  <2> HIDE DEF Ended
  <2> QED BY <1>13
<1>15. Ended(k)
  <2> SUFFICES ASSUME k = t, k # N, ~(n < Len(F[k + 1])) PROVE FALSE BY <1>14
  <2>1. k + 1 \in 0..N /\ k \in Nat BY <1>1
  <2>2. 2 * (k + 1) <= Len(F[k + 1]) /\ Len(F[k + 1]) \in Nat
    <3>1. k + 1 \in (k + 1)..N BY <2>1
    <3> QED BY <1>2, <1>3, <2>1, <3>1
  <2>3. n < 2 * (t + 1) BY <1>5 DEF t
  <2> QED BY <1>5, <1>7, <2>1, <2>2, <2>3
<1>16. HandleRtcp(h, d) = g BY <1>8
<1>17. Reports(ps, n) = {i \in 1..k : IsReport(ps[i])}
  <2>1. DOMAIN ps = 1..N BY <1>1 DEF WellFormedCompound, N
  <2>2. Reports(ps, n) = {i \in 1..N : IsReport(ps[i]) /\ Len(F[i]) <= n}
    BY <2>1 DEF Reports, F
  <2>3. ASSUME NEW i \in 1..N PROVE Len(F[i]) <= n <=> i <= k
    <3>1. i \in 0..N /\ k \in 0..N /\ i \in Nat /\ k \in Nat BY <1>1
    <3>2. ASSUME i <= k PROVE Len(F[i]) <= n
      <4>1. k \in i..N /\ i \in i..N /\ k \in k..N BY <1>1, <3>1, <3>2
      <4>2. Len(F[i]) <= Len(F[k]) /\ Len(F[i]) \in Nat /\ Len(F[k]) \in Nat
        BY <1>3, <3>1, <4>1
      <4> QED BY <1>5, <1>14, <4>2
    <3>3. ASSUME ~(i <= k) PROVE ~(Len(F[i]) <= n)
      <4>1. k # N /\ k + 1 \in 0..N /\ i \in (k + 1)..N /\ i \in i..N /\ k + 1 \in (k + 1)..N
        BY <1>1, <3>1, <3>3
      <4>2. n < Len(F[k + 1]) BY <1>15, <4>1
      <4>3. Len(F[k + 1]) <= Len(F[i]) /\ Len(F[i]) \in Nat /\ Len(F[k + 1]) \in Nat
        BY <1>3, <3>1, <4>1
      <4> QED BY <1>5, <4>2, <4>3
    <3> QED BY <3>2, <3>3
  <2>4. \A i : i \in 1..k <=> i \in 1..N /\ i <= k BY <1>1
  <2> QED BY <2>2, <2>3, <2>4
<1>18. ReportsAgree(ps, n, h, g) BY <1>14, <1>17, Zenon DEF ReportsAgree, Heard
<1> QED BY <1>4, <1>16, <1>18 DEF d

=============================================================================
