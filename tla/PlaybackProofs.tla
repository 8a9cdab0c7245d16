--------------------------- MODULE PlaybackProofs ---------------------------
(***************************************************************************)
(* What is proved of the ring of PCM alone (AudioBuffer), and behind it of *)
(* the player that uses it (Playback).                                     *)
(***************************************************************************)
EXTENDS Playback, TLAPS

(* Offsets go round the array less than four times in one operation.       *)
LEMMA Wrap ==
    ASSUME NEW C \in Nat, C > 0, NEW x \in Nat, x < 4 * C
    PROVE  x % C = IF x < C THEN x ELSE IF x < 2 * C THEN x - C
                   ELSE IF x < 3 * C THEN x - 2 * C ELSE x - 3 * C
OBVIOUS

LEMMA WrapSum ==
    ASSUME NEW C \in Nat, C > 0, NEW x \in Nat, NEW y \in Nat, x + y < 3 * C
    PROVE  (x + y) % C = IF x + y < C THEN x + y
                         ELSE IF x + y < 2 * C THEN x + y - C ELSE x + y - 2 * C
<1> DEFINE z == x + y
<1>1. z \in Nat /\ z < 4 * C /\ z < 3 * C
  OBVIOUS
<1> HIDE DEF z
<1>2. z % C = IF z < C THEN z ELSE IF z < 2 * C THEN z - C ELSE z - 2 * C
  BY <1>1, Wrap
<1>3. QED
  BY <1>2 DEF z

LEMMA WholeFrames ==
    ASSUME NEW b \in Nat, b > 0, NEW k \in Nat, NEW r \in 0 .. b - 1
    PROVE  (k * b + r) \div b = k
OBVIOUS

LEMMA RoundDown ==
    ASSUME NEW b \in Nat, b > 0, NEW x \in Nat
    PROVE  /\ x \div b \in Nat
           /\ (x \div b) * b <= x
OBVIOUS

LEMMA TimesMono ==
    ASSUME NEW a \in Nat, NEW c \in Nat, NEW b \in Nat, a <= c
    PROVE  a * b \in Nat /\ a * b <= c * b
OBVIOUS
(* Multiples of a frame: what adding, subtracting and rounding do to them. *)

LEMMA AlignedMul ==
    ASSUME NEW b \in Nat, b > 0, NEW k \in Nat
    PROVE  (k * b) % b = 0
OBVIOUS

LEMMA AlignedIs ==
    ASSUME NEW b \in Nat, b > 0, NEW x \in Nat, x % b = 0
    PROVE  \E k \in Nat : x = k * b
<1>1. x = (x \div b) * b /\ x \div b \in Nat
  OBVIOUS
<1>2. QED
  BY <1>1

LEMMA AlignedSum ==
    ASSUME NEW b \in Nat, b > 0, NEW x \in Nat, NEW y \in Nat, x % b = 0, y % b = 0
    PROVE  (x + y) % b = 0 /\ (x >= y => (x - y) % b = 0)
<1>1. PICK p \in Nat : x = p * b
  BY AlignedIs
<1>2. PICK q \in Nat : y = q * b
  BY AlignedIs
<1>3. x + y = (p + q) * b
  BY <1>1, <1>2
<1>4. (x + y) % b = 0
  <2>1. p + q \in Nat
    OBVIOUS
  <2>2. ((p + q) * b) % b = 0
    BY <2>1, AlignedMul
  <2>3. QED
    BY <1>3, <2>2
<1>5. ASSUME x >= y PROVE (x - y) % b = 0
  <2>1. p >= q
    <3>1. CASE p < q
      <4>1. (p + 1) * b <= q * b
        BY <3>1, TimesMono
      <4>2. (p + 1) * b = p * b + b
        OBVIOUS
      <4>3. QED
        BY <4>1, <4>2, <1>1, <1>2, <1>5
    <3>2. QED
      BY <3>1
  <2>2. x - y = (p - q) * b /\ p - q \in Nat
    BY <1>1, <1>2, <2>1
  <2>3. QED
    BY <2>2, AlignedMul
<1>6. QED
  BY <1>4, <1>5

LEMMA AlignedUp ==
    ASSUME NEW b \in Nat, b > 0, NEW x \in Nat, x % b = 0
    PROVE  ((x + b - 1) \div b) * b = x
<1>1. PICK p \in Nat : x = p * b
  BY AlignedIs
<1>2. b - 1 \in 0 .. b - 1 /\ x + b - 1 = p * b + (b - 1)
  BY <1>1
<1>3. (p * b + (b - 1)) \div b = p
  BY <1>2, WholeFrames
<1>4. QED
  BY <1>1, <1>2, <1>3

LEMMA AlignedBelow ==
    ASSUME NEW b \in Nat, b > 0, NEW x \in Nat, NEW y \in Nat, x % b = 0, y % b = 0, x < y
    PROVE  x + b <= y
<1>1. PICK p \in Nat : x = p * b
  BY AlignedIs
<1>2. PICK q \in Nat : y = q * b
  BY AlignedIs
<1>3. p < q
  <2>1. CASE q <= p
    BY <2>1, <1>1, <1>2, TimesMono
  <2>2. QED
    BY <2>1
<1>4. (p + 1) * b <= q * b
  BY <1>3, TimesMono
<1>5. (p + 1) * b = p * b + b
  OBVIOUS
<1>6. QED
  BY <1>1, <1>2, <1>4, <1>5
-----------------------------------------------------------------------------
(* A size_t that has gone below zero comes back when as much is added.     *)
LEMMA Unsigned ==
    ASSUME NEW M \in Nat, NEW a \in Nat, NEW s \in Nat, NEW b \in Nat,
           M > 0, a < M, s < M, b < M, s <= a + b, a - s + b < M
    PROVE  (((a - s) % M) + b) % M = a - s + b
OBVIOUS

CapIs ==
    /\ Cap \in Nat /\ bpf \in Nat /\ bpf > 0 /\ bpf <= Cap
    /\ Cap % bpf = 0
    /\ SizeMod \in Nat /\ 4 * (Cap + bpf) < SizeMod

LEMMA Capacity == RingTypeInv => CapIs
<1> SUFFICES ASSUME RingTypeInv PROVE CapIs
  OBVIOUS
<1>1. bpf \in Nat /\ bpf > 0
  BY RingAssumption DEF RingTypeInv
<1>2. Cap \in Nat /\ bpf <= Cap
  <2>1. 1 * bpf <= MaxFrames * bpf /\ MaxFrames * bpf \in Nat
    BY <1>1, RingAssumption, TimesMono
  <2>2. QED
    BY <1>1, <2>1 DEF Cap
<1>3. SizeMod \in Nat /\ 4 * (Cap + bpf) < SizeMod
  BY RingAssumption DEF RingTypeInv, Cap
<1>4. Cap % bpf = 0
  BY <1>1, RingAssumption, AlignedMul DEF Cap
<1>5. QED
  BY <1>1, <1>2, <1>3, <1>4 DEF CapIs

(* write_bytes, whatever the fill and the offsets: the arithmetic.  The    *)
(* rounding up of skip has nothing to do, because the fill and the         *)
(* capacity are whole frames, and the subtraction that goes below zero is  *)
(* made good by the addition.                                              *)
LEMMA WriteArith ==
    ASSUME RingTypeInv, FrameAligned,
           NEW k \in 1 .. MaxWrite, NEW r \in 0 .. bpf - 1, Write(k * bpf + r)
    PROVE  \E bytes \in Nat, skip \in Nat :
              /\ bytes > 0 /\ bytes <= Cap + bpf /\ bytes % bpf = 0 /\ bytes = k * bpf
              /\ skip = IF Cap - used < bytes THEN bytes - (Cap - used) ELSE 0
              /\ skip % bpf = 0
              /\ data' = Copied(wr, bytes)
              /\ rd' = (rd + skip) % Cap
              /\ wr' = (wr + bytes) % Cap
              /\ used' = used - skip + bytes
              /\ total' = total + bytes
              /\ bpf' = bpf
<1> DEFINE bytes == k * bpf
           free  == Cap - used
           need  == bytes - free
<1>1. CapIs
  BY Capacity
<1>2. bpf \in Nat /\ bpf > 0 /\ k \in Nat /\ k >= 1 /\ MaxWrite \in Nat /\ MaxFrames \in Nat
  BY <1>1, RingAssumption DEF CapIs
<1>3. (k * bpf + r) \div bpf = k
  BY <1>2, WholeFrames
<1>4. bytes \in Nat /\ bytes > 0 /\ bytes <= Cap + bpf
  <2>1. bytes \in Nat /\ 1 * bpf <= bytes
    BY <1>2, TimesMono
  <2>2. bytes <= (MaxFrames + 1) * bpf
    BY <1>2, TimesMono, RingAssumption
  <2>3. (MaxFrames + 1) * bpf = Cap + bpf
    BY <1>2 DEF Cap
  <2>4. QED
    BY <1>2, <2>1, <2>2, <2>3
<1>5. bytes % bpf = 0
  BY <1>2, AlignedMul
<1>m. bytes = k * bpf
  OBVIOUS
<1>6. used \in Nat /\ used <= Cap /\ free \in Nat /\ free + used = Cap /\ free % bpf = 0
  <2>1. used \in Nat /\ used <= Cap /\ used % bpf = 0
    BY <1>1 DEF RingTypeInv, FrameAligned, CapIs
  <2>2. (Cap - used) % bpf = 0
    BY <1>1, <2>1, AlignedSum DEF CapIs
  <2>3. QED
    BY <1>1, <2>1, <2>2 DEF CapIs
<1> HIDE DEF bytes, free
<1>7. CASE free < bytes
  <2>1. need \in Nat /\ need % bpf = 0
    <3>1. need \in Nat /\ bytes >= free
      BY <1>4, <1>6, <1>7
    <3>2. (bytes - free) % bpf = 0
      BY <1>2, <1>4, <1>5, <1>6, <3>1, AlignedSum
    <3>3. QED
      BY <3>1, <3>2
  <2>2. ((need + bpf - 1) \div bpf) * bpf = need
    BY <1>2, <2>1, AlignedUp
  <2>3. (((used - need) % SizeMod) + bytes) % SizeMod = used - need + bytes
    <3>1. /\ SizeMod > 0 /\ used < SizeMod /\ need < SizeMod /\ bytes < SizeMod
          /\ need <= used + bytes /\ used - need + bytes < SizeMod
      BY <1>1, <1>2, <1>4, <1>6, <2>1 DEF CapIs
    <3> HIDE DEF need
    <3>2. QED
      BY <1>1, <1>4, <1>6, <2>1, <3>1, Unsigned DEF CapIs
  <2>4. need = bytes - (Cap - used)
    BY DEF free
  <2> HIDE DEF need
  <2>5. /\ data' = Copied(wr, bytes) /\ rd' = (rd + need) % Cap
        /\ wr' = (wr + bytes) % Cap /\ used' = used - need + bytes
        /\ total' = total + bytes /\ bpf' = bpf
    BY <1>3, <1>7, <2>2, <2>3, <2>4 DEF Write, bytes, free
  <2>6. QED
    BY <1>4, <1>5, <1>7, <1>m, <2>1, <2>4, <2>5 DEF free
<1>8. CASE ~(free < bytes)
  <2>1. used + bytes <= Cap
    BY <1>4, <1>6, <1>8
  <2>2. (((used - 0) % SizeMod) + bytes) % SizeMod = used - 0 + bytes
    <3>1. SizeMod > 0 /\ used < SizeMod /\ bytes < SizeMod /\ used - 0 + bytes < SizeMod
      BY <1>1, <1>4, <1>6, <2>1 DEF CapIs
    <3>2. QED
      BY <1>1, <1>4, <1>6, <3>1, Unsigned DEF CapIs
  <2>3. 0 % bpf = 0
    <3>1. (0 * bpf) % bpf = 0
      BY <1>2, AlignedMul
    <3>2. QED
      BY <1>2, <3>1
  <2>4. /\ data' = Copied(wr, bytes) /\ rd' = (rd + 0) % Cap
        /\ wr' = (wr + bytes) % Cap /\ used' = used - 0 + bytes
        /\ total' = total + bytes /\ bpf' = bpf
    BY <1>3, <1>8, <2>2 DEF Write, bytes, free
  <2>5. QED
    BY <1>4, <1>5, <1>8, <1>m, <2>3, <2>4 DEF free
<1>9. QED
  BY <1>7, <1>8

-----------------------------------------------------------------------------
RingIInv == RingTypeInv /\ RingInv /\ FrameAligned

(* An aligned offset moved round the array by whole frames is aligned.     *)
LEMMA AlignedOffset ==
    ASSUME CapIs, NEW x \in Nat, x < 4 * Cap, x % bpf = 0
    PROVE  x % Cap \in 0 .. Cap - 1 /\ (x % Cap) % bpf = 0
<1> DEFINE C == Cap
<1>1. C \in Nat /\ C > 0 /\ C % bpf = 0 /\ bpf \in Nat /\ bpf > 0
  BY DEF CapIs
<1>2. (2 * C) % bpf = 0 /\ (3 * C) % bpf = 0
  <2>1. (C + C) % bpf = 0
    BY <1>1, AlignedSum
  <2>2. 2 * C = C + C /\ C + C \in Nat
    BY <1>1
  <2>3. ((C + C) + C) % bpf = 0
    BY <1>1, <2>1, <2>2, AlignedSum
  <2>4. 3 * C = (C + C) + C
    BY <1>1
  <2>5. QED
    BY <2>1, <2>2, <2>3, <2>4
<1> HIDE DEF C
<1>3. x % C = IF x < C THEN x ELSE IF x < 2 * C THEN x - C
              ELSE IF x < 3 * C THEN x - 2 * C ELSE x - 3 * C
  BY <1>1, Wrap DEF C
<1>4. /\ x >= C => (x - C) % bpf = 0
      /\ x >= 2 * C => (x - 2 * C) % bpf = 0
      /\ x >= 3 * C => (x - 3 * C) % bpf = 0
  <2>1. C \in Nat /\ 2 * C \in Nat /\ 3 * C \in Nat
    BY <1>1
  <2>2. QED
    BY <1>1, <1>2, <2>1, AlignedSum
<1>5. x % C \in 0 .. C - 1
  BY <1>1, <1>3 DEF C
<1>6. (x % C) % bpf = 0
  BY <1>1, <1>3, <1>4
<1>7. QED
  BY <1>5, <1>6 DEF C

LEMMA WriteStep ==
    ASSUME RingIInv,
           NEW k \in 1 .. MaxWrite, NEW r \in 0 .. bpf - 1, Write(k * bpf + r)
    PROVE  RingIInv'
<1> USE DEF RingIInv
<1>1. CapIs
  BY Capacity
<1>2. PICK bytes \in Nat, skip \in Nat :
              /\ bytes > 0 /\ bytes <= Cap + bpf /\ bytes % bpf = 0
              /\ skip = IF Cap - used < bytes THEN bytes - (Cap - used) ELSE 0
              /\ skip % bpf = 0
              /\ data' = Copied(wr, bytes)
              /\ rd' = (rd + skip) % Cap
              /\ wr' = (wr + bytes) % Cap
              /\ used' = used - skip + bytes
              /\ total' = total + bytes
              /\ bpf' = bpf
  BY WriteArith
<1>3. Cap' = Cap
  BY <1>2 DEF Cap
<1>4. /\ Cap \in Nat /\ Cap > 0 /\ bpf \in Nat /\ bpf > 0 /\ bpf <= Cap
      /\ rd \in Nat /\ rd < Cap /\ wr \in Nat /\ wr < Cap /\ used \in Nat /\ used <= Cap
      /\ total \in Nat /\ used <= total
  BY <1>1 DEF CapIs, RingTypeInv, RingInv
<1>5. wr + bpf <= Cap
  BY <1>1, <1>4, AlignedBelow DEF CapIs, FrameAligned
<1> DEFINE C == Cap
           first == IF bytes < C - wr THEN bytes ELSE C - wr
<1>6. data' = [p \in 0 .. C - 1 |->
                  IF p < bytes - first THEN total + first + p
                  ELSE IF p >= wr /\ p < wr + first THEN total + (p - wr)
                  ELSE data[p]]
  BY <1>2 DEF Copied
<1>7. \A j \in 0 .. used - 1 : data[(rd + j) % C] = total - used + j
  BY DEF RingInv
<1>8. wr = (rd + used) % C
  BY DEF RingInv
<1>9. data \in [0 .. C - 1 -> Nat \cup {Blank}]
  BY DEF RingTypeInv
<1>10. /\ wr + bytes <= 2 * C /\ bytes > 0 /\ bytes <= 2 * C
       /\ skip = IF C - used < bytes THEN bytes - (C - used) ELSE 0
       /\ rd' = (rd + skip) % C /\ wr' = (wr + bytes) % C
       /\ used' = used - skip + bytes /\ used' \in Nat /\ used' <= C
       /\ total' = total + bytes
  BY <1>2, <1>4, <1>5
<1> HIDE DEF C
<1>11. C \in Nat /\ C > 0 /\ rd < C /\ wr < C /\ used <= C
  BY <1>4 DEF C
<1>12. skip \in Nat /\ skip <= 2 * C
  BY <1>4, <1>10, <1>11
<1>13. rd' = IF rd + skip < C THEN rd + skip
             ELSE IF rd + skip < 2 * C THEN rd + skip - C ELSE rd + skip - 2 * C
  <2>1. rd + skip < 3 * C
    BY <1>4, <1>11, <1>12
  <2>2. (rd + skip) % C = IF rd + skip < C THEN rd + skip
             ELSE IF rd + skip < 2 * C THEN rd + skip - C ELSE rd + skip - 2 * C
    BY <1>4, <1>11, <1>12, <2>1, WrapSum
  <2>3. QED
    BY <1>10, <2>2
<1>14. wr' = IF wr + bytes < C THEN wr + bytes
             ELSE IF wr + bytes < 2 * C THEN wr + bytes - C ELSE wr + bytes - 2 * C
  <2>1. wr + bytes < 3 * C
    BY <1>4, <1>10, <1>11
  <2>2. (wr + bytes) % C = IF wr + bytes < C THEN wr + bytes
             ELSE IF wr + bytes < 2 * C THEN wr + bytes - C ELSE wr + bytes - 2 * C
    BY <1>4, <1>11, <2>1, WrapSum
  <2>3. QED
    BY <1>10, <2>2
<1>15. wr = IF rd + used < C THEN rd + used ELSE rd + used - C
  BY <1>4, <1>8, <1>11, Wrap
<1>16. rd' \in 0 .. C - 1 /\ wr' \in 0 .. C - 1
  BY <1>4, <1>10, <1>11, <1>12, <1>13, <1>14
<1>17. wr' = (rd' + used') % C
  <2> DEFINE e == rd' + used'
  <2>1. e \in Nat /\ e < 2 * C
    BY <1>10, <1>11, <1>16
  <2>2. wr' = IF e < C THEN e ELSE e - C
    BY <1>4, <1>10, <1>11, <1>12, <1>13, <1>14, <1>15
  <2> HIDE DEF e
  <2>3. e % C = IF e < C THEN e ELSE e - C
    BY <1>11, <2>1, Wrap
  <2>4. QED
    BY <2>2, <2>3 DEF e
<1>18. ASSUME NEW j \in 0 .. used' - 1
       PROVE  data'[(rd' + j) % C] = total' - used' + j
  <2> DEFINE e == rd' + j
             q == e % C
  <2>1. q = IF e < C THEN e ELSE e - C
    <3>1. e \in Nat /\ e < 2 * C
      BY <1>10, <1>11, <1>16
    <3> HIDE DEF e
    <3>2. QED
      BY <1>11, <3>1, Wrap
  <2>2. q \in 0 .. C - 1
    BY <2>1, <1>10, <1>11, <1>16
  <2>3. data'[q] = IF q < bytes - first THEN total + first + q
                   ELSE IF q >= wr /\ q < wr + first THEN total + (q - wr)
                   ELSE data[q]
    BY <1>6, <2>2
  <2>4. q = IF rd' + j < C THEN rd' + j ELSE rd' + j - C
    BY <2>1, <1>10, <1>11, <1>16
  <2> HIDE DEF q
  <2>5. CASE j < used' - bytes
    <3> DEFINE i == skip + j
    <3>1. i \in 0 .. used - 1 /\ bytes <= C
      BY <1>4, <1>10, <1>11, <1>12, <2>5
    <3>2. q = IF rd + i < C THEN rd + i ELSE rd + i - C
      BY <1>4, <1>11, <1>12, <1>13, <1>16, <2>2, <2>4, <3>1
    <3>3. ~(q < bytes - first) /\ ~(q >= wr /\ q < wr + first)
      BY <1>4, <1>10, <1>11, <1>12, <1>15, <2>2, <2>5, <3>1, <3>2
    <3>4. total - used + i = total' - used' + j
      BY <1>4, <1>10, <1>12
    <3> HIDE DEF i
    <3>5. q = (rd + i) % C
      BY <1>4, <1>11, <3>1, <3>2, Wrap
    <3>6. data[q] = total - used + i
      BY <1>7, <3>1, <3>5
    <3>7. QED
      BY <2>3, <3>3, <3>4, <3>6 DEF q
  <2>6. CASE j >= used' - bytes
    <3> DEFINE i == j - (used' - bytes)
    <3>1. i \in 0 .. bytes - 1 /\ total' - used' + j = total + i /\ i >= bytes - C
      BY <1>4, <1>10, <1>11, <1>12, <2>6
    <3>2. wr + i = q \/ wr + i = q + C
      <4>1. wr + i \in 0 .. 2 * C - 1
        <5> HIDE DEF i
        <5>1. i \in Int /\ i >= 0 /\ i < bytes
          BY <3>1
        <5>2. QED
          BY <5>1, <1>4, <1>10, <1>11
      <4>2. wr + i = q \/ wr + i = q + C \/ wr + i = q + 2 * C \/ wr + i = q - C
        BY <1>4, <1>10, <1>11, <1>12, <1>13, <1>15, <1>16, <2>4
      <4>3. QED
        BY <1>11, <2>2, <4>1, <4>2
    <3> HIDE DEF i
    <3>3. CASE bytes < C - wr
      BY <3>1, <3>2, <3>3, <2>2, <2>3, <1>4, <1>10, <1>11 DEF q
    <3>4. CASE ~(bytes < C - wr)
      <4>1. first = C - wr
        BY <3>4
      <4> HIDE DEF first
      <4>2. CASE wr + i = q
        BY <3>1, <4>1, <4>2, <2>2, <2>3, <1>4, <1>10, <1>11 DEF q
      <4>3. CASE wr + i = q + C
        BY <3>1, <4>1, <4>3, <2>2, <2>3, <1>4, <1>10, <1>11 DEF q
      <4>4. QED
        BY <3>2, <4>2, <4>3
    <3>5. QED
      BY <3>3, <3>4
  <2>7. QED
    BY <2>5, <2>6, <1>4, <1>10, <1>12
<1>19. data' \in [0 .. C - 1 -> Nat \cup {Blank}]
  <2>1. first \in Nat
    BY <1>4, <1>11
  <2>2. \A p \in 0 .. C - 1 : total + first + p \in Nat
    BY <1>4, <2>1
  <2>3. \A p \in 0 .. C - 1 : p >= wr => total + (p - wr) \in Nat
    BY <1>4
  <2> HIDE DEF first
  <2>4. QED
    BY <1>6, <1>9, <2>2, <2>3
<1>20. RingTypeInv'
  BY <1>2, <1>3, <1>10, <1>16, <1>19, <1>4 DEF RingTypeInv, C
<1>21. used' <= total'
  BY <1>4, <1>10, <1>12
<1>22. RingInv'
  BY <1>3, <1>17, <1>18, <1>21 DEF RingInv, C
<1>23. FrameAligned'
  <2>1. rd' % bpf = 0
    <3>1. (rd + skip) % bpf = 0
      BY ZenonT(30), <1>2, <1>4, AlignedSum DEF FrameAligned
    <3>2. rd + skip \in Nat /\ rd + skip < 4 * Cap
      BY <1>4, <1>11, <1>12 DEF C
    <3>3. QED
      BY <1>1, <1>2, <3>1, <3>2, AlignedOffset
  <2>2. wr' % bpf = 0
    <3>1. (wr + bytes) % bpf = 0
      BY <1>2, <1>4, AlignedSum DEF FrameAligned
    <3>2. wr + bytes \in Nat /\ wr + bytes < 4 * Cap
      BY <1>4, <1>10, <1>11 DEF C
    <3>3. QED
      BY <1>1, <1>2, <3>1, <3>2, AlignedOffset
  <2>3. total' % bpf = 0
    BY <1>2, <1>4, AlignedSum DEF FrameAligned
  <2>4. used' % bpf = 0
    <3>1. (used + bytes) % bpf = 0 /\ used + bytes \in Nat
      <4>1. used % bpf = 0 /\ bytes % bpf = 0
        BY <1>2 DEF FrameAligned
      <4>2. (used + bytes) % bpf = 0
        BY <1>4, <4>1, AlignedSum
      <4>3. used + bytes \in Nat
        BY <1>4
      <4>4. QED
        BY <4>2, <4>3
    <3>2. skip <= used + bytes
      BY <1>4, <1>10, <1>11
    <3>3. ((used + bytes) - skip) % bpf = 0
      BY <1>2, <1>4, <3>1, <3>2, AlignedSum
    <3>4. used' = (used + bytes) - skip
      BY <1>2, <1>4
    <3>5. QED
      BY <3>3, <3>4
  <2>5. QED
    BY <1>2, <2>1, <2>2, <2>3, <2>4 DEF FrameAligned
<1>24. QED
  BY <1>20, <1>22, <1>23

-----------------------------------------------------------------------------
(* read_frames: the oldest whole frames leave.                             *)
LEMMA ReadStep ==
    ASSUME RingIInv, NEW k \in 1 .. MaxFrames, Read(k)
    PROVE  RingIInv'
<1> USE DEF RingIInv
<1> DEFINE n == Taken(k) * bpf
           C == Cap
<1>1. CapIs
  BY Capacity
<1>2. /\ C \in Nat /\ C > 0 /\ bpf \in Nat /\ bpf > 0
      /\ rd \in Nat /\ rd < C /\ used \in Nat /\ used <= C /\ total \in Nat /\ used <= total
  BY <1>1 DEF CapIs, RingTypeInv, RingInv
<1>3. n \in Nat /\ n <= used /\ n % bpf = 0
  <2>1. Have \in Nat /\ Have * bpf <= used
    BY <1>2, RoundDown DEF Have
  <2>2. Taken(k) \in Nat /\ Taken(k) <= Have
    BY <2>1 DEF Taken
  <2>3. n \in Nat /\ n <= Have * bpf
    BY <1>2, <2>1, <2>2, TimesMono
  <2>4. n % bpf = 0
    BY <1>2, <2>2, AlignedMul
  <2>5. QED
    BY <1>2, <2>1, <2>3, <2>4
<1>4. rd' = (rd + n) % C /\ used' = used - n /\ UNCHANGED <<bpf, data, wr, total>>
  BY DEF Read
<1>5. Cap' = C
  BY <1>4 DEF Cap
<1>6. \A j \in 0 .. used - 1 : data[(rd + j) % C] = total - used + j
  BY DEF RingInv
<1>7. wr = (rd + used) % C
  BY DEF RingInv
<1> HIDE DEF n, C
<1>8. /\ C \in Nat /\ C > 0 /\ rd < C /\ used <= C /\ n \in Nat /\ n <= used
  BY <1>2, <1>3 DEF C, n
<1>9. rd' % bpf = 0 /\ rd' \in 0 .. C - 1
  <2>1. (rd + n) % bpf = 0
    BY <1>8, <1>2, <1>3, AlignedSum DEF FrameAligned
  <2>2. rd + n \in Nat /\ rd + n < 4 * C
    BY <1>8, <1>2, <1>3
  <2>3. QED
    BY <1>1, <1>4, <2>1, <2>2, AlignedOffset DEF C
<1>10. used' % bpf = 0 /\ used' \in Nat /\ used' <= C
  <2>1. (used - n) % bpf = 0
    BY <1>8, <1>2, <1>3, AlignedSum DEF FrameAligned
  <2>2. QED
    BY <1>8, <1>2, <1>3, <1>4, <2>1
<1>11. rd' \in Nat /\ rd' < C
  <2>1. rd' \in 0 .. C - 1
    BY <1>9
  <2>2. QED
    BY <1>8, <2>1
<1>12. used' \in Nat /\ used' <= C /\ used' <= total'
  BY <1>8, <1>2, <1>3, <1>4
<1>13. rd' = IF rd + n < C THEN rd + n ELSE rd + n - C
  <2>1. (rd + n) % C = IF rd + n < C THEN rd + n
                       ELSE IF rd + n < 2 * C THEN rd + n - C ELSE rd + n - 2 * C
    BY <1>8, <1>2, <1>3, WrapSum
  <2>2. QED
    BY <1>8, <1>2, <1>3, <1>4, <2>1
<1>14. wr' = (rd' + used') % C
  <2>1. wr = IF rd + used < C THEN rd + used
             ELSE IF rd + used < 2 * C THEN rd + used - C ELSE rd + used - 2 * C
    BY <1>8, <1>2, <1>7, WrapSum
  <2>2. rd' \in Nat /\ used' \in Nat /\ rd' + used' < 3 * C
    <3>1. \A x, y \in Nat : x < C /\ y <= C => x + y < 3 * C
      BY <1>8
    <3>2. QED
      BY <1>11, <1>12, <3>1
  <2>3. (rd' + used') % C = IF rd' + used' < C THEN rd' + used'
             ELSE IF rd' + used' < 2 * C THEN rd' + used' - C ELSE rd' + used' - 2 * C
    BY <1>8, <1>2, <2>2, WrapSum
  <2>4. QED
    BY <1>8, <1>2, <1>3, <1>4, <1>13, <2>1, <2>3
<1>15. ASSUME NEW j \in 0 .. used' - 1
       PROVE  data'[(rd' + j) % C] = total' - used' + j
  <2> DEFINE i == n + j
  <2>1. i \in 0 .. used - 1 /\ total - used + i = total' - used' + j
    BY <1>8, <1>2, <1>3, <1>4
  <2>2. (rd' + j) % C = (rd + i) % C
    <3>1. rd' \in Nat /\ j \in Nat /\ rd' + j < 3 * C
      <4>1. \A x, y \in Nat : x < C /\ y < C => x + y < 3 * C
        BY <1>8
      <4>2. j \in Nat /\ j < C
        <5>1. \A u \in Nat : \A x \in 0 .. u - 1 : u <= C => x \in Nat /\ x < C
          BY <1>8
        <5>2. QED
          BY <1>12, <5>1
      <4>3. QED
        BY <1>11, <4>1, <4>2
    <3>2. (rd' + j) % C = IF rd' + j < C THEN rd' + j
             ELSE IF rd' + j < 2 * C THEN rd' + j - C ELSE rd' + j - 2 * C
      BY <1>8, <1>2, <3>1, WrapSum
    <3> HIDE DEF i
    <3>3. i \in Nat /\ rd + i < 3 * C
      BY <1>8, <1>2, <2>1
    <3>4. (rd + i) % C = IF rd + i < C THEN rd + i
             ELSE IF rd + i < 2 * C THEN rd + i - C ELSE rd + i - 2 * C
      BY <1>8, <1>2, <3>3, WrapSum
    <3>5. i = n + j
      BY DEF i
    <3>6. QED
      BY <1>8, <1>2, <1>3, <1>4, <1>13, <2>1, <3>1, <3>2, <3>4, <3>5
  <2> HIDE DEF i
  <2>3. QED
    BY <1>4, <1>6, <2>1, <2>2
<1>16. RingTypeInv'
  BY <1>4, <1>5, <1>9, <1>10 DEF RingTypeInv, C
<1>17. RingInv'
  BY <1>5, <1>12, <1>14, <1>15 DEF RingInv, C
<1>18. FrameAligned'
  BY <1>4, <1>9, <1>10 DEF FrameAligned
<1>19. QED
  BY <1>16, <1>17, <1>18

LEMMA ZeroAligned == ASSUME NEW b \in Nat, b > 0 PROVE 0 % b = 0
OBVIOUS

(* An empty ring, after set_config and after flush.                        *)
EmptyRing ==
    /\ bpf \in Formats /\ data \in [0 .. Cap - 1 -> Nat \cup {Blank}]
    /\ rd = 0 /\ wr = 0 /\ used = 0 /\ total \in Nat /\ total % bpf = 0

LEMMA EmptyIsGood == EmptyRing => RingIInv
<1> SUFFICES ASSUME EmptyRing PROVE RingIInv
  OBVIOUS
<1> USE DEF EmptyRing
<1>1. bpf \in Nat /\ bpf > 0 /\ 0 % bpf = 0
  BY RingAssumption, ZeroAligned
<1>2. Cap \in Nat /\ Cap > 0
  <2>1. 1 * bpf <= MaxFrames * bpf /\ MaxFrames * bpf \in Nat
    BY <1>1, RingAssumption, TimesMono
  <2>2. QED
    BY <1>1, <2>1 DEF Cap
<1>3. RingTypeInv
  BY <1>1, <1>2 DEF RingTypeInv
<1>4. FrameAligned
  BY <1>1 DEF FrameAligned
<1>5. (0 + 0) % Cap = 0
  BY <1>2, ZeroAligned
<1>6. RingInv
  BY <1>2, <1>5 DEF RingInv
<1>7. QED
  BY <1>3, <1>4, <1>6 DEF RingIInv

LEMMA RingInitial == RingInit => RingIInv
<1> SUFFICES ASSUME RingInit PROVE RingIInv
  OBVIOUS
<1>1. bpf \in Nat /\ bpf > 0 /\ 0 % bpf = 0
  BY RingAssumption, ZeroAligned DEF RingInit
<1>2. QED
  BY <1>1, EmptyIsGood DEF RingInit, EmptyRing

LEMMA RingStep == RingIInv /\ [RingNext]_ring => RingIInv'
<1> SUFFICES ASSUME RingIInv, [RingNext]_ring PROVE RingIInv'
  OBVIOUS
<1>0. EmptyRing' => RingIInv'
  BY EmptyIsGood, PTL
<1>1. ASSUME NEW b \in Formats, SetConfig(b) PROVE RingIInv'
  <2>1. b \in Nat /\ b > 0 /\ 0 % b = 0
    BY RingAssumption, ZeroAligned
  <2>2. /\ bpf' \in Formats /\ data' \in [0 .. Cap' - 1 -> Nat \cup {Blank}]
        /\ rd' = 0 /\ wr' = 0 /\ used' = 0 /\ total' \in Nat /\ total' % bpf' = 0
    BY <1>1, <2>1 DEF SetConfig, Cap
  <2>3. QED
    BY <1>0, <2>2 DEF EmptyRing
<1>2. ASSUME NEW k \in 1 .. MaxWrite, NEW r \in 0 .. bpf - 1, Write(k * bpf + r)
      PROVE  RingIInv'
  BY <1>2, WriteStep
<1>3. ASSUME NEW k \in 1 .. MaxFrames, Read(k) PROVE RingIInv'
  BY <1>3, ReadStep
<1>4. ASSUME Flush PROVE RingIInv'
  <2>1. /\ bpf' \in Formats /\ data' \in [0 .. Cap' - 1 -> Nat \cup {Blank}]
        /\ rd' = 0 /\ wr' = 0 /\ used' = 0 /\ total' \in Nat /\ total' % bpf' = 0
    BY <1>4 DEF Flush, RingIInv, RingTypeInv, FrameAligned, Cap
  <2>2. QED
    BY <1>0, <2>1 DEF EmptyRing
<1>5. CASE UNCHANGED ring
  BY <1>5 DEF ring, RingIInv, RingTypeInv, RingInv, FrameAligned, Cap
<1>6. QED
  BY <1>1, <1>2, <1>3, <1>4, <1>5 DEF RingNext

(* The fields of the ring stay in range.                                   *)
THEOREM RingTypeCorrect == RingSpec => []RingTypeInv
<1>1. RingSpec => []RingIInv
  BY RingInitial, RingStep, PTL DEF RingSpec
<1>2. QED
  BY <1>1, PTL DEF RingIInv

(* The ring holds the newest bytes in order, for every capacity, frame     *)
(* size and sequence of calls.                                             *)
THEOREM RingCorrect == RingSpec => []RingInv
<1>1. RingSpec => []RingIInv
  BY RingInitial, RingStep, PTL DEF RingSpec
<1>2. QED
  BY <1>1, PTL DEF RingIInv

(* No operation tears a frame.                                             *)
THEOREM FramesStayWhole == RingSpec => []FrameAligned
<1>1. RingSpec => []RingIInv
  BY RingInitial, RingStep, PTL DEF RingSpec
<1>2. QED
  BY <1>1, PTL DEF RingIInv
-----------------------------------------------------------------------------
(* The ring as a queue of frames.  What is held is a run of consecutive    *)
(* numbers that ends with the last frame accepted, so a step of the queue  *)
(* is known by the number of frames it leaves and the number accepted.     *)
Count == total \div bpf
Held == [k \in 1 .. Have |-> FrameAt(k - 1)]
Consecutive(from, n) == [j \in 1 .. n |-> from + j - 1]

LEMMA WrapTwice ==
    ASSUME NEW C \in Nat, C > 0, NEW x \in Nat, x < 2 * C, NEW b \in Nat, b < C
    PROVE  (x % C) \in Nat /\ (x % C) < C /\ ((x % C) + b) % C = (x + b) % C
<1>1. x % C = IF x < C THEN x ELSE x - C
  BY Wrap
<1>2. (x + b) % C = IF x + b < C THEN x + b
                    ELSE IF x + b < 2 * C THEN x + b - C ELSE x + b - 2 * C
  BY WrapSum
<1> DEFINE y == x % C
<1>3. y \in Nat /\ y < C
  BY <1>1
<1> HIDE DEF y
<1>4. (y + b) % C = IF y + b < C THEN y + b
                    ELSE IF y + b < 2 * C THEN y + b - C ELSE y + b - 2 * C
  BY <1>3, WrapSum
<1>5. QED
  BY <1>1, <1>2, <1>3, <1>4 DEF y

LEMMA Whole ==
    ASSUME NEW b \in Nat, b > 0, NEW x \in Nat, x % b = 0
    PROVE  x \div b \in Nat /\ x = (x \div b) * b
OBVIOUS

LEMMA TimesCancel ==
    ASSUME NEW b \in Nat, b > 0, NEW x \in Nat, NEW y \in Nat, x * b <= y * b
    PROVE  x <= y
<1>1. CASE y < x
  <2>1. (y + 1) * b <= x * b
    BY <1>1, TimesMono
  <2>2. (y + 1) * b = y * b + b /\ y * b \in Nat /\ x * b \in Nat
    OBVIOUS
  <2>3. QED
    BY <2>1, <2>2
<1>2. QED
  BY <1>1

LEMMA Frames ==
    ASSUME RingIInv
    PROVE  /\ Have \in Nat /\ Count \in Nat /\ Have <= Count /\ Have <= MaxFrames
           /\ used = Have * bpf /\ total = Count * bpf
<1>1. /\ bpf \in Nat /\ bpf > 0 /\ used \in Nat /\ total \in Nat /\ MaxFrames \in Nat
      /\ used <= total /\ used <= MaxFrames * bpf
  BY RingAssumption, Capacity DEF RingIInv, RingTypeInv, RingInv, CapIs, Cap
<1>2. Have \in Nat /\ used = Have * bpf
  BY <1>1, Whole DEF Have, RingIInv, FrameAligned
<1>3. Count \in Nat /\ total = Count * bpf
  BY <1>1, Whole DEF Count, RingIInv, FrameAligned
<1>4. QED
  BY <1>1, <1>2, <1>3, TimesCancel

LEMMA FrameNumber ==
    ASSUME RingIInv, NEW k \in 0 .. Have - 1
    PROVE  FrameAt(k) = Count - Have + k
<1> DEFINE at == (rd + k * bpf) % Cap
           f  == Count - Have + k
<1>1. /\ bpf \in Nat /\ bpf > 0 /\ used \in Nat /\ total \in Nat /\ Cap \in Nat /\ Cap > 0
      /\ used <= Cap /\ used <= total /\ rd \in Nat /\ rd < Cap /\ bpf <= Cap
  BY Capacity DEF RingIInv, RingTypeInv, RingInv, CapIs
<1>2. /\ Have \in Nat /\ Count \in Nat /\ Have <= Count
      /\ used = Have * bpf /\ total = Count * bpf
  BY Frames
<1>3. k \in Nat /\ k + 1 <= Have /\ f \in Nat
  BY <1>2
<1>4. k * bpf \in Nat /\ k * bpf + bpf <= used
  <2>1. (k + 1) * bpf <= Have * bpf
    BY <1>1, <1>2, <1>3, TimesMono
  <2>2. (k + 1) * bpf = k * bpf + bpf /\ k * bpf \in Nat
    BY <1>1, <1>3
  <2>3. QED
    BY <1>2, <2>1, <2>2
<1>5. total - used + k * bpf = f * bpf
  <2>1. (Count - Have + k) * bpf = Count * bpf - Have * bpf + k * bpf
    BY <1>1, <1>2, <1>3
  <2>2. QED
    BY <1>2, <2>1
<1>6. ASSUME NEW b \in 0 .. bpf - 1
      PROVE  data[(at + b) % Cap] = f * bpf + b
  <2> DEFINE i == k * bpf + b
             x == rd + k * bpf
  <2>1. b \in Nat /\ b < Cap /\ b <= bpf - 1
    BY <1>1
  <2>2. i \in 0 .. used - 1
    BY <1>1, <1>4, <2>1
  <2>3. x \in Nat /\ x < 2 * Cap
    BY <1>1, <1>4
  <2>4. ((x % Cap) + b) % Cap = (x + b) % Cap
    <3> HIDE DEF x
    <3>1. QED
      BY <1>1, <2>1, <2>3, WrapTwice
  <2>5. x + b = rd + i
    BY <1>1, <1>4, <2>1
  <2>6. data[(rd + i) % Cap] = total - used + i
    <3> HIDE DEF i
    <3>1. QED
      BY <2>2 DEF RingIInv, RingInv
  <2>7. total - used + i = f * bpf + b
    <3>1. total - used + (k * bpf + b) = (total - used + k * bpf) + b
      BY <1>1, <1>4, <2>1
    <3>2. QED
      BY <1>5, <3>1
  <2>8. QED
    BY <2>4, <2>5, <2>6, <2>7
<1>7. at \in Nat /\ at < Cap
  <2> DEFINE x == rd + k * bpf
  <2>1. x \in Nat /\ x < 2 * Cap
    BY <1>1, <1>4
  <2> HIDE DEF x
  <2>2. x % Cap \in Nat /\ x % Cap < Cap
    BY <1>1, <2>1
  <2>3. QED
    BY <2>2 DEF x
<1> HIDE DEF at, f
<1>8. data[at] = f * bpf
  <2>1. data[(at + 0) % Cap] = f * bpf + 0
    BY <1>1, <1>6
  <2>2. (at + 0) % Cap = at
    BY <1>1, <1>7
  <2>3. f * bpf \in Nat
    BY <1>1, <1>3
  <2>4. QED
    BY <2>1, <2>2, <2>3
<1>9. data[at] \div bpf = f
  <2>1. (f * bpf + 0) \div bpf = f
    BY <1>1, <1>3, WholeFrames
  <2>2. f * bpf + 0 = f * bpf
    BY <1>1, <1>3
  <2>3. QED
    BY <1>8, <2>1, <2>2
<1>10. FrameAt(k) = IF \A b \in 0 .. bpf - 1 : data[(at + b) % Cap] = f * bpf + b
                    THEN f ELSE Blank
  BY <1>9 DEF FrameAt, at
<1>11. QED
  BY <1>6, <1>10 DEF f

LEMMA HeldIsRun == RingIInv => Held = Consecutive(Count - Have, Have)
<1> SUFFICES ASSUME RingIInv PROVE Held = Consecutive(Count - Have, Have)
  OBVIOUS
<1>1. Have \in Nat /\ Count \in Nat
  BY Frames
<1>2. ASSUME NEW j \in 1 .. Have
      PROVE  FrameAt(j - 1) = Count - Have + j - 1
  <2>1. j - 1 \in 0 .. Have - 1
    BY <1>1
  <2>2. FrameAt(j - 1) = Count - Have + (j - 1)
    BY <2>1, FrameNumber
  <2>3. QED
    BY <1>1, <2>2
<1>3. QED
  BY <1>2 DEF Held, Consecutive

LEMMA PutRun ==
    ASSUME NEW T \in Nat, NEW H \in Nat, H <= T, H <= MaxFrames, NEW n \in Nat, n > 0,
           NEW G, G = IF H + n <= MaxFrames THEN H + n ELSE MaxFrames
    PROVE  Queue!Newest(Consecutive(T - H, H) \o Consecutive(T, n))
             = Consecutive(T + n - G, G)
<1> DEFINE q == Consecutive(T - H, H)
           a == Consecutive(T, n)
           s == q \o a
<1>0. MaxFrames \in Nat /\ G \in Nat /\ G <= H + n
  BY RingAssumption
<1>1. q \in Seq(Int) /\ Len(q) = H /\ a \in Seq(Int) /\ Len(a) = n
  BY DEF Consecutive
<1>2. \A j \in 1 .. H : q[j] = T - H + j - 1
  BY DEF Consecutive
<1>3. \A j \in 1 .. n : a[j] = T + j - 1
  BY DEF Consecutive
<1> HIDE DEF q, a
<1>4. s \in Seq(Int) /\ Len(s) = H + n
  BY <1>1
<1>5. ASSUME NEW j \in 1 .. H + n PROVE s[j] = T - H + j - 1
  <2>1. CASE j <= H
    BY <1>1, <1>2, <2>1 DEF s
  <2>2. CASE j > H
    <3> DEFINE i == j - H
    <3>1. i \in 1 .. n /\ i + H = j
      BY <2>2
    <3>2. s[j] = a[i]
      BY <1>1, <2>2 DEF s
    <3> HIDE DEF i
    <3>3. a[i] = T + i - 1
      BY <1>3, <3>1
    <3>4. T + i - 1 = T - H + j - 1
      BY <3>1
    <3>5. QED
      BY <3>2, <3>3, <3>4
  <2> HIDE DEF s
  <2>3. QED
    BY <2>1, <2>2
<1> HIDE DEF s
<1>6. CASE H + n <= MaxFrames
  <2>1. Queue!Newest(s) = s
    BY <1>4, <1>6 DEF Queue!Newest
  <2>2. s = Consecutive(T + n - G, G)
    <3>1. G = H + n /\ T + n - G = T - H
      BY <1>6
    <3>2. s = [j \in 1 .. H + n |-> T - H + j - 1]
      BY <1>4, <1>5
    <3>3. QED
      BY <3>1, <3>2 DEF Consecutive
  <2>3. QED
    BY <2>1, <2>2 DEF s, q, a
<1>7. CASE H + n > MaxFrames
  <2>1. G = MaxFrames
    BY <1>7, <1>0
  <2> DEFINE m == H + n - G + 1
             u == SubSeq(s, m, H + n)
  <2>2. Queue!Newest(s) = u
    BY <1>0, <1>4, <1>7, <2>1 DEF Queue!Newest
  <2>3. m \in 1 .. H + n + 1 /\ H + n - m + 1 = G
    BY <1>0
  <2> HIDE DEF m
  <2>4. u \in Seq(Int) /\ Len(u) = G
    BY <1>0, <1>4, <2>3
  <2>5. ASSUME NEW j \in 1 .. G PROVE u[j] = T + n - G + j - 1
    <3>1. m + j - 1 \in 1 .. H + n
      BY <1>0, <2>3
    <3>2. u[j] = s[m + j - 1]
      BY <1>0, <1>4, <2>3
    <3>3. s[m + j - 1] = T - H + (m + j - 1) - 1
      BY <1>5, <3>1
    <3>4. T - H + (m + j - 1) - 1 = T + n - G + j - 1
      BY <1>0 DEF m
    <3>5. QED
      BY <3>2, <3>3, <3>4
  <2> HIDE DEF u
  <2>6. u = Consecutive(T + n - G, G)
    BY <2>4, <2>5 DEF Consecutive
  <2>7. QED
    BY <2>2, <2>6 DEF s, q, a
<1>8. QED
  BY <1>0, <1>6, <1>7

LEMMA TakeRun ==
    ASSUME NEW T \in Nat, NEW H \in Nat, H <= T, NEW t \in Nat, t <= H
    PROVE  /\ Len(Consecutive(T - H, H)) = H
           /\ SubSeq(Consecutive(T - H, H), t + 1, H) = Consecutive(T - (H - t), H - t)
<1> DEFINE q == Consecutive(T - H, H)
           u == SubSeq(q, t + 1, H)
<1>1. q \in Seq(Int) /\ Len(q) = H
  BY DEF Consecutive
<1>2. \A j \in 1 .. H : q[j] = T - H + j - 1
  BY DEF Consecutive
<1> HIDE DEF q
<1>3. u \in Seq(Int) /\ Len(u) = H - t
  BY <1>1
<1>4. ASSUME NEW j \in 1 .. H - t PROVE u[j] = T - (H - t) + j - 1
  <2>1. t + j \in 1 .. H
    OBVIOUS
  <2>2. u[j] = q[t + j]
    BY <1>1
  <2>3. QED
    BY <1>2, <2>1, <2>2
<1> HIDE DEF u
<1>5. u = Consecutive(T - (H - t), H - t)
  BY <1>3, <1>4 DEF Consecutive
<1>6. QED
  BY <1>1, <1>5 DEF q, u

LEMMA QueueStep ==
    ASSUME RingIInv, RingIInv',
           \/ \E n \in 1 .. MaxWrite :
                 /\ Count' = Count + n
                 /\ Have' = IF Have + n <= MaxFrames THEN Have + n ELSE MaxFrames
           \/ \E t \in 1 .. MaxFrames : t <= Have /\ Have' = Have - t /\ Count' = Count
           \/ Have' = 0 /\ Count' \in {Count, 0}
    PROVE  Queue!Next
<1>1. Have \in Nat /\ Count \in Nat /\ Have <= Count /\ Have <= MaxFrames
  BY Frames
<1>2. Held = Consecutive(Count - Have, Have)
  BY HeldIsRun
<1>3. Held' = Consecutive(Count' - Have', Have')
  <2>1. (RingIInv => Held = Consecutive(Count - Have, Have))'
    BY HeldIsRun, PTL
  <2>2. QED
    BY <2>1
<1>4. ASSUME NEW n \in 1 .. MaxWrite, Count' = Count + n,
             Have' = IF Have + n <= MaxFrames THEN Have + n ELSE MaxFrames
      PROVE  Queue!Next
  <2>1. n \in Nat /\ n > 0
    BY RingAssumption
  <2> DEFINE G == IF Have + n <= MaxFrames THEN Have + n ELSE MaxFrames
             q == Consecutive(Count - Have, Have) \o Consecutive(Count, n)
  <2>a. Queue!Newest(q) = Consecutive(Count + n - G, G)
    BY <1>1, <2>1, PutRun
  <2>b. Held' = Consecutive(Count + n - G, G)
    <3>1. Have' = G /\ Count' = Count + n
      BY <1>4
    <3>a. G \in Nat
      BY <1>1, <2>1, RingAssumption
    <3> HIDE DEF G
    <3>2. Count' - Have' = Count + n - G
      BY <1>1, <2>1, <3>1, <3>a
    <3>3. QED
      BY <1>3, <3>1, <3>2, Zenon
  <2>2. Held' = Queue!Newest(Held \o Consecutive(Count, n))
    BY <1>2, <2>a, <2>b
  <2>3. Queue!Put(n)
    BY <1>4, <2>2 DEF Queue!Put, Held, Count, Consecutive
  <2>4. QED
    BY <2>3 DEF Queue!Next
<1>5. ASSUME NEW t \in 1 .. MaxFrames, t <= Have, Have' = Have - t, Count' = Count
      PROVE  Queue!Next
  <2>1. t \in Nat
    BY <1>5
  <2>2. Len(Held) = Have /\ Held' = SubSeq(Held, t + 1, Have)
    BY <1>1, <1>2, <1>3, <1>5, <2>1, TakeRun
  <2>3. Queue!Take(t)
    BY <1>5, <2>2 DEF Queue!Take, Held, Count
  <2>4. QED
    BY <2>3 DEF Queue!Next
<1>6. ASSUME Have' = 0, Count' \in {Count, 0}
      PROVE  Queue!Next
  <2>1. Held' = <<>>
    BY <1>3, <1>6 DEF Consecutive
  <2>2. Queue!Clear
    BY <1>6, <2>1 DEF Queue!Clear, Held, Count
  <2>3. QED
    BY <2>2 DEF Queue!Next
<1>7. QED
  BY <1>4, <1>5, <1>6

(* What a write does, counted in frames.                                   *)
LEMMA WriteFrames ==
    ASSUME RingIInv, RingIInv',
           NEW k \in 1 .. MaxWrite, NEW r \in 0 .. bpf - 1, Write(k * bpf + r)
    PROVE  /\ Count' = Count + k
           /\ Have' = IF Have + k <= MaxFrames THEN Have + k ELSE MaxFrames
<1>1. PICK bytes \in Nat, skip \in Nat :
              /\ bytes = k * bpf
              /\ skip = IF Cap - used < bytes THEN bytes - (Cap - used) ELSE 0
              /\ used' = used - skip + bytes
              /\ total' = total + bytes
              /\ bpf' = bpf
  BY WriteArith DEF RingIInv
<1>2. /\ bpf \in Nat /\ bpf > 0 /\ MaxFrames \in Nat /\ k \in Nat
      /\ Have \in Nat /\ Count \in Nat /\ used = Have * bpf /\ total = Count * bpf
  BY RingAssumption, Capacity, Frames DEF RingIInv, CapIs
<1>3. Cap = MaxFrames * bpf /\ Cap \in Nat /\ used \in Nat /\ used <= Cap
  BY Capacity DEF RingIInv, RingTypeInv, CapIs, Cap
<1>4. Count' = Count + k
  <2>1. total' = (Count + k) * bpf + 0
    BY <1>1, <1>2
  <2>2. ((Count + k) * bpf + 0) \div bpf = Count + k
    <3> DEFINE n == Count + k
    <3>1. n \in Nat /\ 0 \in 0 .. bpf - 1
      BY <1>2
    <3> HIDE DEF n
    <3>2. (n * bpf + 0) \div bpf = n
      BY <1>2, <3>1, WholeFrames
    <3>3. QED
      BY <3>2 DEF n
  <2>3. QED
    BY <1>1, <2>1, <2>2 DEF Count
<1> DEFINE H == IF Have + k <= MaxFrames THEN Have + k ELSE MaxFrames
<1>5. used' = H * bpf + 0 /\ H \in Nat
  <2>1. (Have + k) * bpf = used + bytes
    BY <1>1, <1>2
  <2>2. CASE Have + k <= MaxFrames
    <3>1. (Have + k) * bpf <= MaxFrames * bpf
      BY <1>2, <2>2, TimesMono
    <3>2. skip = 0 /\ used' = used + bytes
      BY <1>1, <1>3, <2>1, <3>1
    <3>3. QED
      BY <1>2, <2>1, <2>2, <3>2
  <2>3. CASE ~(Have + k <= MaxFrames)
    <3>1. MaxFrames * bpf <= (Have + k) * bpf
      BY <1>2, <2>3, TimesMono
    <3>2. used' = Cap
      BY <1>1, <1>3, <2>1, <3>1
    <3>3. QED
      BY <1>2, <1>3, <2>3, <3>2
  <2>4. QED
    BY <2>2, <2>3
<1> HIDE DEF H
<1>6. Have' = H
  <2>1. 0 \in 0 .. bpf - 1
    BY <1>2
  <2>2. (H * bpf + 0) \div bpf = H
    BY <1>2, <1>5, <2>1, WholeFrames
  <2>3. QED
    BY <1>1, <1>5, <2>2 DEF Have
<1>7. QED
  BY <1>4, <1>6 DEF H

LEMMA ReadFrames ==
    ASSUME RingIInv, NEW k \in 1 .. MaxFrames, Read(k)
    PROVE  \E t \in 1 .. MaxFrames : t <= Have /\ Have' = Have - t /\ Count' = Count
<1>1. /\ bpf \in Nat /\ bpf > 0 /\ MaxFrames \in Nat
      /\ Have \in Nat /\ used = Have * bpf
  BY RingAssumption, Capacity, Frames DEF RingIInv, CapIs
<1> DEFINE t == Taken(k)
<1>2. t \in 1 .. MaxFrames /\ t <= Have
  BY <1>1 DEF Taken, Read
<1>3. used' = used - t * bpf /\ bpf' = bpf /\ total' = total
  BY DEF Read
<1> HIDE DEF t
<1>4. used' = (Have - t) * bpf + 0
  BY <1>1, <1>2, <1>3
<1>5. Have - t \in Nat /\ 0 \in 0 .. bpf - 1
  BY <1>1, <1>2
<1>6. ((Have - t) * bpf + 0) \div bpf = Have - t
  <2> DEFINE n == Have - t
  <2>1. n \in Nat
    BY <1>5
  <2> HIDE DEF n
  <2>2. (n * bpf + 0) \div bpf = n
    BY <1>1, <1>5, <2>1, WholeFrames
  <2>3. QED
    BY <2>2 DEF n
<1>7. Have' = Have - t /\ Count' = Count
  BY <1>3, <1>4, <1>6 DEF Have, Count
<1>8. QED
  BY <1>2, <1>7

LEMMA RingIsQueue ==
    ASSUME RingIInv, RingIInv', [RingNext]_ring
    PROVE  [Queue!Next]_<<Held, Count>>
<1>1. ASSUME NEW k \in 1 .. MaxWrite, NEW r \in 0 .. bpf - 1, Write(k * bpf + r)
      PROVE  Queue!Next
  BY <1>1, WriteFrames, QueueStep
<1>2. ASSUME NEW k \in 1 .. MaxFrames, Read(k)
      PROVE  Queue!Next
  BY <1>2, ReadFrames, QueueStep
<1>z. ASSUME NEW b \in Formats PROVE 0 \div b = 0
  <2>1. b \in Nat /\ b > 0
    BY RingAssumption
  <2>2. QED
    BY <2>1
<1>3. ASSUME NEW b \in Formats, SetConfig(b)
      PROVE  Queue!Next
  <2>1. Have' = 0 /\ Count' = 0
    BY <1>3, <1>z DEF SetConfig, Have, Count
  <2>2. QED
    BY <2>1, QueueStep
<1>4. CASE Flush
  <2>1. bpf' = bpf /\ bpf \in Formats /\ used' = 0 /\ total' = total
    BY <1>4 DEF Flush, RingIInv, RingTypeInv
  <2>2. Have' = 0 /\ Count' = Count
    BY <2>1, <1>z DEF Have, Count
  <2>3. QED
    BY <2>2, QueueStep
<1>5. CASE UNCHANGED ring
  BY <1>5 DEF ring, Held, Count, Have, FrameAt, Cap
<1>6. QED
  BY <1>1, <1>2, <1>3, <1>4, <1>5 DEF RingNext

LEMMA QueueInit == RingInit => Queue!Init
<1> SUFFICES ASSUME RingInit PROVE Queue!Init
  OBVIOUS
<1>1. used = 0 /\ total = 0 /\ bpf \in Nat /\ bpf > 0
  BY RingAssumption DEF RingInit
<1>2. Have = 0 /\ Count = 0
  BY <1>1 DEF Have, Count
<1>3. Held = <<>>
  BY <1>2 DEF Held
<1>4. QED
  BY <1>2, <1>3 DEF Queue!Init, Held, Count

(* The ring of bytes, with the offsets that go round and the fill count    *)
(* that wraps, is a queue of frames that drops the oldest.                 *)
THEOREM RingRefinesQueue == RingSpec => ImplementsQueue
<1>1. RingIInv /\ RingIInv' /\ [RingNext]_ring => [Queue!Next]_<<Held, Count>>
  BY RingIsQueue
<1>2. RingSpec => []RingIInv
  BY RingInitial, RingStep, PTL DEF RingSpec
<1>3. QED
  BY <1>1, <1>2, QueueInit, PTL DEF RingSpec, ImplementsQueue, Queue!Spec, Held, Count

-----------------------------------------------------------------------------

(* Every use the session's threads make of pcm_buffer_ is one of the       *)
(* buffer's own operations with arguments in range, so what is proved of   *)
(* the buffer alone holds of it in the player.                             *)
LEMMA AskStep ==
    ASSUME ask \in 0 .. MaxFrames, RingIInv, [Next]_vars
    PROVE  ask' \in 0 .. MaxFrames
<1>1. CASE Poll
  BY <1>1, PlaybackAssumption, RingAssumption DEF Poll
<1>2. CASE SeeStop
  <2>1. bpf \in Nat /\ bpf > 0 /\ used \in Nat /\ used <= Cap /\ MaxFrames \in Nat
    BY RingAssumption, Capacity DEF RingIInv, RingTypeInv, CapIs
  <2>2. Have \in Nat /\ Have <= MaxFrames
    <3>1. Have \in Nat /\ Have * bpf <= used
      BY <2>1, RoundDown DEF Have
    <3>2. Have * bpf <= MaxFrames * bpf
      BY <2>1, <3>1 DEF Cap
    <3>3. CASE Have > MaxFrames
      <4>1. (MaxFrames + 1) * bpf <= Have * bpf
        BY <2>1, <3>1, <3>3, TimesMono
      <4>2. (MaxFrames + 1) * bpf = MaxFrames * bpf + bpf /\ MaxFrames * bpf \in Nat
        BY <2>1
      <4>3. Have * bpf \in Nat
        BY <2>1, <3>1
      <4>4. QED
        BY <2>1, <3>2, <4>1, <4>2, <4>3
    <3>4. QED
      BY <2>1, <3>1, <3>3
  <2>3. QED
    BY <1>2, <2>2 DEF SeeStop
<1>3. ASSUME ~Poll, ~SeeStop PROVE ask' = ask
  BY <1>3 DEF Next, Worker, Rtsp, Decode, Begin, ReadChunk, HandOver, AllocatePorts, Start, Pause,
     StopFlags, JoinReceiver, JoinPlayback, FlushBuffers, Configure, OnConfig,
     vars, worker
<1>4. QED
  BY <1>1, <1>2, <1>3

LEMMA RingUse ==
    ASSUME ask \in 0 .. MaxFrames, RingIInv, [Next]_vars
    PROVE  [RingNext]_ring
<1>1. ASSUME NEW k \in 1 .. MaxWrite, NEW r \in 0 .. bpf - 1, Decode(k * bpf + r)
      PROVE  RingNext
  BY <1>1 DEF Decode, RingNext
<1>2. ASSUME NEW from, NEW to, NEW none, ReadChunk(from, to, none)
      PROVE  [RingNext]_ring
  <2>1. CASE Taken(ask) = 0
    BY <1>2, <2>1 DEF ReadChunk
  <2>2. CASE Taken(ask) # 0
    <3>1. Read(ask)
      BY <1>2, <2>2 DEF ReadChunk
    <3>2. ask # 0
      <4>1. CASE ask = 0
        <5>1. Have \in Nat
          BY RingAssumption, RoundDown DEF Have, RingIInv, RingTypeInv
        <5>2. QED
          BY <2>2, <4>1, <5>1 DEF Taken
      <4>2. QED
        BY <4>1
    <3>3. ask \in 1 .. MaxFrames
      BY <3>2
    <3>4. QED
      BY <3>1, <3>3 DEF RingNext
  <2>3. QED
    BY <2>1, <2>2
<1>3. CASE FlushBuffers
  BY <1>3 DEF FlushBuffers, RingNext
<1>4. ASSUME NEW b \in Formats, Configure(b)
      PROVE  RingNext
  BY <1>4 DEF Configure, RingNext
<1>5. CASE \/ Begin \/ Poll \/ SeeStop \/ HandOver("deliver", "loop")
           \/ HandOver("deliverLast", "exited") \/ AllocatePorts \/ Start \/ Pause \/ StopFlags
           \/ JoinReceiver \/ JoinPlayback \/ OnConfig \/ UNCHANGED vars
  BY <1>5 DEF Begin, Poll, SeeStop, HandOver, AllocatePorts, Start, Pause, StopFlags,
     JoinReceiver, JoinPlayback, OnConfig, vars
<1>6. QED
  BY <1>1, <1>2, <1>3, <1>4, <1>5 DEF Next, Worker, Rtsp

(* The bytes of a read are bytes of the array.                             *)
LEMMA BytesRead ==
    ASSUME RingIInv, ask \in 0 .. MaxFrames
    PROVE  /\ Taken(ask) \in Nat
           /\ Taken(ask) * bpf \in Nat
           /\ Taken(ask) * bpf <= used
           /\ Bytes(ask) \in Seq(Nat \cup {Blank})
           /\ Len(Bytes(ask)) = Taken(ask) * bpf
           /\ Taken(ask) > 0 => Len(Bytes(ask)) > 0
<1>1. /\ bpf \in Nat /\ bpf > 0 /\ used \in Nat /\ Cap \in Nat /\ Cap > 0 /\ rd \in Nat
      /\ used <= Cap /\ MaxFrames \in Nat
  BY RingAssumption, Capacity DEF RingIInv, RingTypeInv, CapIs
<1>2. Have \in Nat /\ Have * bpf <= used
  BY <1>1, RoundDown DEF Have
<1>3. Taken(ask) \in Nat /\ Taken(ask) <= Have
  BY <1>1, <1>2 DEF Taken
<1>4. Taken(ask) * bpf \in Nat /\ Taken(ask) * bpf <= Have * bpf
  BY <1>1, <1>2, <1>3, TimesMono
<1>5. Have * bpf \in Nat
  BY <1>1, <1>2
<1>6. ASSUME NEW j \in 1 .. Taken(ask) * bpf
      PROVE  data[(rd + j - 1) % Cap] \in Nat \cup {Blank}
  <2>1. (rd + j - 1) % Cap \in 0 .. Cap - 1
    BY <1>1, <1>4
  <2>2. QED
    BY <2>1 DEF RingIInv, RingTypeInv
<1>7. Bytes(ask) \in Seq(Nat \cup {Blank}) /\ Len(Bytes(ask)) = Taken(ask) * bpf
  BY <1>4, <1>6 DEF Bytes
<1>8. ASSUME Taken(ask) > 0 PROVE Taken(ask) * bpf > 0
  <2>1. 1 * bpf <= Taken(ask) * bpf
    BY <1>1, <1>3, <1>8, TimesMono
  <2>2. QED
    BY <1>1, <1>4, <2>1
<1>9. QED
  BY <1>2, <1>3, <1>4, <1>5, <1>7, <1>8, <1>1

(* A read fills the front of tmp, which was made as long as what was asked *)
(* for, and what is handed over of it lies inside.                         *)
LEMMA FilledChunk ==
    ASSUME RingIInv, ask \in 0 .. MaxFrames, wbpf \in Formats, Taken(ask) > 0,
           tmp \in Seq(Samples), Len(tmp) = ask * wbpf, cfgNo \in Nat
    PROVE  /\ Filled \in Seq(Samples) /\ Len(Filled) = Len(tmp)
           /\ Taken(ask) \in 1 .. MaxFrames
           /\ Taken(ask) * bpf \in Nat /\ Taken(ask) * bpf > 0
           /\ Taken(ask) * wbpf \in Nat /\ Taken(ask) * wbpf > 0
           /\ Taken(ask) * wbpf <= Len(tmp)
<1> DEFINE n == Taken(ask) * wbpf
           read == Bytes(ask)
<1>1. wbpf \in Nat /\ wbpf > 0 /\ MaxFrames \in Nat /\ ask \in Nat
  BY RingAssumption
<1>2. Taken(ask) \in Nat
  BY BytesRead
<1>3. Taken(ask) <= ask
  <2>1. Have \in Nat
    BY RingAssumption, RoundDown DEF Have, RingIInv, RingTypeInv
  <2>2. QED
    BY <1>1, <2>1 DEF Taken
<1>4. n \in Nat /\ n > 0 /\ n <= ask * wbpf
  <2>1. 1 * wbpf <= n /\ n <= ask * wbpf
    BY <1>1, <1>2, <1>3, TimesMono
  <2>2. n \in Nat
    BY <1>1, <1>2
  <2>3. QED
    BY <1>1, <2>1, <2>2
<1>5. read \in Seq(Nat \cup {Blank}) /\ Len(read) > 0 /\ Len(read) = Taken(ask) * bpf
      /\ Taken(ask) * bpf \in Nat
  BY BytesRead
<1> HIDE DEF n, read
<1>6. Filled = [j \in 1 .. Len(tmp) |->
                  IF j <= Len(read) THEN <<cfgNo, read[j]>> ELSE tmp[j]]
  BY DEF Filled, read
<1>7. ASSUME NEW j \in 1 .. Len(tmp)
      PROVE  (IF j <= Len(read) THEN <<cfgNo, read[j]>> ELSE tmp[j]) \in Samples
  <2>1. CASE j <= Len(read)
    <3>1. read[j] \in Nat \cup {Blank}
      BY <1>5, <2>1
    <3>2. QED
      BY <2>1, <3>1 DEF Samples
  <2>2. CASE ~(j <= Len(read))
    BY <2>2
  <2>3. QED
    BY <2>1, <2>2
<1>8. Len(tmp) \in Nat
  OBVIOUS
<1>9. Filled \in Seq(Samples) /\ Len(Filled) = Len(tmp)
  BY <1>6, <1>7, <1>8
<1>10. QED
  BY <1>1, <1>2, <1>3, <1>4, <1>5, <1>9 DEF n

LEMMA TimesNat ==
    ASSUME NEW a \in Nat, NEW b \in Nat
    PROVE  a * b \in Nat
OBVIOUS

(* tmp.resize keeps the type.                                              *)
LEMMA ResizedType ==
    ASSUME tmp \in Seq(Samples), NEW n \in Nat
    PROVE  Resized(n) \in Seq(Samples) /\ Len(Resized(n)) = n
<1>1. Silent \in Samples
  BY DEF Silent, Samples
<1>2. ASSUME NEW j \in 1 .. n
      PROVE  (IF j <= Len(tmp) THEN tmp[j] ELSE Silent) \in Samples
  BY <1>1
<1>3. QED
  BY <1>2 DEF Resized

(* The type invariant in parts: the Booleans, and the rest with the length *)
(* of tmp between its resizing and its delivery, which the type of the     *)
(* sample handed over last needs.                                          *)
FlagTypes == stop \in BOOLEAN /\ playing \in BOOLEAN /\ silenced \in BOOLEAN

ChunkTypes ==
    /\ pc \in {"off", "begin", "loop", "read", "deliver", "drain", "deliverLast",
               "exited", "overrun"}
    /\ tmp \in Seq(Samples) /\ got \in 0 .. MaxFrames /\ fresh \in Nat
    /\ (got > 0) <=> (pc \in {"deliver", "deliverLast", "overrun"})
    /\ pc \in {"read", "drain"} => Len(tmp) = ask * wbpf
    /\ got > 0 => /\ fresh > 0 /\ Given \in Nat /\ Given > 0
                  /\ Given <= Len(tmp)

PlainTypes ==
    /\ wbpf \in Formats
    /\ rtsp \in {"idle", "stopRx", "join", "tell"}
    /\ rx \in {"unbound", "deferred", "bound", "running", "closed"}
    /\ cfgNo \in 0 .. MaxConfig /\ told \in 0 .. cfgNo /\ wcfg \in 0 .. cfgNo
    /\ flushes \in 0 .. MaxConfig

PlayedType == played \in Samples

PlayerTypes == FlagTypes /\ ChunkTypes /\ PlainTypes /\ PlayedType

PlayerIInv == RingIInv /\ ask \in 0 .. MaxFrames /\ PlayerTypes

(* The steps, by what they can change of it.                               *)
LEMMA StepKinds ==
    ASSUME [Next]_vars
    PROVE  \/ Begin \/ Poll \/ SeeStop
           \/ ReadChunk("read", "deliver", "loop") \/ ReadChunk("drain", "deliverLast", "exited")
           \/ HandOver("deliver", "loop") \/ HandOver("deliverLast", "exited")
           \/ AllocatePorts \/ Start \/ Pause \/ StopFlags \/ JoinReceiver \/ JoinPlayback
           \/ FlushBuffers \/ OnConfig
           \/ \E b \in Formats : Configure(b)
           \/ \E k \in 1 .. MaxWrite, r \in 0 .. bpf - 1 : Decode(k * bpf + r)
           \/ UNCHANGED vars
BY Zenon DEF Next, Worker, Rtsp

LEMMA FlagsStep == ASSUME FlagTypes, [Next]_vars PROVE FlagTypes'
<1>1. CASE Start \/ Pause \/ StopFlags \/ JoinPlayback
  BY <1>1, Zenon DEF Start, Pause, StopFlags, JoinPlayback, FlagTypes, renderer
<1>2. ASSUME ~Start, ~Pause, ~StopFlags, ~JoinPlayback
      PROVE  stop' = stop /\ playing' = playing /\ silenced' = silenced
  BY <1>2, StepKinds, Zenon DEF Begin, Poll, SeeStop, ReadChunk, HandOver, AllocatePorts,
     JoinReceiver, FlushBuffers, OnConfig, Configure, Decode, vars, control, renderer
<1>3. QED
  BY <1>1, <1>2, Zenon DEF FlagTypes

LEMMA PlainOfWorker ==
    ASSUME RingTypeInv, PlainTypes, NEW from, NEW to, NEW none,
           \/ Begin \/ Poll \/ SeeStop \/ ReadChunk(from, to, none) \/ HandOver(from, to)
    PROVE  PlainTypes'
<1>1. wbpf' \in Formats
  BY DEF PlainTypes, RingTypeInv, Begin, Poll, SeeStop, ReadChunk, HandOver
<1>2. cfgNo' = cfgNo /\ told' = told /\ wcfg' \in {wcfg, cfgNo}
      /\ flushes' = flushes /\ rtsp' = rtsp /\ rx' = rx
  BY DEF Begin, Poll, SeeStop, ReadChunk, HandOver, control, renderer, counters
<1>3. QED
  BY <1>1, <1>2, PlaybackAssumption DEF PlainTypes

LEMMA PlainOfCalls ==
    ASSUME PlainTypes,
           \/ AllocatePorts \/ Start \/ Pause \/ StopFlags \/ JoinReceiver \/ JoinPlayback
           \/ FlushBuffers \/ OnConfig \/ \E b \in Formats : Configure(b)
    PROVE  PlainTypes'
<1>1. wbpf' = wbpf /\ wcfg' = wcfg
  BY DEF AllocatePorts, Start, Pause, StopFlags, JoinReceiver, JoinPlayback, FlushBuffers,
     OnConfig, Configure, worker
<1>2. rtsp' \in {"idle", "stopRx", "join", "tell"}
  BY DEF PlainTypes, AllocatePorts, Start, Pause, StopFlags, JoinReceiver, JoinPlayback,
     FlushBuffers, OnConfig, Configure, control
<1>3. rx' \in {"unbound", "deferred", "bound", "running", "closed"}
  BY DEF PlainTypes, AllocatePorts, Start, ReceiverStart, Pause, StopFlags, JoinReceiver,
     JoinPlayback, FlushBuffers, OnConfig, Configure, control
<1>4. /\ cfgNo' = cfgNo \/ (cfgNo' = cfgNo + 1 /\ cfgNo < MaxConfig)
      /\ told' = told \/ (told' = cfgNo /\ cfgNo' = cfgNo)
      /\ flushes' = flushes \/ (flushes' = flushes + 1 /\ flushes < MaxConfig)
  <2>1. CASE FlushBuffers
    BY <2>1, Zenon DEF FlushBuffers, renderer
  <2>2. CASE OnConfig
    BY <2>2, Zenon DEF OnConfig, counters
  <2>3. CASE \E b \in Formats : Configure(b)
    BY <2>3, Zenon DEF Configure, renderer
  <2>4. CASE AllocatePorts \/ Start \/ Pause \/ StopFlags
    BY <2>4, Zenon DEF AllocatePorts, Start, Pause, StopFlags, renderer, counters
  <2>5. CASE JoinReceiver \/ JoinPlayback
    BY <2>5, Zenon DEF JoinReceiver, JoinPlayback, renderer, counters
  <2>6. QED
    BY <2>1, <2>2, <2>3, <2>4, <2>5, Zenon
<1>5. QED
  BY <1>1, <1>2, <1>3, <1>4, PlaybackAssumption DEF PlainTypes

LEMMA PlainStep ==
    ASSUME RingTypeInv, PlainTypes, [Next]_vars
    PROVE  PlainTypes'
<1>1. ASSUME \/ UNCHANGED vars
             \/ \E k \in 1 .. MaxWrite, r \in 0 .. bpf - 1 : Decode(k * bpf + r)
      PROVE  UNCHANGED <<wbpf, rtsp, rx, cfgNo, told, wcfg, flushes>>
  BY <1>1, Zenon DEF Decode, vars, worker, control, renderer, counters
<1>2. ASSUME UNCHANGED <<wbpf, rtsp, rx, cfgNo, told, wcfg, flushes>> PROVE PlainTypes'
  BY <1>2, Zenon DEF PlainTypes
<1>3. QED
  BY <1>1, <1>2, PlainOfWorker, PlainOfCalls, StepKinds, Zenon

LEMMA HandedOver ==
    ASSUME ChunkTypes, PlainTypes, NEW from, NEW to, HandOver(from, to),
           from = "deliver" \/ from = "deliverLast"
    PROVE  PlayedType'
<1> DEFINE last == IF fresh < Given THEN fresh ELSE Given
<1>1. /\ tmp \in Seq(Samples) /\ fresh \in Nat /\ fresh > 0
      /\ Given \in Nat /\ Given > 0 /\ Given <= Len(tmp)
  BY DEF HandOver, ChunkTypes
<1>2. last \in 1 .. Len(tmp)
  BY <1>1
<1>3. played' = tmp[last]
  BY DEF HandOver
<1> HIDE DEF last
<1>4. QED
  BY <1>1, <1>2, <1>3 DEF PlayedType

LEMMA PlayedStep ==
    ASSUME ChunkTypes, PlainTypes, PlayedType, [Next]_vars
    PROVE  PlayedType'
<1>1. CASE HandOver("deliver", "loop") \/ HandOver("deliverLast", "exited")
  BY <1>1, HandedOver
<1>2. CASE played' = played
  BY <1>2, Zenon DEF PlayedType
<1>3. ASSUME ~HandOver("deliver", "loop"), ~HandOver("deliverLast", "exited")
      PROVE  played' = played
  BY <1>3, StepKinds, Zenon DEF Begin, Poll, SeeStop, ReadChunk, AllocatePorts, Start, Pause,
     StopFlags, JoinReceiver, JoinPlayback, FlushBuffers, OnConfig, Configure, Decode,
     renderer, vars
<1>4. QED
  BY <1>1, <1>2, <1>3

LEMMA ReadTypes ==
    ASSUME RingIInv, ask \in 0 .. MaxFrames, ChunkTypes, PlainTypes,
           NEW from, NEW to, NEW none, ReadChunk(from, to, none),
           \/ from = "read" /\ to = "deliver" /\ none = "loop"
           \/ from = "drain" /\ to = "deliverLast" /\ none = "exited"
    PROVE  ChunkTypes'
<1>1. CASE Taken(ask) = 0
  <2>1. pc = from /\ pc' = none /\ UNCHANGED <<tmp, got, fresh, wbpf, ask>>
    BY <1>1 DEF ReadChunk
  <2>2. QED
    BY <2>1 DEF ChunkTypes, Given
<1>2. CASE Taken(ask) # 0
  <2>1. Taken(ask) > 0
    BY <1>2, BytesRead
  <2>2. wbpf \in Formats /\ cfgNo \in Nat /\ tmp \in Seq(Samples) /\ Len(tmp) = ask * wbpf
    BY PlaybackAssumption DEF PlainTypes, ChunkTypes, ReadChunk
  <2>3. /\ Filled \in Seq(Samples) /\ Len(Filled) = Len(tmp)
        /\ Taken(ask) \in 1 .. MaxFrames
        /\ Taken(ask) * bpf \in Nat /\ Taken(ask) * bpf > 0
        /\ Taken(ask) * wbpf \in Nat /\ Taken(ask) * wbpf > 0
        /\ Taken(ask) * wbpf <= Len(tmp)
    BY <2>1, <2>2, FilledChunk
  <2>4. /\ tmp' = Filled /\ pc' \in {to, "overrun"} /\ got' = Taken(ask)
        /\ fresh' = Taken(ask) * bpf /\ wbpf' = wbpf
    BY <1>2 DEF ReadChunk
  <2>5. Given' = Taken(ask) * wbpf
    BY <2>4 DEF Given
  <2>7. got' \in 0 .. MaxFrames /\ got' > 0
    BY <2>3, <2>4
  <2>8. fresh' \in Nat /\ fresh' > 0 /\ tmp' \in Seq(Samples) /\ Len(tmp') = Len(tmp)
    BY <2>3, <2>4
  <2>9. Given' \in Nat /\ Given' > 0 /\ Given' <= Len(tmp')
    BY <2>3, <2>5, <2>8
  <2>10. pc' \in {"deliver", "deliverLast", "overrun"}
    BY <2>4
  <2>11. QED
    BY <2>7, <2>8, <2>9, <2>10 DEF ChunkTypes
<1>3. QED
  BY <1>1, <1>2

(* The thread is about to look, or gone: there is nothing to hand over.    *)
LEMMA IdleTypes ==
    ASSUME MaxFrames \in Nat, tmp' \in Seq(Samples), got' = 0, fresh' \in Nat,
           pc' \in {"off", "begin", "loop", "exited"}
    PROVE  ChunkTypes'
BY DEF ChunkTypes

(* tmp is resized to what is asked for.                                    *)
LEMMA AskedTypes ==
    ASSUME RingIInv, ChunkTypes, PlainTypes, Poll \/ SeeStop
    PROVE  ChunkTypes'
<1>1. MaxFrames \in Nat /\ wbpf \in Nat /\ Want \in Nat
  BY RingAssumption, PlaybackAssumption DEF PlainTypes
<1>2. Have \in Nat
  BY RingAssumption, RoundDown DEF Have, RingIInv, RingTypeInv
<1>3. /\ pc = "loop" /\ wbpf' = wbpf /\ got' = got /\ fresh' = fresh
      /\ pc' \in {"read", "drain", "exited"}
      /\ ask' \in {Want, Have} /\ tmp' = Resized(ask' * wbpf)
  BY DEF Poll, SeeStop
<1>4. ask' * wbpf \in Nat
  <2>1. ask' \in Nat
    BY <1>1, <1>2, <1>3
  <2>2. QED
    BY <1>1, <2>1, TimesNat
<1>5. tmp' \in Seq(Samples) /\ Len(tmp') = ask' * wbpf
  BY <1>3, <1>4, ResizedType DEF ChunkTypes
<1>6. got' \in 0 .. MaxFrames /\ ~(got' > 0) /\ fresh' \in Nat
  BY <1>3 DEF ChunkTypes
<1>7. QED
  BY <1>3, <1>5, <1>6 DEF ChunkTypes

LEMMA MovedTypes ==
    ASSUME ChunkTypes, Begin \/ Start \/ JoinPlayback \/ HandOver("deliver", "loop")
                       \/ HandOver("deliverLast", "exited")
    PROVE  ChunkTypes'
<1>1. MaxFrames \in Nat
  BY RingAssumption
<1>2. CASE Begin
  <2>1. /\ pc = "begin" /\ pc' = "loop" /\ tmp' = <<>> /\ got' = got /\ fresh' = fresh
    BY <1>2 DEF Begin
  <2>2. got = 0 /\ fresh \in Nat
    BY <1>1, <2>1 DEF ChunkTypes
  <2>3. QED
    BY <1>1, <2>1, <2>2, IdleTypes
<1>3. CASE Start
  <2>1. UNCHANGED <<tmp, got, fresh, wbpf, ask>> /\ (pc' = pc \/ (pc = "off" /\ pc' = "begin"))
    BY <1>3 DEF Start
  <2>2. QED
    BY <2>1 DEF ChunkTypes, Given
<1>4. CASE JoinPlayback
  <2>1. UNCHANGED <<tmp, got, fresh>> /\ pc \in {"off", "exited"} /\ pc' = "off"
    BY <1>4 DEF JoinPlayback
  <2>2. got = 0 /\ fresh \in Nat /\ tmp \in Seq(Samples)
    BY <1>1, <2>1 DEF ChunkTypes
  <2>3. QED
    BY <1>1, <2>1, <2>2, IdleTypes
<1>5. CASE HandOver("deliver", "loop") \/ HandOver("deliverLast", "exited")
  <2>1. tmp' = tmp /\ got' = 0 /\ fresh' = 0 /\ pc' \in {"loop", "exited"}
    BY <1>5 DEF HandOver
  <2>2. tmp \in Seq(Samples)
    BY DEF ChunkTypes
  <2>3. QED
    BY <1>1, <2>1, <2>2, IdleTypes
<1>6. QED
  BY <1>2, <1>3, <1>4, <1>5

LEMMA ChunkStep ==
    ASSUME RingIInv, ask \in 0 .. MaxFrames, ChunkTypes, PlainTypes, [Next]_vars
    PROVE  ChunkTypes'
<1>1. CASE \/ ReadChunk("read", "deliver", "loop")
           \/ ReadChunk("drain", "deliverLast", "exited")
  BY <1>1, ReadTypes
<1>2. CASE Begin \/ Start \/ JoinPlayback \/ HandOver("deliver", "loop")
           \/ HandOver("deliverLast", "exited")
  BY <1>2, MovedTypes
<1>3. CASE Poll \/ SeeStop
  BY <1>3, AskedTypes
<1>4. CASE UNCHANGED worker
  BY <1>4, Zenon DEF ChunkTypes, Given, worker
<1>5. ASSUME \/ AllocatePorts \/ Pause \/ StopFlags \/ JoinReceiver \/ FlushBuffers \/ OnConfig
             \/ \E b \in Formats : Configure(b)
             \/ \E k \in 1 .. MaxWrite, r \in 0 .. bpf - 1 : Decode(k * bpf + r)
             \/ UNCHANGED vars
      PROVE  UNCHANGED worker
  BY <1>5, Zenon DEF AllocatePorts, Pause, StopFlags, JoinReceiver, FlushBuffers, OnConfig,
     Configure, Decode, vars
<1>6. QED
  BY <1>1, <1>2, <1>3, <1>4, <1>5, StepKinds, Zenon

LEMMA PlayerInductive == Spec => []PlayerIInv
<1>1. Init => PlayerIInv
  <2> SUFFICES ASSUME Init PROVE PlayerIInv
    OBVIOUS
  <2>1. RingIInv
    BY RingInitial DEF Init
  <2>2. bpf \in Formats /\ MaxFrames \in Nat /\ MaxConfig \in Nat
    BY <2>1, RingAssumption, PlaybackAssumption DEF RingIInv, RingTypeInv
  <2>3. FlagTypes /\ ChunkTypes
    <3>1. FlagTypes
      BY Zenon DEF Init, FlagTypes
    <3>2. pc = "off" /\ tmp = <<>> /\ got = 0 /\ fresh = 0
      BY DEF Init
    <3>3. QED
      BY <2>2, <3>1, <3>2 DEF ChunkTypes
  <2>4. PlainTypes /\ PlayedType /\ ask \in 0 .. MaxFrames
    BY <2>2 DEF Init, PlainTypes, PlayedType, Samples, Silent
  <2>5. QED
    BY <2>1, <2>3, <2>4 DEF PlayerIInv, PlayerTypes
<1>2. PlayerIInv /\ [Next]_vars => PlayerIInv'
  <2> SUFFICES ASSUME PlayerIInv, [Next]_vars PROVE PlayerIInv'
    OBVIOUS
  <2>1. RingIInv /\ ask \in 0 .. MaxFrames /\ PlayerTypes
    BY DEF PlayerIInv
  <2>2. RingIInv' /\ ask' \in 0 .. MaxFrames
    BY <2>1, RingUse, AskStep, RingStep
  <2>3. RingTypeInv /\ RingTypeInv'
    BY <2>1, <2>2 DEF RingIInv
  <2>4. PlayerTypes'
    BY <2>1, <2>3, FlagsStep, ChunkStep, PlainStep, PlayedStep DEF PlayerTypes
  <2>5. QED
    BY <2>2, <2>4 DEF PlayerIInv
<1>3. QED
  BY <1>1, <1>2, PTL DEF Spec

(* In the running player every variable has its type and the ring holds    *)
(* the newest bytes, in order and in whole frames.                         *)
THEOREM PlayerWellFormed == Spec => []WellFormed
<1>1. PlayerIInv => WellFormed
  BY DEF PlayerIInv, PlayerTypes, FlagTypes, ChunkTypes, PlainTypes, PlayedType, RingIInv,
     TypeInv, WellFormed
<1>2. QED
  BY <1>1, PlayerInductive, PTL

(* on_stop is the last call: the playback thread has been joined.          *)
THEOREM StoppedIsQuiet == Spec => QuietWhenStopped
<1> DEFINE Off == silenced => pc = "off"
<1>1. Init => Off
  BY DEF Init
<1>2. Off /\ [Next]_vars => Off'
  <2> SUFFICES ASSUME Off, [Next]_vars PROVE Off'
    OBVIOUS
  <2>1. CASE Worker
    BY <2>1 DEF Worker, Begin, Poll, SeeStop, ReadChunk, HandOver, renderer
  <2>2. CASE Rtsp
    BY <2>2 DEF Rtsp, AllocatePorts, Start, Pause, StopFlags, JoinReceiver, JoinPlayback,
       FlushBuffers, Configure, OnConfig, renderer, worker
  <2>3. CASE \E k \in 1 .. MaxWrite, r \in 0 .. bpf - 1 : Decode(k * bpf + r)
    BY <2>3 DEF Decode, renderer, worker
  <2>4. CASE UNCHANGED vars
    BY <2>4 DEF vars, renderer, worker
  <2>5. QED
    BY <2>1, <2>2, <2>3, <2>4 DEF Next
<1>3. Off /\ [Next]_vars => [silenced => played' = played]_vars
  <2> SUFFICES ASSUME Off, [Next]_vars, silenced PROVE played' = played
    OBVIOUS
  <2>1. pc = "off"
    OBVIOUS
  <2>2. QED
    BY <2>1 DEF Next, Worker, Rtsp, Decode, Begin, Poll, SeeStop, ReadChunk, HandOver,
       AllocatePorts, Start, Pause, StopFlags, JoinReceiver, JoinPlayback, FlushBuffers,
       Configure, OnConfig, renderer, vars
<1>4. QED
  BY <1>1, <1>2, <1>3, PTL DEF Spec, QuietWhenStopped

(* What the player does to the ring is what a queue may do.                *)
THEOREM PlayerRefinesQueue == Spec => ImplementsQueue
<1>1. PlayerIInv /\ PlayerIInv' /\ [Next]_vars => [Queue!Next]_<<Held, Count>>
  BY RingUse, RingIsQueue DEF PlayerIInv
<1>2. Init => Queue!Init
  BY QueueInit DEF Init
<1>3. QED
  BY <1>1, <1>2, PlayerInductive, PTL DEF Spec, ImplementsQueue, Queue!Spec, Held, Count
-----------------------------------------------------------------------------
(* The order of what the renderer is given.  Front is the number of the    *)
(* oldest byte held: whatever has been read under the configuration of the *)
(* ring lies before it, and with it all that tmp holds.                    *)
Front == total - used

Now == <<cfgNo, Front>>

(* What on_pcm is about to be given.                                       *)
ChunkGood ==
    /\ Before(played, tmp[1])
    /\ \A j \in 1 .. Given :
          IF j <= fresh THEN tmp[j] = <<tmp[1][1], tmp[1][2] + j - 1>>
          ELSE Before(tmp[j], tmp[1])
    /\ tmp[1][1] = wcfg => Given = fresh

OrderInv ==
    /\ Before(played, Now)
    /\ \A j \in 1 .. Len(tmp) : Before(tmp[j], Now)
    /\ got > 0 => ChunkGood
    /\ wcfg = cfgNo => wbpf = bpf

LEMMA OrderTypes ==
    ASSUME PlayerIInv
    PROVE  /\ Front \in Nat /\ cfgNo \in Nat /\ wcfg \in Nat /\ wcfg <= cfgNo
           /\ played \in Samples /\ tmp \in Seq(Samples)
           /\ wbpf \in Nat /\ bpf \in Nat
<1>1. Front \in Nat
  BY Capacity DEF PlayerIInv, RingIInv, RingTypeInv, RingInv, CapIs, Front
<1>2. cfgNo \in Nat /\ wcfg \in Nat /\ wcfg <= cfgNo /\ wbpf \in Nat /\ bpf \in Nat
  BY PlaybackAssumption, RingAssumption DEF PlayerIInv, PlayerTypes, PlainTypes, RingIInv,
     RingTypeInv
<1>3. played \in Samples /\ tmp \in Seq(Samples)
  BY DEF PlayerIInv, PlayerTypes, PlayedType, ChunkTypes
<1>4. QED
  BY <1>1, <1>2, <1>3

(* What came before the front comes before it wherever it moves.           *)
LEMMA BeforeLater ==
    ASSUME NEW x \in Samples, NEW c \in Nat, NEW f \in Nat, NEW d \in Nat, NEW g \in Nat,
           Before(x, <<c, f>>), (d = c /\ g >= f) \/ d = c + 1
    PROVE  Before(x, <<d, g>>)
<1>1. x[1] \in Nat /\ x[2] \in Int
  BY DEF Samples, Blank
<1>2. x[1] < c \/ (x[1] = c /\ x[2] < f)
  BY DEF Before
<1>3. x[1] < d \/ (x[1] = d /\ x[2] < g)
  BY <1>1, <1>2
<1>4. QED
  BY <1>3 DEF Before

LEMMA SilentBefore ==
    ASSUME PlayerIInv
    PROVE  Before(Silent, Now)
BY OrderTypes DEF Before, Silent, Now, Blank

(* The steps that leave tmp and the renderer alone: the front only moves   *)
(* on, or the configuration is a new one.                                  *)
LEMMA OrderKept ==
    ASSUME PlayerIInv, OrderInv, UNCHANGED <<wbpf, wcfg, tmp, got, fresh, played>>,
           Front' \in Nat,
           (cfgNo' = cfgNo /\ bpf' = bpf /\ Front' >= Front) \/ cfgNo' = cfgNo + 1
    PROVE  OrderInv'
<1>1. /\ Front \in Nat /\ cfgNo \in Nat /\ wcfg \in Nat /\ wcfg <= cfgNo
      /\ played \in Samples /\ tmp \in Seq(Samples)
  BY OrderTypes
<1>2. cfgNo' \in Nat
  BY <1>1
<1>3. ASSUME NEW x \in Samples, Before(x, Now) PROVE Before(x, <<cfgNo', Front'>>)
  BY <1>1, <1>2, <1>3, BeforeLater DEF Now
<1>4. Before(played, <<cfgNo', Front'>>)
  BY <1>1, <1>3 DEF OrderInv
<1>5. ASSUME NEW j \in 1 .. Len(tmp) PROVE Before(tmp[j], <<cfgNo', Front'>>)
  <2>1. Before(tmp[j], Now) /\ tmp[j] \in Samples
    BY <1>1 DEF OrderInv
  <2>2. QED
    BY <1>3, <2>1
<1>6. ChunkGood' = ChunkGood
  BY DEF ChunkGood, Given, Before
<1>7. wcfg' = cfgNo' => wbpf' = bpf'
  BY <1>1 DEF OrderInv
<1>8. QED
  BY <1>4, <1>5, <1>6, <1>7 DEF OrderInv, Now

(* A read puts the oldest bytes of the ring, in their order, at the front  *)
(* of tmp, and leaves what is behind them.                                 *)
LEMMA ChunkRead ==
    ASSUME RingIInv, ask \in 0 .. MaxFrames, Taken(ask) > 0
    PROVE  \A j \in 1 .. Len(tmp) :
             Filled[j] = IF j <= Taken(ask) * bpf THEN <<cfgNo, Front + j - 1>>
                         ELSE tmp[j]
<1> DEFINE len == Taken(ask) * bpf
           read == Bytes(ask)
<1>1. /\ rd \in Nat /\ total \in Nat /\ used \in Nat /\ used <= total
  BY Capacity DEF RingIInv, RingTypeInv, RingInv, CapIs
<1>2. len \in Nat /\ len <= used /\ Len(read) = len
  BY BytesRead
<1>3. ASSUME NEW j \in 1 .. len PROVE read[j] = Front + j - 1
  <2> DEFINE i == j - 1
  <2>1. i \in 0 .. used - 1
    BY <1>1, <1>2
  <2>2. read[j] = data[(rd + j - 1) % Cap]
    BY DEF Bytes
  <2>3. rd + j - 1 = rd + i
    BY <1>1, <1>2
  <2> HIDE DEF i
  <2>4. data[(rd + i) % Cap] = total - used + i
    BY <2>1 DEF RingIInv, RingInv
  <2>5. total - used + i = Front + j - 1
    BY <1>1, <1>2 DEF Front, i
  <2>6. QED
    BY <2>2, <2>3, <2>4, <2>5
<1>4. Filled = [j \in 1 .. Len(tmp) |-> IF j <= Len(read) THEN <<cfgNo, read[j]>> ELSE tmp[j]]
  BY DEF Filled
<1> HIDE DEF len, read
<1>5. ASSUME NEW j \in 1 .. Len(tmp)
      PROVE  Filled[j] = IF j <= len THEN <<cfgNo, Front + j - 1>> ELSE tmp[j]
  <2>1. CASE j <= len
    <3>1. read[j] = Front + j - 1
      BY <1>2, <1>3, <2>1
    <3>2. QED
      BY <1>2, <1>4, <2>1, <3>1
  <2>2. CASE ~(j <= len)
    BY <1>2, <1>4, <2>2
  <2>3. QED
    BY <2>1, <2>2
<1>6. QED
  BY <1>5 DEF len

LEMMA ReadOrder ==
    ASSUME PlayerIInv, OrderInv, NEW from, NEW to, NEW none, ReadChunk(from, to, none),
           from = "read" \/ from = "drain"
    PROVE  OrderInv'
<1>1. /\ RingIInv /\ ask \in 0 .. MaxFrames /\ wbpf \in Formats
      /\ tmp \in Seq(Samples) /\ Len(tmp) = ask * wbpf
  BY DEF PlayerIInv, PlayerTypes, PlainTypes, ChunkTypes, ReadChunk
<1>2. played' = played /\ cfgNo' = cfgNo /\ wbpf' = wbpf /\ wcfg' = wcfg
  BY DEF ReadChunk, renderer, counters
<1>3. /\ Front \in Nat /\ cfgNo \in Nat /\ wcfg \in Nat /\ played \in Samples
      /\ wbpf \in Nat /\ bpf \in Nat
  BY OrderTypes
<1>4. CASE Taken(ask) = 0
  <2>1. UNCHANGED <<tmp, got, fresh>> /\ bpf' = bpf /\ Front' = Front
    BY <1>4 DEF ReadChunk, ring, Front
  <2>2. QED
    BY <1>2, <1>3, <2>1, OrderKept
<1>5. CASE Taken(ask) # 0
  <2> DEFINE len == Taken(ask) * bpf
  <2>1. Taken(ask) > 0
    BY <1>1, <1>5, BytesRead
  <2>2. /\ Len(Filled) = Len(tmp) /\ len \in Nat /\ len > 0
        /\ Taken(ask) * wbpf \in Nat /\ Taken(ask) * wbpf > 0
        /\ Taken(ask) * wbpf <= Len(tmp)
    BY <1>1, <1>3, <2>1, FilledChunk
  <2>3. /\ tmp' = Filled /\ got' = Taken(ask) /\ fresh' = len
        /\ Read(ask)
    BY <1>5 DEF ReadChunk
  <2>4. Given' = Taken(ask) * wbpf
    BY <1>2, <2>3 DEF Given
  <2>5. Front' = Front + len /\ bpf' = bpf
    <3>1. used' = used - len /\ total' = total /\ bpf' = bpf
      BY <2>3 DEF Read
    <3>2. used \in Nat /\ total \in Nat
      BY <1>1, Capacity DEF RingIInv, RingTypeInv, CapIs
    <3>3. QED
      BY <2>2, <3>1, <3>2 DEF Front
  <2>6. \A j \in 1 .. Len(tmp) :
           Filled[j] = IF j <= len THEN <<cfgNo, Front + j - 1>> ELSE tmp[j]
    BY <1>1, <2>1, ChunkRead
  <2>7. \A j \in 1 .. Len(tmp) : Before(tmp[j], Now) /\ tmp[j] \in Samples
    BY <1>1 DEF OrderInv
  <2> HIDE DEF len
  <2>8. Len(tmp) \in Nat /\ 1 \in 1 .. Len(tmp)
    BY <1>1, <2>2
  <2>9. Filled[1] = Now
    <3>1. Filled[1] = IF 1 <= len THEN <<cfgNo, Front + 1 - 1>> ELSE tmp[1]
      BY <2>6, <2>8, Zenon
    <3>2. 1 <= len /\ Front + 1 - 1 = Front
      BY <1>3, <2>2
    <3>3. QED
      BY <3>1, <3>2 DEF Now
  <2>10. Before(played, Now)
    BY DEF OrderInv
  <2>11. ASSUME NEW j \in 1 .. Taken(ask) * wbpf
         PROVE  IF j <= len THEN Filled[j] = <<cfgNo, Front + j - 1>>
                ELSE Before(Filled[j], Now)
    <3>1. j \in 1 .. Len(tmp)
      BY <2>2, <2>8
    <3>2. QED
      BY <2>6, <2>7, <3>1
  <2>12. ChunkGood'
    <3>1. tmp'[1][1] = cfgNo /\ tmp'[1][2] = Front /\ tmp'[1] = Now
      BY <2>3, <2>9 DEF Now
    <3>2. Before(played', tmp'[1])
      BY <1>2, <2>10, <3>1
    <3>3. \A j \in 1 .. Given' :
             IF j <= fresh' THEN tmp'[j] = <<tmp'[1][1], tmp'[1][2] + j - 1>>
             ELSE Before(tmp'[j], tmp'[1])
      BY <2>3, <2>4, <2>11, <3>1
    <3>4. tmp'[1][1] = wcfg' => Given' = fresh'
      BY <1>2, <2>3, <2>4, <3>1 DEF OrderInv, len
    <3>5. QED
      BY <3>2, <3>3, <3>4 DEF ChunkGood, Before
  <2>13. ASSUME NEW x \in Samples, Before(x, Now) PROVE Before(x, <<cfgNo, Front + len>>)
    BY <1>3, <2>2, <2>13, BeforeLater DEF Now
  <2>14. ASSUME NEW j \in 1 .. Len(tmp) PROVE Before(Filled[j], <<cfgNo, Front + len>>)
    <3>1. CASE j <= len
      <4>1. Filled[j] = <<cfgNo, Front + j - 1>>
        BY <2>6, <3>1
      <4>2. Front + j - 1 < Front + len
        BY <1>3, <2>2, <3>1
      <4>3. QED
        BY <4>1, <4>2 DEF Before
    <3>2. CASE ~(j <= len)
      BY <2>6, <2>7, <2>13, <3>2
    <3>3. QED
      BY <3>1, <3>2
  <2>15. Now' = <<cfgNo, Front + len>>
    BY <1>2, <2>5 DEF Now
  <2>16. Before(played', Now') /\ \A j \in 1 .. Len(tmp') : Before(tmp'[j], Now')
    BY <1>2, <1>3, <2>2, <2>3, <2>10, <2>13, <2>14, <2>15
  <2>17. wcfg' = cfgNo' => wbpf' = bpf'
    BY <1>2, <2>5 DEF OrderInv
  <2>18. QED
    BY <2>12, <2>16, <2>17 DEF OrderInv, Before
<1>6. QED
  BY <1>4, <1>5

LEMMA HandOrder ==
    ASSUME PlayerIInv, OrderInv, NEW from, NEW to, HandOver(from, to),
           from = "deliver" \/ from = "deliverLast"
    PROVE  OrderInv'
<1> DEFINE last == IF fresh < Given THEN fresh ELSE Given
<1>1. /\ tmp \in Seq(Samples) /\ fresh \in Nat /\ fresh > 0
      /\ Given \in Nat /\ Given > 0 /\ Given <= Len(tmp)
  BY DEF HandOver, PlayerIInv, PlayerTypes, ChunkTypes
<1>2. last \in 1 .. Len(tmp)
  BY <1>1
<1>3. played' = tmp[last] /\ ~(got' > 0)
      /\ UNCHANGED <<tmp, wbpf, wcfg, cfgNo, bpf, total, used>>
  BY DEF HandOver, counters, ring
<1> HIDE DEF last
<1>4. Now' = Now
  BY <1>3 DEF Now, Front
<1>5. Before(tmp[last], Now)
  BY <1>2 DEF OrderInv
<1>6. QED
  BY <1>3, <1>4, <1>5 DEF OrderInv, Before

(* tmp is emptied when the thread begins, and resized when it asks.        *)
LEMMA BeginOrder ==
    ASSUME PlayerIInv, OrderInv, Begin
    PROVE  OrderInv'
<1>1. /\ tmp' = <<>> /\ got' = got /\ wbpf' = bpf /\ wcfg' = cfgNo /\ pc = "begin"
      /\ UNCHANGED <<cfgNo, bpf, total, used, played>>
  BY DEF Begin, counters, ring, renderer
<1>2. ~(got' > 0)
  BY <1>1 DEF PlayerIInv, PlayerTypes, ChunkTypes
<1>3. Now' = Now
  BY <1>1 DEF Now, Front
<1>4. \A j \in 1 .. Len(tmp') : Before(tmp'[j], Now')
  BY <1>1
<1>5. QED
  BY <1>1, <1>2, <1>3, <1>4 DEF OrderInv, Before

LEMMA AskOrder ==
    ASSUME PlayerIInv, OrderInv, NEW n \in Nat, tmp' = Resized(n), ~(got > 0), got' = got,
           UNCHANGED <<wbpf, wcfg, cfgNo, bpf, total, used, played>>
    PROVE  OrderInv'
<1>1. Now' = Now
  BY DEF Now, Front
<1>2. Before(Silent, Now) /\ tmp \in Seq(Samples)
  BY SilentBefore, OrderTypes
<1>3. Len(tmp') = n
  BY <1>2, ResizedType
<1>4. ASSUME NEW j \in 1 .. n PROVE Before(tmp'[j], Now)
  <2>1. tmp'[j] = IF j <= Len(tmp) THEN tmp[j] ELSE Silent
    BY DEF Resized
  <2>2. CASE j <= Len(tmp)
    <3>1. j \in 1 .. Len(tmp)
      BY <1>2, <2>2
    <3>2. QED
      BY <2>1, <2>2, <3>1 DEF OrderInv
  <2>3. CASE ~(j <= Len(tmp))
    BY <1>2, <2>1, <2>3
  <2>4. QED
    BY <2>2, <2>3
<1>5. QED
  BY <1>1, <1>3, <1>4 DEF OrderInv, Before

LEMMA FrontType == PlayerIInv => Front \in Nat
BY OrderTypes

LEMMA OrderStep ==
    ASSUME PlayerIInv, PlayerIInv', OrderInv, [Next]_vars
    PROVE  OrderInv'
<1>1. Front' \in Nat /\ Front \in Nat /\ total \in Nat /\ used \in Nat
  <2>1. total \in Nat /\ used \in Nat
    BY Capacity DEF PlayerIInv, RingIInv, RingTypeInv, CapIs
  <2>2. (PlayerIInv => Front \in Nat)'
    BY FrontType, PTL
  <2>3. QED
    BY <2>1, <2>2, FrontType
<1>2. CASE \/ ReadChunk("read", "deliver", "loop")
           \/ ReadChunk("drain", "deliverLast", "exited")
  BY <1>2, ReadOrder
<1>3. CASE HandOver("deliver", "loop") \/ HandOver("deliverLast", "exited")
  BY <1>3, HandOrder
<1>4. CASE \/ AllocatePorts \/ Start \/ Pause \/ StopFlags
           \/ JoinReceiver \/ JoinPlayback \/ OnConfig \/ UNCHANGED vars
  <2>1. UNCHANGED <<wbpf, wcfg, tmp, got, fresh, played, cfgNo, ring>>
    BY <1>4, Zenon DEF AllocatePorts, Start, Pause, StopFlags, JoinReceiver,
       JoinPlayback, OnConfig, vars, worker, renderer, counters
  <2>2. Front' = Front /\ bpf' = bpf
    BY <2>1 DEF ring, Front
  <2>3. QED
    BY <1>1, <2>1, <2>2, OrderKept
<1>5. CASE FlushBuffers
  <2>1. UNCHANGED <<wbpf, wcfg, tmp, got, fresh, played, cfgNo>> /\ Flush
    BY <1>5 DEF FlushBuffers, worker, renderer
  <2>2. Front' >= Front /\ bpf' = bpf
    BY <1>1, <2>1 DEF Flush, Front
  <2>3. QED
    BY <1>1, <2>1, <2>2, OrderKept
<1>6. ASSUME NEW b \in Formats, Configure(b) PROVE OrderInv'
  <2>1. UNCHANGED <<wbpf, wcfg, tmp, got, fresh, played>> /\ cfgNo' = cfgNo + 1
    BY <1>6 DEF Configure, worker, renderer
  <2>2. QED
    BY <1>1, <2>1, OrderKept
<1>7. ASSUME NEW k \in 1 .. MaxWrite, NEW r \in 0 .. bpf - 1, Decode(k * bpf + r)
      PROVE  OrderInv'
  <2>1. UNCHANGED <<wbpf, wcfg, tmp, got, fresh, played, cfgNo>> /\ Write(k * bpf + r)
    BY <1>7 DEF Decode, worker, renderer, counters
  <2>2. PICK bytes \in Nat, skip \in Nat :
            used' = used - skip + bytes /\ total' = total + bytes
    BY <2>1, WriteArith DEF PlayerIInv, RingIInv
  <2>3. Front' >= Front
    BY <1>1, <2>2 DEF Front
  <2>4. bpf' = bpf
    BY <2>1 DEF Write
  <2>5. QED
    BY <1>1, <2>1, <2>3, <2>4, OrderKept
<1>8. CASE Begin
  BY <1>8, BeginOrder
<1>9. CASE Poll \/ SeeStop
  <2>1. /\ pc = "loop" /\ got' = got /\ tmp' = Resized(ask' * wbpf)
        /\ UNCHANGED <<wbpf, wcfg, cfgNo, bpf, total, used, played>>
    BY <1>9 DEF Poll, SeeStop, counters, ring, renderer
  <2>2. ~(got > 0)
    BY <2>1 DEF PlayerIInv, PlayerTypes, ChunkTypes
  <2>3. ask' \in 0 .. MaxFrames /\ MaxFrames \in Nat
    BY RingAssumption DEF PlayerIInv
  <2>4. wbpf \in Nat /\ ask' \in Nat
    BY <2>3, OrderTypes
  <2>5. ask' * wbpf \in Nat
    BY <2>4, TimesNat
  <2>6. QED
    BY <2>1, <2>2, <2>5, AskOrder
<1>10. QED
  BY <1>2, <1>3, <1>4, <1>5, <1>6, <1>7, <1>8, <1>9, StepKinds, Zenon

(* New samples reach the renderer in the order they were decoded, what     *)
(* follows them in a chunk is never newer, and while the configuration     *)
(* lasts that the playback thread began under, no sample goes out twice    *)
(* and none of a chunk is cut off, for any ring, formats and writes,       *)
(* however the threads interleave (playback_worker).                       *)
THEOREM RendererInOrder == Spec => PlayedInOrder
<1> DEFINE InOrderNow ==
      got > 0 /\ got' = 0 =>
          /\ Before(played, tmp[1])
          /\ \A j \in 1 .. Given :
                IF j <= fresh THEN tmp[j] = <<tmp[1][1], tmp[1][2] + j - 1>>
                ELSE Before(tmp[j], tmp[1])
          /\ tmp[1][1] = wcfg => Given = fresh
<1>1. PlayerIInv /\ Init => OrderInv
  <2> SUFFICES ASSUME PlayerIInv, Init PROVE OrderInv
    OBVIOUS
  <2>1. Before(Silent, Now)
    BY SilentBefore
  <2>2. played = Silent /\ cfgNo = 0 /\ wcfg = 0 /\ tmp = <<>> /\ got = 0 /\ wbpf = bpf
    BY DEF Init
  <2>3. QED
    BY <2>1, <2>2 DEF OrderInv
<1>2. PlayerIInv /\ PlayerIInv' /\ OrderInv /\ [Next]_vars => OrderInv'
  BY OrderStep
<1>3. OrderInv => [InOrderNow]_vars
  BY DEF OrderInv, ChunkGood
<1>4. QED
  BY <1>1, <1>2, <1>3, PlayerInductive, PTL DEF Spec, PlayedInOrder
=============================================================================
