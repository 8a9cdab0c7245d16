---------------------------- MODULE StreamProofs ----------------------------
(***************************************************************************)
(* That a stream arrives as it was sent, for every job: in which pieces a  *)
(* message is hashed, frames of the screen or requests are received, or    *)
(* which packets of audio were lost, doubled or reordered.                 *)
(*                                                                         *)
(* The loops of the code are functions on 0..n (Loops): the first lemmas   *)
(* unfold one turn of each, and SetInduction, on a set of naturals, proves *)
(* of all turns what is proved of one.                                     *)
(***************************************************************************)
EXTENDS StreamInvariants, TLAPS, WellFoundedInduction, SequenceTheorems

\* The order of the naturals, as the least-element principle takes it.
LEMMA LessWF == IsWellFoundedOn({ss \in Nat \X Nat : ss[1] < ss[2]}, Nat)
BY NatLessThanWellFounded DEF OpToRel

\* A set of naturals that is not empty has a least element.
LEMMA LeastElement ==
  ASSUME NEW T, T \subseteq Nat, T # {}
  PROVE  \E x \in T : \A y \in T : ~(y < x)
<1> DEFINE R == {ss \in Nat \X Nat : ss[1] < ss[2]}
<1>3. \E x \in T : \A y \in T : ~ (<<y, x>> \in R)
  <2>1. IsWellFoundedOn(R, Nat) 
    BY LessWF
  <2> HIDE DEF R
  <2> QED BY <2>1, WFMin
<1> QED BY <1>3

\* Induction, on a set of naturals: what is proved of a loop is proved by it.
LEMMA SetInduction ==
  ASSUME NEW S, 0 \in S, \A n \in Nat : n \in S => n+1 \in S
  PROVE  Nat \subseteq S
<1> SUFFICES ASSUME ~(Nat \subseteq S) PROVE FALSE
  OBVIOUS
<1> DEFINE T == Nat \ S
<1>4. PICK x \in T : \A y \in T : ~ (y < x)
  BY LeastElement
<1>7. x-1 \in Nat /\ x-1+1 = x
  BY <1>4
<1> QED BY <1>4, <1>7

\* One law for all loops: what n turns leave, from what n - 1 left.
LEMMA AfterLaw ==
  ASSUME NEW l, NEW z
  PROVE  /\ After(l, z, 0) = z
         /\ \A n \in Nat \ {0} : After(l, z, n) = Turn(l, After(l, z, n - 1), n)
<1> DEFINE R(f, k) == Turns(l, z, k, f)
           W(k) == CHOOSE f : R(f, k)
<1>1. \A k : After(l, z, k) = W(k)[k] BY DEF After
<1>2. \A k \in Nat : \E f : R(f, k)
  <2> DEFINE E == {k \in Nat : \E f : R(f, k)}
  <2>1. 0 \in E
    <3>1. R([i \in 0..0 |-> z], 0) BY DEF Turns
    <3> QED BY <3>1
  <2>2. ASSUME NEW k \in Nat, k \in E PROVE k + 1 \in E
    <3>1. PICK f : R(f, k) BY <2>2
    <3>2. R([i \in 0..k+1 |-> IF i <= k THEN f[i] ELSE Turn(l, f[k], k+1)], k + 1)
      BY <3>1 DEF Turns
    <3> HIDE DEF R
    <3> QED BY <3>2
  <2> HIDE DEF E
  <2>3. Nat \subseteq E BY <2>1, <2>2, SetInduction
  <2> QED BY <2>3 DEF E
<1>3. \A k \in Nat : R(W(k), k)
  <2> HIDE DEF R
  <2> QED BY <1>2
<1> HIDE DEF W
<1>4. ASSUME NEW k \in Nat
      PROVE  W(k)[0] = z /\ \A i \in 1..k : W(k)[i] = Turn(l, W(k)[i - 1], i)
  <2>1. R(W(k), k) BY <1>3
  <2> QED BY <2>1 DEF Turns
<1> HIDE DEF R
<1>5. ASSUME NEW n \in Nat PROVE W(n + 1)[n] = W(n)[n]
  <2> DEFINE U == {i \in Nat : i <= n => W(n + 1)[i] = W(n)[i]}
  <2>1. 0 \in U BY <1>4
  <2>2. ASSUME NEW i \in Nat, i \in U PROVE i + 1 \in U
    BY <1>4, <2>2
  <2> HIDE DEF U
  <2>3. n \in U BY <2>1, <2>2, SetInduction
  <2> QED BY <2>3 DEF U
<1>6. After(l, z, 0) = z BY <1>1, <1>4
<1>7. ASSUME NEW n \in Nat \ {0} PROVE After(l, z, n) = Turn(l, After(l, z, n - 1), n)
  <2>1. n - 1 \in Nat /\ (n - 1) + 1 = n OBVIOUS
  <2>2. W(n)[n] = Turn(l, W(n)[n - 1], n) BY <1>4
  <2>3. W((n - 1) + 1)[n - 1] = W(n - 1)[n - 1] BY <1>5, <2>1
  <2> QED BY <1>1, <2>1, <2>2, <2>3
<1> QED BY <1>6, <1>7

\* A loop of n turns, turn by turn.
LEMMA AfterTurns ==
  ASSUME NEW l, NEW z, NEW n \in Nat
  PROVE  \E a : /\ a[0] = z
                /\ \A i \in 1..n : a[i] = Turn(l, a[i - 1], i)
                /\ After(l, z, n) = a[n]
<1> DEFINE a == [i \in 0..n |-> After(l, z, i)]
<1>1. a[0] = z BY AfterLaw
<1>2. ASSUME NEW i \in 1..n PROVE a[i] = Turn(l, a[i - 1], i)
  <2>1. i \in Nat \ {0} /\ i - 1 \in 0..n /\ i \in 0..n OBVIOUS
  <2>2. After(l, z, i) = Turn(l, After(l, z, i - 1), i) BY <2>1, AfterLaw
  <2>3. a[i] = After(l, z, i) /\ a[i - 1] = After(l, z, i - 1) BY <2>1
  <2> QED BY <2>2, <2>3
<1>3. After(l, z, n) = a[n] OBVIOUS
<1> HIDE DEF a
<1> QED BY <1>1, <1>2, <1>3

\* The loops unfolded: what n turns leave, from what n - 1 left.  First Joined.
LEMMA JoinedLaw ==
  ASSUME NEW parts
  PROVE  /\ Joined(parts, 0) = <<>>
         /\ \A n \in Nat \ {0} : Joined(parts, n) = Joined(parts, n - 1) \o parts[n]
<1> DEFINE l == [of |-> "Joined", parts |-> parts]
           z == <<>>
           T(s, i) == s \o parts[i]
           P(f, n) == f = [i \in 0..n |-> IF i = 0 THEN z ELSE T(f[i - 1], i)]
<1>1. \A s, i : Turn(l, s, i) = T(s, i) BY DEF Turn
<1>2. \A n : Joined(parts, n) = (CHOOSE f : P(f, n))[n] BY ZenonT(60) DEF Joined, Iterate
<1> HIDE DEF l, z, T
<1>3. \A f, n : P(f, n) <=> Turns(l, z, n, f) BY <1>1 DEF Turns
<1> HIDE DEF P
<1>4. \A n : Joined(parts, n) = After(l, z, n) BY <1>2, <1>3, Zenon DEF After
<1>5. Joined(parts, 0) = z /\ \A n \in Nat \ {0} : Joined(parts, n) = T(Joined(parts, n - 1), n)
  BY <1>1, <1>4, AfterLaw
<1> QED BY <1>5, Zenon DEF z, T

\* A number without its last n bytes.
LEMMA ShiftedLaw ==
  ASSUME NEW m
  PROVE  /\ Shifted(m, 0) = m
         /\ \A n \in Nat \ {0} : Shifted(m, n) = Shifted(m, n - 1) \div 256
<1> DEFINE l == [of |-> "Shifted"]
           z == m
           T(s, i) == s \div 256
           P(f, n) == f = [i \in 0..n |-> IF i = 0 THEN z ELSE T(f[i - 1], i)]
<1>1. \A s, i : Turn(l, s, i) = T(s, i) BY DEF Turn
<1>2. \A n : Shifted(m, n) = (CHOOSE f : P(f, n))[n] BY ZenonT(60) DEF Shifted, Iterate
<1> HIDE DEF l, z, T
<1>3. \A f, n : P(f, n) <=> Turns(l, z, n, f) BY <1>1 DEF Turns
<1> HIDE DEF P
<1>4. \A n : Shifted(m, n) = After(l, z, n) BY <1>2, <1>3, Zenon DEF After
<1> QED BY <1>1, <1>4, AfterLaw DEF z, T

\* What the n last bytes of a counter carry.
LEMMA CarryLaw ==
  ASSUME NEW iv, NEW m
  PROVE  /\ Carry(iv, m, 0) = m
         /\ \A n \in Nat \ {0} : Carry(iv, m, n) = (iv[17 - n] + Carry(iv, m, n - 1)) \div 256
<1> DEFINE l == [of |-> "Carry", iv |-> iv]
           z == m
           T(s, i) == (iv[17 - i] + s) \div 256
           P(f, n) == f = [i \in 0..n |-> IF i = 0 THEN z ELSE T(f[i - 1], i)]
<1>1. \A s, i : Turn(l, s, i) = T(s, i) BY DEF Turn
<1>2. \A n : Carry(iv, m, n) = (CHOOSE f : P(f, n))[n] BY ZenonT(60) DEF Carry, Iterate
<1> HIDE DEF l, z, T
<1>3. \A f, n : P(f, n) <=> Turns(l, z, n, f) BY <1>1 DEF Turns
<1> HIDE DEF P
<1>4. \A n : Carry(iv, m, n) = After(l, z, n) BY <1>2, <1>3, Zenon DEF After
<1> QED BY <1>1, <1>4, AfterLaw DEF z, T

\* Block n of a chain takes block n - 1.
LEMMA CipherBlockLaw ==
  ASSUME NEW w, NEW iv, NEW plain
  PROVE  /\ CipherBlock(w, iv, plain, 0) = iv
         /\ \A n \in Nat \ {0} : CipherBlock(w, iv, plain, n)
            = EncryptBlock(w, XorSeq(BlockOf(plain, n), CipherBlock(w, iv, plain, n - 1)))
<1> DEFINE l == [of |-> "CipherBlock", w |-> w, plain |-> plain]
           z == iv
           T(s, i) == EncryptBlock(w, XorSeq(BlockOf(plain, i), s))
           P(f, n) == f = [i \in 0..n |-> IF i = 0 THEN z ELSE T(f[i - 1], i)]
<1>1. \A s, i : Turn(l, s, i) = T(s, i) BY DEF Turn
<1>2. \A n : CipherBlock(w, iv, plain, n) = (CHOOSE f : P(f, n))[n]
  BY ZenonT(60) DEF CipherBlock, Iterate
<1> HIDE DEF l, z, T
<1>3. \A f, n : P(f, n) <=> Turns(l, z, n, f) BY <1>1 DEF Turns
<1> HIDE DEF P
<1>4. \A n : CipherBlock(w, iv, plain, n) = After(l, z, n) BY <1>2, <1>3, Zenon DEF After
<1> QED BY <1>1, <1>4, AfterLaw DEF z, T

\* The 40 turns of the key schedule (key_expansion of crypto/aes.cpp).
LEMMA KeyTurns ==
  ASSUME NEW key
  PROVE  \E a : /\ a[0] = [i \in 1..4 |-> SubSeq(key, 4 * i - 3, 4 * i)]
                /\ \A i \in 1..40 : a[i] = NextWord(a[i - 1], i + 3)
                /\ KeyExpansion(key) = a[40]
<1> DEFINE l == [of |-> "KeyExpansion"]
           z == [i \in 1..4 |-> SubSeq(key, 4 * i - 3, 4 * i)]
           T(s, i) == NextWord(s, i + 3)
           P(f) == f = [i \in 0..40 |-> IF i = 0 THEN z ELSE T(f[i - 1], i)]
<1>1. \A s, i : Turn(l, s, i) = T(s, i) BY DEF Turn
<1>2. KeyExpansion(key) = (CHOOSE f : P(f))[40] BY ZenonT(60) DEF KeyExpansion, Iterate
<1> HIDE DEF l, z, T
<1>3. \A f : P(f) <=> Turns(l, z, 40, f) BY <1>1 DEF Turns
<1> HIDE DEF P
<1>4. KeyExpansion(key) = After(l, z, 40) BY <1>2, <1>3, Zenon DEF After
<1>5. \E a : a[0] = z /\ (\A i \in 1..40 : a[i] = T(a[i - 1], i)) /\ KeyExpansion(key) = a[40]
  BY <1>1, <1>4, AfterTurns
<1> QED BY <1>5, Zenon DEF z, T

\* The nine rounds of the cipher.
LEMMA EncryptTurns ==
  ASSUME NEW w, NEW s0
  PROVE  \E a : /\ a[0] = s0
                /\ \A i \in 1..9 : a[i] = Round(w, a[i - 1], i)
                /\ EncryptRounds(w, s0) = a[9]
<1> DEFINE l == [of |-> "EncryptRounds", w |-> w]
           z == s0
           T(s, i) == Round(w, s, i)
           P(f) == f = [i \in 0..9 |-> IF i = 0 THEN z ELSE T(f[i - 1], i)]
<1>1. \A s, i : Turn(l, s, i) = T(s, i) BY DEF Turn
<1>2. EncryptRounds(w, s0) = (CHOOSE f : P(f))[9] BY ZenonT(60) DEF EncryptRounds, Iterate
<1> HIDE DEF l, z, T
<1>3. \A f : P(f) <=> Turns(l, z, 9, f) BY <1>1 DEF Turns
<1> HIDE DEF P
<1>4. EncryptRounds(w, s0) = After(l, z, 9) BY <1>2, <1>3, Zenon DEF After
<1> QED BY <1>1, <1>4, AfterTurns DEF z, T

\* The nine rounds of its inverse, with the round keys backwards.
LEMMA DecryptTurns ==
  ASSUME NEW w, NEW s0
  PROVE  \E a : /\ a[0] = s0
                /\ \A i \in 1..9 : a[i] = InvRound(w, a[i - 1], 10 - i)
                /\ DecryptRounds(w, s0) = a[9]
<1> DEFINE l == [of |-> "DecryptRounds", w |-> w]
           z == s0
           T(s, i) == InvRound(w, s, 10 - i)
           P(f) == f = [i \in 0..9 |-> IF i = 0 THEN z ELSE T(f[i - 1], i)]
<1>1. \A s, i : Turn(l, s, i) = T(s, i) BY DEF Turn
<1>2. DecryptRounds(w, s0) = (CHOOSE f : P(f))[9] BY ZenonT(60) DEF DecryptRounds, Iterate
<1> HIDE DEF l, z, T
<1>3. \A f : P(f) <=> Turns(l, z, 9, f) BY <1>1 DEF Turns
<1> HIDE DEF P
<1>4. DecryptRounds(w, s0) = After(l, z, 9) BY <1>2, <1>3, Zenon DEF After
<1> QED BY <1>1, <1>4, AfterTurns DEF z, T

\* AesCtr::process takes a byte a turn.
LEMMA ProcessTurns ==
  ASSUME NEW a0, NEW in0, a0.ready, Len(in0) \in Nat
  PROVE  \E t : /\ t[0] = [ctr |-> a0, out |-> <<>>]
                /\ \A i \in 1..Len(in0) : t[i] = CtrByte(t[i - 1], in0[i])
                /\ Process(a0, in0) = t[Len(in0)]
<1> DEFINE l == [of |-> "Process", in |-> in0]
           z == [ctr |-> a0, out |-> <<>>]
           T(s, i) == CtrByte(s, in0[i])
           P(f) == f = [i \in 0..Len(in0) |-> IF i = 0 THEN z ELSE T(f[i - 1], i)]
<1>1. \A s, i : Turn(l, s, i) = T(s, i) BY DEF Turn
<1>2. Process(a0, in0) = (CHOOSE f : P(f))[Len(in0)] BY ZenonT(60) DEF Process, Iterate
<1> HIDE DEF l, z, T
<1>3. \A f : P(f) <=> Turns(l, z, Len(in0), f) BY <1>1 DEF Turns
<1> HIDE DEF P
<1>4. Process(a0, in0) = After(l, z, Len(in0)) BY <1>2, <1>3, Zenon DEF After
<1> QED BY <1>1, <1>4, AfterTurns DEF z, T

\* The loop over the NAL units of a frame, with as many turns as can be needed.
LEMMA NalTurns ==
  ASSUME NEW plain0, Len(plain0) \div 5 \in Nat
  PROVE  \E t : /\ t[0] = [off |-> 0, nals |-> <<>>]
                /\ \A i \in 1..(Len(plain0) \div 5) : t[i] = NextUnit(t[i - 1], plain0)
                /\ NalUnits(plain0) = t[(Len(plain0) \div 5)].nals
<1> DEFINE l == [of |-> "NalUnits", plain |-> plain0]
           z == [off |-> 0, nals |-> <<>>]
           T(s, i) == NextUnit(s, plain0)
           P(f) == f = [i \in 0..(Len(plain0) \div 5) |-> IF i = 0 THEN z ELSE T(f[i - 1], i)]
<1>1. \A s, i : Turn(l, s, i) = T(s, i) BY DEF Turn
<1>2. NalUnits(plain0) = (CHOOSE f : P(f))[(Len(plain0) \div 5)].nals
  BY ZenonT(60) DEF NalUnits, Iterate
<1> HIDE DEF l, z, T
<1>3. \A f : P(f) <=> Turns(l, z, (Len(plain0) \div 5), f) BY <1>1 DEF Turns
<1> HIDE DEF P
<1>4. NalUnits(plain0) = After(l, z, (Len(plain0) \div 5)).nals BY <1>2, <1>3, Zenon DEF After
<1> QED BY <1>1, <1>4, AfterTurns DEF z, T

\* Sha512::update takes a piece of at most one block a turn.
LEMMA UpdateTurns ==
  ASSUME NEW s0, NEW data0, Len(data0) \div BlockSize + 2 \in Nat
  PROVE  \E t : /\ t[0] = [sha |-> [s0 EXCEPT !.bits = @ + 8 * Len(data0)], at |-> 0]
                /\ \A i \in 1..((Len(data0) \div BlockSize) + 2) : t[i] = Absorb(t[i - 1], data0)
                /\ Update(s0, data0) = t[((Len(data0) \div BlockSize) + 2)].sha
<1> DEFINE l == [of |-> "Update", data |-> data0]
           z == [sha |-> [s0 EXCEPT !.bits = @ + 8 * Len(data0)], at |-> 0]
           T(s, i) == Absorb(s, data0)
           P(f) == f = [i \in 0..((Len(data0) \div BlockSize) + 2) |->
             IF i = 0 THEN z ELSE T(f[i - 1], i)]
<1>1. \A s, i : Turn(l, s, i) = T(s, i) BY DEF Turn
<1>2. Update(s0, data0) = (CHOOSE f : P(f))[((Len(data0) \div BlockSize) + 2)].sha
  BY ZenonT(60) DEF Update, Iterate
<1> HIDE DEF l, z, T
<1>3. \A f : P(f) <=> Turns(l, z, ((Len(data0) \div BlockSize) + 2), f) BY <1>1 DEF Turns
<1> HIDE DEF P
<1>4. Update(s0, data0) = After(l, z, ((Len(data0) \div BlockSize) + 2)).sha
  BY <1>2, <1>3, Zenon DEF After
<1> QED BY <1>1, <1>4, AfterTurns DEF z, T

\* parse() of http_parser.cpp: its turns, those that change nothing included.
LEMMA LoopTurns ==
  ASSUME NEW p0, NEW seg0, NEW at0, Len(seg0) + 2 \in Nat
  PROVE  \E t : /\ t[0] = Http!Go(p0, at0)
                /\ \A i \in 1..(Len(seg0) + 2) : t[i] = Http!NextTurn(t[i - 1], seg0)
                /\ Http!Loop(p0, seg0, at0) = t[(Len(seg0) + 2)].p
<1> DEFINE l == [of |-> "Loop", seg |-> seg0]
           z == Http!Go(p0, at0)
           T(s, i) == Http!NextTurn(s, seg0)
           P(f) == f = [i \in 0..(Len(seg0) + 2) |-> IF i = 0 THEN z ELSE T(f[i - 1], i)]
<1>1. \A s, i : Turn(l, s, i) = T(s, i) BY DEF Turn
<1>2. Http!Loop(p0, seg0, at0) = (CHOOSE f : P(f))[(Len(seg0) + 2)].p
  BY ZenonT(60) DEF Http!Loop, Http!Iterate, Iterate
<1> HIDE DEF l, z, T
<1>3. \A f : P(f) <=> Turns(l, z, (Len(seg0) + 2), f) BY <1>1 DEF Turns
<1> HIDE DEF P
<1>4. Http!Loop(p0, seg0, at0) = After(l, z, (Len(seg0) + 2)).p BY <1>2, <1>3, Zenon DEF After
<1> QED BY <1>1, <1>4, AfterTurns DEF z, T

\* One block more is one compression more.
LEMMA ChainStateLaw ==
  ASSUME NEW q
  PROVE  /\ ChainState(q, 0) = 1
         /\ \A n \in Nat \ {0} : ChainState(q, n)
            = Compress(ChainState(q, n - 1), SubSeq(q, 128 * n - 127, 128 * n))
<1> DEFINE l == [of |-> "ChainState", m |-> q]
           z == 1
           T(s, i) == Compress(s, SubSeq(q, 128 * i - 127, 128 * i))
           P(f, n) == f = [i \in 0..n |-> IF i = 0 THEN z ELSE T(f[i - 1], i)]
<1>1. \A s, i : Turn(l, s, i) = T(s, i) BY DEF Turn
<1>2. \A n : ChainState(q, n) = (CHOOSE f : P(f, n))[n] BY ZenonT(60) DEF ChainState, Iterate
<1> HIDE DEF l, z, T
<1>3. \A f, n : P(f, n) <=> Turns(l, z, n, f) BY <1>1 DEF Turns
<1> HIDE DEF P
<1>4. \A n : ChainState(q, n) = After(l, z, n) BY <1>2, <1>3, Zenon DEF After
<1> QED BY <1>1, <1>4, AfterLaw DEF z, T

\* A sum is odd when one of two numbers is.
LEMMA OddSum ==
  ASSUME NEW u \in Nat, NEW v \in Nat
  PROVE  ((u + v) % 2 = 1) <=> ~((u % 2 = 1) <=> (v % 2 = 1))
OBVIOUS

\* The table of exclusive or on four bits is right, bit by bit.
LEMMA HalfBits ==
  ASSUME NEW a \in 0..15, NEW b \in 0..15
  PROVE  /\ XorHalf[a][b] \in 0..15
         /\ \A w \in {1, 2, 4, 8} :
               BitAt(XorHalf[a][b], w) <=> ~(BitAt(a, w) <=> BitAt(b, w))
<1> DEFINE x == XorHalf[a][b]
<1>1. x = ((a + b) % 2) + 2 * ((a \div 2 + b \div 2) % 2)
    + 4 * ((a \div 4 + b \div 4) % 2) + 8 * ((a \div 8 + b \div 8) % 2)
  BY DEF XorHalf
<1>2. PICK p \in {0,1}, q \in {0,1}, r \in {0,1}, s \in {0,1} :
    /\ p = (a + b) % 2 /\ q = (a \div 2 + b \div 2) % 2
    /\ r = (a \div 4 + b \div 4) % 2 /\ s = (a \div 8 + b \div 8) % 2
  OBVIOUS
<1>3. x = p + 2 * q + 4 * r + 8 * s BY <1>1, <1>2
<1> HIDE DEF x
<1>4. x \in 0..15 /\ (x \div 1) % 2 = p /\ (x \div 2) % 2 = q /\ (x \div 4) % 2 = r
      /\ (x \div 8) % 2 = s
  BY <1>3
<1>5. \A w \in {1, 2, 4, 8} : a \div w \in Nat /\ b \div w \in Nat
  OBVIOUS
<1>6. \A w \in {1, 2, 4, 8} : (x \div w) % 2 = (a \div w + b \div w) % 2
  <2>1. a \div 1 = a /\ b \div 1 = b OBVIOUS
  <2> QED BY <1>2, <1>4, <2>1
<1>7. \A w \in {1, 2, 4, 8} : BitAt(x, w) <=> ~(BitAt(a, w) <=> BitAt(b, w))
  BY <1>5, <1>6, OddSum DEF BitAt
<1> QED BY <1>4, <1>7 DEF x

\* The same of bytes.
LEMMA XorBits ==
  ASSUME NEW a \in Byte, NEW b \in Byte
  PROVE  /\ Xor(a, b) \in Byte
         /\ \A w \in Weights : BitAt(Xor(a, b), w) <=> ~(BitAt(a, w) <=> BitAt(b, w))
<1> DEFINE h == XorHalf[a \div 16][b \div 16]
           l == XorHalf[a % 16][b % 16]
<1>1. a \div 16 \in 0..15 /\ a % 16 \in 0..15 /\ b \div 16 \in 0..15 /\ b % 16 \in 0..15
  BY DEF Byte
<1>2. h \in 0..15 /\ l \in 0..15 BY <1>1, HalfBits
<1>3. Xor(a, b) = 16 * h + l BY DEF Xor
<1>4. \A w \in {1, 2, 4, 8} : /\ BitAt(h, w) <=> ~(BitAt(a \div 16, w) <=> BitAt(b \div 16, w))
                              /\ BitAt(l, w) <=> ~(BitAt(a % 16, w) <=> BitAt(b % 16, w))
  <2>1. \A u, v, w : u \in 0..15 /\ v \in 0..15 /\ w \in {1, 2, 4, 8} =>
           (BitAt(XorHalf[u][v], w) <=> ~(BitAt(u, w) <=> BitAt(v, w)))
    BY HalfBits
  <2> SUFFICES ASSUME NEW w \in {1, 2, 4, 8}
      PROVE  /\ BitAt(h, w) <=> ~(BitAt(a \div 16, w) <=> BitAt(b \div 16, w))
             /\ BitAt(l, w) <=> ~(BitAt(a % 16, w) <=> BitAt(b % 16, w))
    OBVIOUS
  <2>2. BitAt(h, w) <=> ~(BitAt(a \div 16, w) <=> BitAt(b \div 16, w))
    BY <1>1, <2>1
  <2>3. BitAt(l, w) <=> ~(BitAt(a % 16, w) <=> BitAt(b % 16, w))
    BY <1>1, <2>1
  <2> QED BY <2>2, <2>3
<1> HIDE DEF h, l
<1>5. \A x \in Byte : \A w \in {1, 2, 4, 8} :
        /\ BitAt(x \div 16, w) <=> BitAt(x, 16 * w)
        /\ BitAt(x % 16, w) <=> BitAt(x, w)
  BY SMTT(30) DEF BitAt, Byte
<1>6. Xor(a, b) \in Byte /\ Xor(a, b) \div 16 = h /\ Xor(a, b) % 16 = l
  BY <1>2, <1>3 DEF Byte
<1>7. \A w \in {1, 2, 4, 8} : /\ BitAt(Xor(a, b), w) <=> ~(BitAt(a, w) <=> BitAt(b, w))
                              /\ BitAt(Xor(a, b), 16 * w) <=> ~(BitAt(a, 16 * w)
                                 <=> BitAt(b, 16 * w))
  <2> SUFFICES ASSUME NEW w \in {1, 2, 4, 8}
      PROVE  /\ BitAt(Xor(a, b), w) <=> ~(BitAt(a, w) <=> BitAt(b, w))
             /\ BitAt(Xor(a, b), 16 * w) <=> ~(BitAt(a, 16 * w) <=> BitAt(b, 16 * w))
    OBVIOUS
  <2>1. /\ BitAt(h, w) <=> BitAt(Xor(a, b), 16 * w)
        /\ BitAt(l, w) <=> BitAt(Xor(a, b), w)
    BY <1>5, <1>6
  <2>2. /\ BitAt(a \div 16, w) <=> BitAt(a, 16 * w)
        /\ BitAt(b \div 16, w) <=> BitAt(b, 16 * w)
        /\ BitAt(a % 16, w) <=> BitAt(a, w)
        /\ BitAt(b % 16, w) <=> BitAt(b, w)
    BY <1>5
  <2> QED BY <1>4, <2>1, <2>2
<1>8. \A w \in Weights : w \in {1, 2, 4, 8} \/ \E v \in {1, 2, 4, 8} : w = 16 * v
  BY DEF Weights
<1> QED BY <1>6, <1>7, <1>8

\* Bytes with the same bits are the same.
LEMMA BitsDecide ==
  ASSUME NEW a \in Byte, NEW b \in Byte, \A w \in Weights : BitAt(a, w) <=> BitAt(b, w)
  PROVE  a = b
<1>1. \A x \in Byte : /\ x % 2 \in 0..1 /\ (x \div 2) % 2 \in 0..1 /\ (x \div 4) % 2 \in 0..1
      /\ (x \div 8) % 2 \in 0..1
       /\ (x \div 16) % 2 \in 0..1 /\ (x \div 32) % 2 \in 0..1 /\ (x \div 64) % 2 \in 0..1
          /\ (x \div 128) % 2 \in 0..1
       /\ x = (x % 2) + 2 * ((x \div 2) % 2) + 4 * ((x \div 4) % 2)
               + 8 * ((x \div 8) % 2) + 16 * ((x \div 16) % 2) + 32 * ((x \div 32) % 2)
               + 64 * ((x \div 64) % 2) + 128 * ((x \div 128) % 2)
  BY DEF Byte
<1>2. a % 2 = b % 2
  <2>1. BitAt(a, 1) <=> BitAt(b, 1) BY DEF Weights
  <2>2. a \div 1 = a /\ b \div 1 = b BY DEF Byte
  <2> QED BY <1>1, <2>1, <2>2 DEF BitAt
<1>3. \A w \in {2, 4, 8, 16, 32, 64, 128} : (a \div w) % 2 = (b \div w) % 2
  <2> SUFFICES ASSUME NEW w \in {2, 4, 8, 16, 32, 64, 128} PROVE (a \div w) % 2 = (b \div w) % 2
    OBVIOUS
  <2>1. BitAt(a, w) <=> BitAt(b, w) BY DEF Weights
  <2>2. (a \div w) % 2 \in 0..1 /\ (b \div w) % 2 \in 0..1 BY <1>1
  <2> QED BY <2>1, <2>2 DEF BitAt
<1> QED BY <1>1, <1>2, <1>3

\* The laws of exclusive or that the ciphers rest on.
LEMMA XorLaws ==
  ASSUME NEW a \in Byte, NEW b \in Byte, NEW c \in Byte
  PROVE  /\ Xor(a, b) \in Byte
         /\ Xor(a, b) = Xor(b, a)
         /\ Xor(Xor(a, b), c) = Xor(a, Xor(b, c))
         /\ Xor(Xor(a, b), b) = a
         /\ Xor(a, 0) = a
         /\ Xor(a, a) = 0
<1>0. 0 \in Byte /\ \A w \in Weights : ~BitAt(0, w) BY DEF Byte, BitAt, Weights
<1>1. \A x, y \in Byte : Xor(x, y) \in Byte BY XorBits
<1>2. Xor(a, b) = Xor(b, a) BY <1>1, XorBits, BitsDecide
<1>3. Xor(Xor(a, b), c) = Xor(a, Xor(b, c)) BY <1>1, XorBits, BitsDecide
<1>4. Xor(a, 0) = a BY <1>0, <1>1, XorBits, BitsDecide
<1>5. Xor(a, a) = 0 BY <1>0, <1>1, XorBits, BitsDecide
<1>6. Xor(Xor(a, b), b) = a BY <1>1, XorBits, BitsDecide
<1> QED BY <1>1, <1>2, <1>3, <1>4, <1>5, <1>6

\* The bits of a byte multiplied by x in the field of AES.
LEMMA XTimeBits ==
  ASSUME NEW a \in Byte
  PROVE  /\ XTime(a) \in Byte
         /\ BitAt(XTime(a), 1)   <=> BitAt(a, 128)
         /\ BitAt(XTime(a), 2)   <=> ~(BitAt(a, 1) <=> BitAt(a, 128))
         /\ BitAt(XTime(a), 4)   <=> BitAt(a, 2)
         /\ BitAt(XTime(a), 8)   <=> ~(BitAt(a, 4) <=> BitAt(a, 128))
         /\ BitAt(XTime(a), 16)  <=> ~(BitAt(a, 8) <=> BitAt(a, 128))
         /\ BitAt(XTime(a), 32)  <=> BitAt(a, 16)
         /\ BitAt(XTime(a), 64)  <=> BitAt(a, 32)
         /\ BitAt(XTime(a), 128) <=> BitAt(a, 64)
<1> DEFINE d == (2 * a) % 256
<1>1. d \in Byte /\ ~BitAt(d, 1)
      /\ \A w \in {1, 2, 4, 8, 16, 32, 64} : BitAt(d, 2 * w) <=> BitAt(a, w)
  BY DEF Byte, BitAt
<1>2. 27 \in Byte /\ BitAt(27, 1) /\ BitAt(27, 2) /\ ~BitAt(27, 4) /\ BitAt(27, 8) /\ BitAt(27, 16)
      /\ ~BitAt(27, 32) /\ ~BitAt(27, 64) /\ ~BitAt(27, 128)
  BY DEF Byte, BitAt
<1>3. BitAt(a, 128) <=> ~(a < 128) BY DEF Byte, BitAt
<1>4. a < 128 => 2 * a = d BY DEF Byte
<1>5. \A w \in Weights : BitAt(Xor(d, 27), w) <=> ~(BitAt(d, w) <=> BitAt(27, w))
  BY <1>1, <1>2, XorBits
<1>6. Xor(d, 27) \in Byte BY <1>1, <1>2, XorBits
<1>7. XTime(a) = IF a < 128 THEN d ELSE Xor(d, 27) BY <1>4 DEF XTime
<1>8. /\ BitAt(d, 2) <=> BitAt(a, 1)
      /\ BitAt(d, 4) <=> BitAt(a, 2)
      /\ BitAt(d, 8) <=> BitAt(a, 4)
      /\ BitAt(d, 16) <=> BitAt(a, 8)
      /\ BitAt(d, 32) <=> BitAt(a, 16)
      /\ BitAt(d, 64) <=> BitAt(a, 32) 
      /\ BitAt(d, 128) <=> BitAt(a, 64)
  BY <1>1
<1> HIDE DEF d
<1>9. CASE a < 128 BY <1>1, <1>3, <1>7, <1>8, <1>9
<1>10. CASE ~(a < 128)
  BY <1>1, <1>2, <1>3, <1>5, <1>6, <1>7, <1>8, <1>10 DEF Weights
<1> QED BY <1>9, <1>10

\* That multiplication is linear.
LEMMA XTimeLinear ==
  ASSUME NEW a \in Byte, NEW b \in Byte
  PROVE  XTime(Xor(a, b)) = Xor(XTime(a), XTime(b))
<1>1. Xor(a, b) \in Byte /\ XTime(a) \in Byte /\ XTime(b) \in Byte /\ XTime(Xor(a, b)) \in Byte
      /\ Xor(XTime(a), XTime(b)) \in Byte
  BY XorBits, XTimeBits
<1>2. \A w \in Weights : BitAt(XTime(Xor(a, b)), w) <=> BitAt(Xor(XTime(a), XTime(b)), w)
  <2>1. \A w \in Weights :
           /\ BitAt(Xor(XTime(a), XTime(b)), w) <=> ~(BitAt(XTime(a), w) <=> BitAt(XTime(b), w))
           /\ BitAt(Xor(a, b), w) <=> ~(BitAt(a, w) <=> BitAt(b, w))
    BY <1>1, XorBits
  <2> QED BY <1>1, <2>1, XTimeBits DEF Weights
<1> QED BY <1>1, <1>2, BitsDecide

\* The inverse table takes back what the table did.
LEMMA SboxInverse ==
  \A b \in Byte : Sub(b) \in Byte /\ InvSub(Sub(b)) = b
BY DEF Sub, InvSub, kSbox, kInvSbox, Byte

\* A column multiplied by the matrix and then by its inverse has its first byte again.
LEMMA MixInverse ==
  ASSUME NEW a \in Byte, NEW b \in Byte, NEW c \in Byte, NEW d \in Byte,
         NEW p, NEW q, NEW r, NEW s,
         p = Xor(Xor(XTime(a), Xor(b, XTime(b))), Xor(c, d)),
         q = Xor(Xor(XTime(b), Xor(c, XTime(c))), Xor(d, a)),
         r = Xor(Xor(XTime(c), Xor(d, XTime(d))), Xor(a, b)),
         s = Xor(Xor(XTime(d), Xor(a, XTime(a))), Xor(b, c))
  PROVE  LET t(x) == XTime(x)
         IN  Xor(Xor(Xor(Xor(t(p), t(t(p))), t(t(t(p)))), Xor(Xor(q, t(q)), t(t(t(q))))),
                 Xor(Xor(Xor(r, t(t(r))), t(t(t(r)))), Xor(s, t(t(t(s)))))) = a
<1> DEFINE t(x) == XTime(x)
           g == Xor(Xor(Xor(Xor(t(p), t(t(p))), t(t(t(p)))), Xor(Xor(q, t(q)), t(t(t(q))))),
                    Xor(Xor(Xor(r, t(t(r))), t(t(t(r)))), Xor(s, t(t(t(s))))))
<1>1. \A x, y \in Byte : Xor(x, y) \in Byte /\ t(x) \in Byte /\ t(Xor(x, y)) = Xor(t(x), t(y))
  BY XorBits, XTimeBits, XTimeLinear
<1>2. \A x, y \in Byte : \A w \in Weights : BitAt(Xor(x, y), w) <=> ~(BitAt(x, w) <=> BitAt(y, w))
  BY XorBits
<1>0. /\ p = Xor(Xor(t(a), Xor(b, t(b))), Xor(c, d)) /\ q = Xor(Xor(t(b), Xor(c, t(c))), Xor(d, a))
      /\ r = Xor(Xor(t(c), Xor(d, t(d))), Xor(a, b)) /\ s = Xor(Xor(t(d), Xor(a, t(a))), Xor(b, c))
  OBVIOUS
<1> HIDE DEF t
<1>3. p \in Byte /\ q \in Byte /\ r \in Byte /\ s \in Byte BY <1>0, <1>1
<1>4. /\ t(p) \in Byte /\ t(t(p)) \in Byte /\ t(t(t(p))) \in Byte
      /\ t(q) \in Byte /\ t(t(q)) \in Byte /\ t(t(t(q))) \in Byte
      /\ t(r) \in Byte /\ t(t(r)) \in Byte /\ t(t(t(r))) \in Byte
      /\ t(s) \in Byte /\ t(t(s)) \in Byte /\ t(t(t(s))) \in Byte
  BY <1>1, <1>3
<1>5. /\ t(a) \in Byte /\ t(t(a)) \in Byte /\ t(t(t(a))) \in Byte /\ t(t(t(t(a)))) \in Byte
      /\ t(b) \in Byte /\ t(t(b)) \in Byte /\ t(t(t(b))) \in Byte /\ t(t(t(t(b)))) \in Byte
      /\ t(c) \in Byte /\ t(t(c)) \in Byte /\ t(t(t(c))) \in Byte /\ t(t(t(t(c)))) \in Byte
      /\ t(d) \in Byte /\ t(t(d)) \in Byte /\ t(t(t(d))) \in Byte /\ t(t(t(t(d)))) \in Byte
  BY <1>1
<1>6. /\ t(p) = Xor(Xor(t(t(a)), Xor(t(b), t(t(b)))), Xor(t(c), t(d)))
      /\ t(q) = Xor(Xor(t(t(b)), Xor(t(c), t(t(c)))), Xor(t(d), t(a)))
      /\ t(r) = Xor(Xor(t(t(c)), Xor(t(d), t(t(d)))), Xor(t(a), t(b)))
      /\ t(s) = Xor(Xor(t(t(d)), Xor(t(a), t(t(a)))), Xor(t(b), t(c)))
  BY <1>0, <1>1, <1>3, <1>4, <1>5
<1>7. /\ t(t(p)) = Xor(Xor(t(t(t(a))), Xor(t(t(b)), t(t(t(b))))), Xor(t(t(c)), t(t(d))))
      /\ t(t(q)) = Xor(Xor(t(t(t(b))), Xor(t(t(c)), t(t(t(c))))), Xor(t(t(d)), t(t(a))))
      /\ t(t(r)) = Xor(Xor(t(t(t(c))), Xor(t(t(d)), t(t(t(d))))), Xor(t(t(a)), t(t(b))))
      /\ t(t(s)) = Xor(Xor(t(t(t(d))), Xor(t(t(a)), t(t(t(a))))), Xor(t(t(b)), t(t(c))))
  BY <1>1, <1>3, <1>4, <1>5, <1>6
<1>8. /\ t(t(t(p)))
         = Xor(Xor(t(t(t(t(a)))), Xor(t(t(t(b))), t(t(t(t(b)))))), Xor(t(t(t(c))), t(t(t(d)))))
      /\ t(t(t(q)))
         = Xor(Xor(t(t(t(t(b)))), Xor(t(t(t(c))), t(t(t(t(c)))))), Xor(t(t(t(d))), t(t(t(a)))))
      /\ t(t(t(r)))
         = Xor(Xor(t(t(t(t(c)))), Xor(t(t(t(d))), t(t(t(t(d)))))), Xor(t(t(t(a))), t(t(t(b)))))
      /\ t(t(t(s)))
         = Xor(Xor(t(t(t(t(d)))), Xor(t(t(t(a))), t(t(t(t(a)))))), Xor(t(t(t(b))), t(t(t(c)))))
  BY <1>1, <1>3, <1>4, <1>5, <1>7
<1>9. g \in Byte BY <1>1, <1>3, <1>4
<1>10. \A w \in Weights : BitAt(g, w) <=> BitAt(a, w)
  <2> SUFFICES ASSUME NEW w \in Weights PROVE BitAt(g, w) <=> BitAt(a, w)
    OBVIOUS
  <2> DEFINE N(x, y) == ~(x <=> y)
             B(x) == BitAt(x, w)
  <2>1. \A x, y \in Byte : B(Xor(x, y)) <=> N(B(x), B(y))
    BY <1>2
  <2>100. \A x, y \in Byte : Xor(x, y) \in Byte BY <1>1
  <2>101. \A u, v, x, y, z :
           u \in Byte /\ v \in Byte /\ x \in Byte /\ y \in Byte /\ z \in Byte =>
           (B(Xor(Xor(u, Xor(v, x)), Xor(y, z))) <=> N(N(B(u), N(B(v), B(x))), N(B(y), B(z))))
    <3> SUFFICES ASSUME NEW u \in Byte, NEW v \in Byte, NEW x \in Byte, NEW y \in Byte,
        NEW z \in Byte
        PROVE B(Xor(Xor(u, Xor(v, x)), Xor(y, z))) <=> N(N(B(u), N(B(v), B(x))), N(B(y), B(z)))
      OBVIOUS
    <3>1. Xor(v, x) \in Byte /\ Xor(u, Xor(v, x)) \in Byte /\ Xor(y, z) \in Byte
      BY <2>100
    <3> QED BY <2>1, <3>1
  <2>2. B(p) <=> N(N(B(t(a)), N(B(b), B(t(b)))), N(B(c), B(d)))
    BY <2>101, <1>0, <1>5
  <2>3. B(q) <=> N(N(B(t(b)), N(B(c), B(t(c)))), N(B(d), B(a)))
    BY <2>101, <1>0, <1>5
  <2>4. B(r) <=> N(N(B(t(c)), N(B(d), B(t(d)))), N(B(a), B(b)))
    BY <2>101, <1>0, <1>5
  <2>5. B(s) <=> N(N(B(t(d)), N(B(a), B(t(a)))), N(B(b), B(c)))
    BY <2>101, <1>0, <1>5
  <2>6. B(t(p)) <=> N(N(B(t(t(a))), N(B(t(b)), B(t(t(b))))), N(B(t(c)),
            B(t(d))))
    BY <2>101, <1>5, <1>6
  <2>7. B(t(q)) <=> N(N(B(t(t(b))), N(B(t(c)), B(t(t(c))))), N(B(t(d)),
            B(t(a))))
    BY <2>101, <1>5, <1>6
  <2>8. B(t(r)) <=> N(N(B(t(t(c))), N(B(t(d)), B(t(t(d))))), N(B(t(a)),
            B(t(b))))
    BY <2>101, <1>5, <1>6
  <2>9. B(t(s)) <=> N(N(B(t(t(d))), N(B(t(a)), B(t(t(a))))), N(B(t(b)),
            B(t(c))))
    BY <2>101, <1>5, <1>6
  <2>10. B(t(t(p))) <=> N(N(B(t(t(t(a)))), N(B(t(t(b))), B(t(t(t(b)))))),
             N(B(t(t(c))), B(t(t(d)))))
    BY <2>101, <1>5, <1>7
  <2>11. B(t(t(q))) <=> N(N(B(t(t(t(b)))), N(B(t(t(c))), B(t(t(t(c)))))),
             N(B(t(t(d))), B(t(t(a)))))
    BY <2>101, <1>5, <1>7
  <2>12. B(t(t(r))) <=> N(N(B(t(t(t(c)))), N(B(t(t(d))), B(t(t(t(d)))))),
             N(B(t(t(a))), B(t(t(b)))))
    BY <2>101, <1>5, <1>7
  <2>13. B(t(t(s))) <=> N(N(B(t(t(t(d)))), N(B(t(t(a))), B(t(t(t(a)))))),
             N(B(t(t(b))), B(t(t(c)))))
    BY <2>101, <1>5, <1>7
  <2>14. B(t(t(t(p)))) <=> N(N(B(t(t(t(t(a))))), N(B(t(t(t(b)))), B(t(t(t(t(b))))))),
             N(B(t(t(t(c)))), B(t(t(t(d))))))
    BY <2>101, <1>5, <1>8
  <2>15. B(t(t(t(q)))) <=> N(N(B(t(t(t(t(b))))), N(B(t(t(t(c)))), B(t(t(t(t(c))))))),
             N(B(t(t(t(d)))), B(t(t(t(a))))))
    BY <2>101, <1>5, <1>8
  <2>16. B(t(t(t(r)))) <=> N(N(B(t(t(t(t(c))))), N(B(t(t(t(d)))), B(t(t(t(t(d))))))),
             N(B(t(t(t(a)))), B(t(t(t(b))))))
    BY <2>101, <1>5, <1>8
  <2>17. B(t(t(t(s)))) <=> N(N(B(t(t(t(t(d))))), N(B(t(t(t(a)))), B(t(t(t(t(a))))))),
             N(B(t(t(t(b)))), B(t(t(t(c))))))
    BY <2>101, <1>5, <1>8
  <2>102. \A u, v, x : u \in Byte /\ v \in Byte
          /\ x \in Byte => (B(Xor(Xor(u, v), x)) <=> N(N(B(u), B(v)), B(x)))
    BY Zenon, <2>1, <2>100
  <2>103. Xor(Xor(t(p), t(t(p))), t(t(t(p)))) \in Byte /\ Xor(Xor(q, t(q)), t(t(t(q)))) \in Byte
          /\ Xor(Xor(r, t(t(r))), t(t(t(r)))) \in Byte /\ Xor(s, t(t(t(s)))) \in Byte
          /\ Xor(Xor(Xor(t(p), t(t(p))), t(t(t(p)))), Xor(Xor(q, t(q)), t(t(t(q))))) \in Byte
          /\ Xor(Xor(Xor(r, t(t(r))), t(t(t(r)))), Xor(s, t(t(t(s))))) \in Byte
    BY <2>100, <1>3, <1>4
  <2>20. B(g) <=> N(N(N(N(B(t(p)), B(t(t(p)))), B(t(t(t(p))))), N(N(B(q),
             B(t(q))), B(t(t(t(q)))))),
                   N(N(N(B(r), B(t(t(r)))), B(t(t(t(r))))), N(B(s),
                       B(t(t(t(s)))))))
    BY <2>1, <2>102, <2>103, <1>3, <1>4
  <2> HIDE DEF g, t
  <2>21. B(g) <=> B(a)
    BY <2>2, <2>3, <2>4, <2>5, <2>6, <2>7, <2>8, <2>9, <2>10, <2>11, <2>12, <2>13, <2>14, <2>15,
        <2>16, <2>17, <2>20
  <2> QED BY <2>21
<1>11. g = a BY <1>9, <1>10, BitsDecide
<1> QED BY <1>11 DEF t

\* Computing a sequence at once does not change it.
LEMMA NowIs ==
  ASSUME NEW S, NEW n \in Nat, NEW s \in [1..n -> S]
  PROVE  Now(s) = s /\ s \in Seq(S) /\ Len(s) = n
<1>1. s \in Seq(S) BY SeqDef
<1>2. Now(s) = s BY <1>1, ConcatEmptySeq DEF Now
<1>3. DOMAIN s = 1..n /\ DOMAIN s = 1..Len(s) /\ Len(s) \in Nat BY <1>1, LenProperties
<1> QED BY <1>1, <1>2, <1>3

\* Exclusive or of sequences; a second one takes back the first.
LEMMA XorSeqIs ==
  ASSUME NEW n \in Nat, NEW s \in [1..n -> Byte], NEW t \in [1..n -> Byte]
  PROVE  /\ XorSeq(s, t) \in [1..n -> Byte]
         /\ \A i \in 1..n : XorSeq(s, t)[i] = Xor(s[i], t[i])
         /\ XorSeq(XorSeq(s, t), t) = s
<1> DEFINE X(u) == [i \in 1..n |-> Xor(u[i], t[i])]
<1>1. \A a, b \in Byte : Xor(a, b) \in Byte /\ Xor(Xor(a, b), b) = a BY XorLaws
<1>2. ASSUME NEW u \in [1..n -> Byte] PROVE X(u) \in [1..n -> Byte] /\ XorSeq(u, t) = X(u)
  <2>1. X(u) \in [1..n -> Byte] BY <1>1
  <2>2. DOMAIN u = 1..n OBVIOUS
  <2>3. XorSeq(u, t) = Now(X(u)) BY <2>2 DEF XorSeq
  <2> QED BY <2>1, <2>3, NowIs
<1>3. X(X(s)) = s
  <2>1. X(s) \in [1..n -> Byte] BY <1>2
  <2>2. \A i \in 1..n : X(X(s))[i] = s[i] BY <1>1
  <2> QED BY <2>1, <2>2
<1> HIDE DEF X
<1>4. X(s) \in [1..n -> Byte] /\ XorSeq(s, t) = X(s) /\ XorSeq(X(s), t) = X(X(s)) BY <1>2
<1> QED BY <1>3, <1>4 DEF X

\* SubBytes and its inverse.
LEMMA SubIs ==
  ASSUME NEW s \in Block
  PROVE  SubBytes(s) \in Block /\ InvSubBytes(SubBytes(s)) = s
<1> DEFINE u == [i \in 1..16 |-> Sub(s[i])]
<1>1. \A i \in 1..16 : s[i] \in Byte BY DEF Block
<1>2. u \in Block BY <1>1, SboxInverse DEF Block
<1>3. SubBytes(s) = u
  <2>1. SubBytes(s) = Now(u) BY DEF SubBytes
  <2> HIDE DEF u
  <2> QED BY <1>2, <2>1, NowIs DEF Block
<1> DEFINE v == [i \in 1..16 |-> InvSub(u[i])]
<1>4. v = s BY <1>1, SboxInverse DEF Block
<1>5. Now(v) = v BY <1>4, NowIs DEF Block
<1>6. InvSubBytes(u) = v BY <1>5 DEF InvSubBytes
<1> QED BY <1>2, <1>3, <1>4, <1>6

\* ShiftRows and its inverse.
LEMMA ShiftIs ==
  ASSUME NEW s \in Block
  PROVE  ShiftRows(s) \in Block /\ InvShiftRows(ShiftRows(s)) = s
<1> DEFINE u == [i \in 1..16 |-> s[((5 * (i - 1)) % 16) + 1]]
           v == [i \in 1..16 |-> u[((13 * (i - 1)) % 16) + 1]]
<1>1. \A i \in 1..16 : ((5 * (i - 1)) % 16) + 1 \in 1..16 OBVIOUS
<1>2. u \in Block BY <1>1 DEF Block
<1>3. ShiftRows(s) = u BY ZenonT(30), <1>2, NowIs DEF ShiftRows, Block
<1>4. \A i \in 1..16 : /\ ((13 * (i - 1)) % 16) + 1 \in 1..16
                       /\ ((5 * ((((13 * (i - 1)) % 16) + 1) - 1)) % 16) + 1 = i
  OBVIOUS
<1>5. v = s BY <1>4 DEF Block
<1>6. Now(v) = v BY Zenon, <1>5, NowIs DEF Block
<1>7. InvShiftRows(u) = v BY <1>6 DEF InvShiftRows
<1> QED BY <1>2, <1>3, <1>5, <1>7

\* The products of the field that the two matrices take, by multiplications with x.
LEMMA GmulIs ==
  ASSUME NEW a \in Byte
  PROVE  /\ Gmul(a, 1) = a /\ Gmul(a, 2) = XTime(a) /\ Gmul(a, 3) = Xor(a, XTime(a))
         /\ Gmul(a, 14) = Xor(Xor(XTime(a), XTime(XTime(a))), XTime(XTime(XTime(a))))
         /\ Gmul(a, 11) = Xor(Xor(a, XTime(a)), XTime(XTime(XTime(a))))
         /\ Gmul(a, 13) = Xor(Xor(a, XTime(XTime(a))), XTime(XTime(XTime(a))))
         /\ Gmul(a, 9)  = Xor(a, XTime(XTime(XTime(a))))
<1> DEFINE b == XTime(a)
           c == XTime(b)
           d == XTime(c)
           G(p, q, r, s) == Xor(Xor(IF p = 1 THEN a ELSE 0, IF q = 1 THEN b ELSE 0),
                                Xor(IF r = 1 THEN c ELSE 0, IF s = 1 THEN d ELSE 0))
<1>0. \A x \in Byte : XTime(x) \in Byte BY XTimeBits
<1>1. 0 \in Byte /\ b \in Byte /\ c \in Byte /\ d \in Byte
  <2>1. 0 \in Byte BY DEF Byte
  <2> QED BY <1>0, <2>1
<1>2. \A k : Gmul(a, k) = G((k \div 1) % 2, (k \div 2) % 2, (k \div 4) % 2, (k \div 8) % 2)
  BY DEF Gmul
<1> HIDE DEF b, c, d
<1>3. \A x \in Byte : Xor(x, 0) = x /\ Xor(0, x) = x BY <1>1, XorLaws
<1>4. \A x, y \in Byte : Xor(x, y) \in Byte BY XorLaws
<1>5. \A x, y, z : x \in Byte /\ y \in Byte /\ z \in Byte => Xor(Xor(x, y), z) = Xor(x, Xor(y, z))
  BY XorLaws
<1>6. Gmul(a, 1) = a
  <2>1. Gmul(a, 1) = G(1, 0, 0, 0) BY <1>2
  <2> QED BY <1>1, <1>3, <2>1
<1>7. Gmul(a, 2) = b
  <2>1. Gmul(a, 2) = G(0, 1, 0, 0) BY <1>2
  <2> QED BY <1>1, <1>3, <2>1
<1>8. Gmul(a, 3) = Xor(a, b)
  <2>1. Gmul(a, 3) = G(1, 1, 0, 0) BY <1>2
  <2> QED BY <1>1, <1>3, <1>4, <2>1
<1>9. Gmul(a, 14) = Xor(Xor(b, c), d)
  <2>1. Gmul(a, 14) = G(0, 1, 1, 1) BY <1>2
  <2>2. Gmul(a, 14) = Xor(b, Xor(c, d)) BY <1>1, <1>3, <2>1
  <2> QED BY <1>1, <1>5, <2>2
<1>10. Gmul(a, 11) = Xor(Xor(a, b), d)
  <2>1. Gmul(a, 11) = G(1, 1, 0, 1) BY <1>2
  <2> QED BY <1>1, <1>3, <2>1
<1>11. Gmul(a, 13) = Xor(Xor(a, c), d)
  <2>1. Gmul(a, 13) = G(1, 0, 1, 1) BY <1>2
  <2>2. Gmul(a, 13) = Xor(a, Xor(c, d)) BY <1>1, <1>3, <2>1
  <2> QED BY <1>1, <1>5, <2>2
<1>12. Gmul(a, 9) = Xor(a, d)
  <2>1. Gmul(a, 9) = G(1, 0, 0, 1) BY <1>2
  <2> QED BY <1>1, <1>3, <2>1
<1> QED BY <1>6, <1>7, <1>8, <1>9, <1>10, <1>11, <1>12 DEF b, c, d

\* MixColumns and its inverse.
LEMMA MixIs ==
  ASSUME NEW s \in Block
  PROVE  MixColumns(s) \in Block /\ InvMixColumns(MixColumns(s)) = s
<1> DEFINE t(x) == XTime(x)
           M(a, b, c, d) == Xor(Xor(t(a), Xor(b, t(b))), Xor(c, d))
           N(p, q, r, k) ==
              Xor(Xor(Xor(Xor(t(p), t(t(p))), t(t(t(p)))), Xor(Xor(q, t(q)), t(t(t(q))))),
                  Xor(Xor(Xor(r, t(t(r))), t(t(t(r)))), Xor(k, t(t(t(k))))))
           At(u, i, j) == u[4 * ((i - 1) \div 4) + ((((i - 1) % 4) + j) % 4) + 1]
           u == [i \in 1..16 |-> M(At(s, i, 0), At(s, i, 1), At(s, i, 2), At(s, i, 3))]
           v == [i \in 1..16 |-> N(At(u, i, 0), At(u, i, 1), At(u, i, 2), At(u, i, 3))]
<1>1. \A x, y \in Byte : Xor(x, y) \in Byte /\ t(x) \in Byte BY XorBits, XTimeBits
<1>2. \A i \in 1..16, j \in 0..3 : 4 * ((i - 1) \div 4) + ((((i - 1) % 4) + j) % 4) + 1 \in 1..16
  OBVIOUS
<1>3. \A w \in Block : \A i \in 1..16, j \in 0..3 : At(w, i, j) \in Byte BY <1>2 DEF Block
<1>4. ASSUME NEW a \in Byte, NEW b \in Byte, NEW c \in Byte, NEW d \in Byte
      PROVE  /\ M(a, b, c, d) \in Byte
             /\ N(M(a, b, c, d), M(b, c, d, a), M(c, d, a, b), M(d, a, b, c)) = a
  <2>1. M(a, b, c, d) \in Byte BY <1>1
  <2> DEFINE p == M(a, b, c, d)
             q == M(b, c, d, a)
             r == M(c, d, a, b)
             k == M(d, a, b, c)
  <2>2. /\ p = Xor(Xor(t(a), Xor(b, t(b))), Xor(c, d))
           /\ q = Xor(Xor(t(b), Xor(c, t(c))), Xor(d, a))
        /\ r = Xor(Xor(t(c), Xor(d, t(d))), Xor(a, b))
           /\ k = Xor(Xor(t(d), Xor(a, t(a))), Xor(b, c))
    OBVIOUS
  <2> HIDE DEF p, q, r, k
  <2>3. N(p, q, r, k) = a
    BY <2>2, MixInverse
  <2> HIDE DEF M, N
  <2> QED BY <2>1, <2>3 DEF p, q, r, k
<1>5. ASSUME NEW w \in Block, NEW i \in 1..16
      PROVE  /\ MixedByte(w, <<2, 3, 1, 1>>, (i - 1) \div 4, (i - 1) % 4)
                  = M(At(w, i, 0), At(w, i, 1), At(w, i, 2), At(w, i, 3))
             /\ MixedByte(w, <<14, 11, 13, 9>>, (i - 1) \div 4, (i - 1) % 4)
                  = N(At(w, i, 0), At(w, i, 1), At(w, i, 2), At(w, i, 3))
  <2>1. At(w, i, 0) \in Byte /\ At(w, i, 1) \in Byte /\ At(w, i, 2) \in Byte /\ At(w, i, 3) \in Byte
    BY <1>3
  <2>2. \A m : MixedByte(w, m, (i - 1) \div 4, (i - 1) % 4)
                = Xor(Xor(Gmul(At(w, i, 0), m[1]), Gmul(At(w, i, 1), m[2])),
                      Xor(Gmul(At(w, i, 2), m[3]), Gmul(At(w, i, 3), m[4])))
    BY DEF MixedByte
  <2> HIDE DEF At
  <2>3. /\ <<2, 3, 1, 1>>[1] = 2 /\ <<2, 3, 1, 1>>[2] = 3 /\ <<2, 3, 1, 1>>[3] = 1
           /\ <<2, 3, 1, 1>>[4] = 1
        /\ <<14, 11, 13, 9>>[1] = 14 /\ <<14, 11, 13, 9>>[2] = 11
        /\ <<14, 11, 13, 9>>[3] = 13 /\ <<14, 11, 13, 9>>[4] = 9
    OBVIOUS
  <2>4. MixedByte(w, <<2, 3, 1, 1>>, (i - 1) \div 4, (i - 1) % 4)
          = Xor(Xor(Gmul(At(w, i, 0), 2), Gmul(At(w, i, 1), 3)),
                Xor(Gmul(At(w, i, 2), 1), Gmul(At(w, i, 3), 1)))
    BY <2>2, <2>3
  <2>5. MixedByte(w, <<14, 11, 13, 9>>, (i - 1) \div 4, (i - 1) % 4)
          = Xor(Xor(Gmul(At(w, i, 0), 14), Gmul(At(w, i, 1), 11)),
                Xor(Gmul(At(w, i, 2), 13), Gmul(At(w, i, 3), 9)))
    BY <2>2, <2>3
  <2> QED BY <2>1, <2>4, <2>5, GmulIs
<1> HIDE DEF M, N
<1>6. u \in Block
  <2> HIDE DEF At
  <2>1. ASSUME NEW i \in 1..16 PROVE u[i] \in Byte
    <3>1. At(s, i, 0) \in Byte /\ At(s, i, 1) \in Byte /\ At(s, i, 2) \in Byte
          /\ At(s, i, 3) \in Byte
      BY <1>3
    <3> QED BY <1>4, <3>1
  <2> QED BY <2>1 DEF Block
<1>7. MixColumns(s) = u
  <2> HIDE DEF At
  <2>1. MixColumns(s)
        = Now([i \in 1..16 |-> MixedByte(s, <<2, 3, 1, 1>>, (i - 1) \div 4, (i - 1) % 4)])
    BY DEF MixColumns, MixBy
  <2>2. MixColumns(s) = Now(u) BY <1>5, <2>1
  <2> HIDE DEF u
  <2> QED BY <1>6, <2>2, NowIs DEF Block
<1>8. ASSUME NEW i \in 1..16 PROVE v[i] = s[i]
  <2> DEFINE a == At(s, i, 0)
             b == At(s, i, 1)
             c == At(s, i, 2)
             d == At(s, i, 3)
  <2>1. a \in Byte /\ b \in Byte /\ c \in Byte /\ d \in Byte BY <1>3
  <2>2. ASSUME NEW j \in 0..3
        PROVE  At(u, i, j)
               = M(At(s, i, j), At(s, i, (j + 1) % 4), At(s, i, (j + 2) % 4), At(s, i, (j + 3) % 4))
    <3> DEFINE k == 4 * ((i - 1) \div 4) + ((((i - 1) % 4) + j) % 4) + 1
    <3>1. k \in 1..16 /\ (k - 1) \div 4 = (i - 1) \div 4 /\ (k - 1) % 4 = (((i - 1) % 4) + j) % 4
      OBVIOUS
    <3>2. At(u, i, j) = u[k] OBVIOUS
    <3>3. ASSUME NEW l \in 0..3
          PROVE ((((((i - 1) % 4) + j) % 4)) + l) % 4 = (((i - 1) % 4) + ((j + l) % 4)) % 4
      OBVIOUS
    <3>4. ASSUME NEW l \in 0..3 PROVE At(s, k, l) = At(s, i, (j + l) % 4)
      BY <3>1, <3>3
    <3>5. (j + 0) % 4 = j OBVIOUS
    <3> HIDE DEF k, At
    <3>6. u[k] = M(At(s, k, 0), At(s, k, 1), At(s, k, 2), At(s, k, 3)) BY <3>1
    <3>7. /\ At(s, k, 0) = At(s, i, j) /\ At(s, k, 1) = At(s, i, (j + 1) % 4)
          /\ At(s, k, 2) = At(s, i, (j + 2) % 4) /\ At(s, k, 3) = At(s, i, (j + 3) % 4)
      BY <3>4, <3>5
    <3> QED BY <3>2, <3>6, <3>7
  <2>3. a = s[i] OBVIOUS
  <2>4. /\ At(u, i, 0) = M(a, b, c, d) /\ At(u, i, 1) = M(b, c, d, a)
        /\ At(u, i, 2) = M(c, d, a, b) /\ At(u, i, 3) = M(d, a, b, c)
    <3>1. /\ (0 + 1) % 4 = 1 /\ (0 + 2) % 4 = 2 /\ (0 + 3) % 4 = 3 /\ (1 + 1) % 4 = 2
             /\ (1 + 2) % 4 = 3
          /\ (1 + 3) % 4 = 0 /\ (2 + 1) % 4 = 3 /\ (2 + 2) % 4 = 0 /\ (2 + 3) % 4 = 1
             /\ (3 + 1) % 4 = 0
          /\ (3 + 2) % 4 = 1 /\ (3 + 3) % 4 = 2
      OBVIOUS
    <3> HIDE DEF At, u
    <3>2. At(u, i, 0) = M(a, b, c, d) BY <2>2, <3>1
    <3>3. At(u, i, 1) = M(b, c, d, a) BY <2>2, <3>1
    <3>4. At(u, i, 2) = M(c, d, a, b) BY <2>2, <3>1
    <3>5. At(u, i, 3) = M(d, a, b, c) BY <2>2, <3>1
    <3> QED BY <3>2, <3>3, <3>4, <3>5
  <2>5. v[i] = N(At(u, i, 0), At(u, i, 1), At(u, i, 2), At(u, i, 3)) OBVIOUS
  <2> HIDE DEF At, a, b, c, d, u, v
  <2> QED BY <1>4, <2>1, <2>3, <2>4, <2>5
<1>9. v = s
  <2>2. v = [i \in 1..16 |-> v[i]] OBVIOUS
  <2>3. s = [i \in 1..16 |-> s[i]] BY DEF Block
  <2> HIDE DEF v
  <2> QED BY <1>8, <2>2, <2>3
<1>10. InvMixColumns(u) = v
  <2> HIDE DEF At, u
  <2>1. InvMixColumns(u)
        = Now([i \in 1..16 |-> MixedByte(u, <<14, 11, 13, 9>>, (i - 1) \div 4, (i - 1) % 4)])
    BY DEF InvMixColumns, MixBy
  <2>2. InvMixColumns(u) = Now(v) BY <1>5, <1>6, <2>1
  <2> HIDE DEF v
  <2> QED BY <1>9, <2>2, NowIs DEF Block
<1> QED BY <1>6, <1>7, <1>9, <1>10

\* A word is a sequence of four.
LEMMA FourIs ==
  ASSUME NEW S, NEW u \in [1..4 -> S]
  PROVE  u \in Seq(S) /\ Len(u) = 4
<1>1. u \in Seq(S) BY SeqDef
<1> QED BY <1>1

\* A turn of the key schedule adds a word.
LEMMA NextWordIs ==
  ASSUME NEW w \in Seq(AesWord), NEW n \in 1..40, Len(w) = n + 3
  PROVE  NextWord(w, n + 3) \in Seq(AesWord) /\ Len(NextWord(w, n + 3)) = n + 4
<1> DEFINE i == n + 3
<1>1. w[n] \in AesWord /\ w[i] \in AesWord /\ i - 3 = n BY LenProperties
<1>2. ASSUME i % 4 = 0 PROVE RotSub(w[i], i \div 4) \in AesWord
  <2>1. kRcon[i \div 4] \in Byte
    <3>1. i \div 4 \in 1..10 BY <1>2
    <3>2. /\ kRcon[1] \in Byte /\ kRcon[2] \in Byte /\ kRcon[3] \in Byte /\ kRcon[4] \in Byte
          /\ kRcon[5] \in Byte /\ kRcon[6] \in Byte /\ kRcon[7] \in Byte /\ kRcon[8] \in Byte
          /\ kRcon[9] \in Byte /\ kRcon[10] \in Byte
      BY DEF kRcon, Byte
    <3> QED BY <3>1, <3>2
  <2> DEFINE v == [r \in 1..4 |-> Xor(Sub(w[i][(r % 4) + 1]), IF r = 1 THEN kRcon[i \div 4] ELSE 0)]
  <2>2. ASSUME NEW r \in 1..4 PROVE v[r] \in Byte
    <3>1. (r % 4) + 1 \in 1..4 OBVIOUS
    <3>2. w[i][(r % 4) + 1] \in Byte BY <1>1, <3>1 DEF AesWord
    <3>3. Sub(w[i][(r % 4) + 1]) \in Byte BY <3>2, SboxInverse
    <3>4. 0 \in Byte BY DEF Byte
    <3>5. (IF r = 1 THEN kRcon[i \div 4] ELSE 0) \in Byte BY <2>1, <3>4
    <3> QED BY <3>3, <3>5, XorLaws
  <2>3. v \in [1..4 -> Byte] BY <2>2
  <2>4. RotSub(w[i], i \div 4) = Now(v) BY DEF RotSub
  <2> HIDE DEF v
  <2> QED BY <2>3, <2>4, NowIs DEF AesWord
<1> DEFINE x == IF i % 4 = 0 THEN RotSub(w[i], i \div 4) ELSE w[i]
<1>3. x \in AesWord BY <1>1, <1>2
<1>4. NextWord(w, i) = Append(w, XorSeq(w[n], x)) BY <1>1 DEF NextWord
<1> HIDE DEF x
<1>5. XorSeq(w[n], x) \in AesWord BY <1>1, <1>3, XorSeqIs DEF AesWord
<1> QED BY <1>4, <1>5, AppendProperties

\* The key schedule has 44 words.
LEMMA KeyExpansionIs ==
  ASSUME NEW key \in Block
  PROVE  KeyExpansion(key) \in Schedule
<1>1. PICK a : /\ a[0] = [i \in 1..4 |-> SubSeq(key, 4 * i - 3, 4 * i)]
               /\ \A i \in 1..40 : a[i] = NextWord(a[i - 1], i + 3)
               /\ KeyExpansion(key) = a[40]
  BY KeyTurns
<1> DEFINE S == {n \in Nat : n <= 40 => a[n] \in Seq(AesWord) /\ Len(a[n]) = n + 4}
<1>2. 0 \in S
  <2>1. ASSUME NEW i \in 1..4 PROVE SubSeq(key, 4 * i - 3, 4 * i) \in AesWord
    <3>1. \A k \in 4 * i - 3 .. 4 * i : key[k] \in Byte BY DEF Block
    <3>2. SubSeq(key, 4 * i - 3, 4 * i) \in Seq(Byte) /\ Len(SubSeq(key, 4 * i - 3, 4 * i)) = 4
      BY <3>1, SubSeqProperties
    <3> QED BY <3>2, LenProperties DEF AesWord
  <2>2. a[0] \in [1..4 -> AesWord] BY <1>1, <2>1
  <2> HIDE DEF S
  <2>3. ASSUME NEW s \in [1..4 -> AesWord] PROVE s \in Seq(AesWord) /\ Len(s) = 4
    BY FourIs
  <2>4. a[0] \in Seq(AesWord) /\ Len(a[0]) = 4 BY <2>2, <2>3
  <2> QED BY <2>4 DEF S
<1>3. ASSUME NEW n \in Nat, n \in S PROVE n + 1 \in S
  <2> SUFFICES ASSUME n + 1 <= 40 PROVE a[n + 1] \in Seq(AesWord) /\ Len(a[n + 1]) = n + 5
    OBVIOUS
  <2>1. a[n] \in Seq(AesWord) /\ Len(a[n]) = (n + 1) + 3 BY <1>3
  <2>2. n + 1 \in 1..40 /\ (n + 1) - 1 = n OBVIOUS
  <2>3. a[n + 1] = NextWord(a[n], (n + 1) + 3) BY <1>1, <2>2
  <2>4. a[n + 1] \in Seq(AesWord) /\ Len(a[n + 1]) = (n + 1) + 4 BY <2>1, <2>2, <2>3, NextWordIs
  <2> QED BY <2>4
<1> HIDE DEF S
<1>4. 40 \in S BY <1>2, <1>3, SetInduction
<1> QED BY <1>1, <1>4 DEF S, Schedule

\* A round key is a block.
LEMMA RoundKeyIs ==
  ASSUME NEW w \in Schedule, NEW n \in 0..10
  PROVE  RoundKey(w, n) \in Block
<1>1. w \in Seq(AesWord) /\ Len(w) = 44 BY DEF Schedule
<1>2. ASSUME NEW i \in 1..44 PROVE w[i] \in Seq(Byte) /\ Len(w[i]) = 4
  <2>1. w[i] \in [1..4 -> Byte] BY Zenon, <1>1, LenProperties DEF AesWord
  <2> DEFINE v == w[i]
  <2> HIDE DEF v
  <2>2. ASSUME NEW u \in [1..4 -> Byte] PROVE u \in Seq(Byte) /\ Len(u) = 4 BY FourIs
  <2> QED BY <2>1, <2>2
<1> DEFINE a == w[4 * n + 1]
           b == w[4 * n + 2]
           c == w[4 * n + 3]
           d == w[4 * n + 4]
<1>3. /\ a \in Seq(Byte) /\ b \in Seq(Byte) /\ c \in Seq(Byte) /\ d \in Seq(Byte)
      /\ Len(a) = 4 /\ Len(b) = 4 /\ Len(c) = 4 /\ Len(d) = 4
  <2>1. 4 * n + 1 \in 1..44 /\ 4 * n + 2 \in 1..44 /\ 4 * n + 3 \in 1..44 /\ 4 * n + 4 \in 1..44
    OBVIOUS
  <2> QED BY Zenon, <2>1, <1>2
<1>4. RoundKey(w, n) = ((a \o b) \o c) \o d BY DEF RoundKey
<1> HIDE DEF a, b, c, d
<1>5. a \o b \in Seq(Byte) /\ Len(a \o b) = 8
  <2>1. a \o b \in Seq(Byte) /\ Len(a \o b) = Len(a) + Len(b) BY <1>3, ConcatProperties
  <2> QED BY <1>3, <2>1
<1>6. (a \o b) \o c \in Seq(Byte) /\ Len((a \o b) \o c) = 12 BY <1>3, <1>5, ConcatProperties
<1>7. ((a \o b) \o c) \o d \in Seq(Byte) /\ Len(((a \o b) \o c) \o d) = 16
  BY <1>3, <1>6, ConcatProperties
<1> QED BY <1>4, <1>7, LenProperties DEF Block

\* What one round did is taken back step by step.
LEMMA RoundIs ==
  ASSUME NEW s \in Block, NEW k \in Block
  PROVE  /\ SubBytes(s) \in Block /\ ShiftRows(SubBytes(s)) \in Block
         /\ InvSubBytes(InvShiftRows(ShiftRows(SubBytes(s)))) = s
         /\ MixColumns(ShiftRows(SubBytes(s))) \in Block
         /\ XorSeq(MixColumns(ShiftRows(SubBytes(s))), k) \in Block
         /\ InvMixColumns(XorSeq(XorSeq(MixColumns(ShiftRows(SubBytes(s))), k), k))
            = ShiftRows(SubBytes(s))
<1>1. SubBytes(s) \in Block /\ InvSubBytes(SubBytes(s)) = s BY SubIs
<1>2. ShiftRows(SubBytes(s)) \in Block /\ InvShiftRows(ShiftRows(SubBytes(s))) = SubBytes(s)
  BY <1>1, ShiftIs
<1> DEFINE t == ShiftRows(SubBytes(s))
<1> HIDE DEF t
<1>3. MixColumns(t) \in Block /\ InvMixColumns(MixColumns(t)) = t BY <1>2, MixIs DEF t
<1>4. XorSeq(MixColumns(t), k) \in Block /\ XorSeq(XorSeq(MixColumns(t), k), k) = MixColumns(t)
  BY Zenon, <1>3, XorSeqIs DEF Block
<1> QED BY <1>1, <1>2, <1>3, <1>4 DEF t

\* The cipher of one block, and that decryption takes it back.
LEMMA BlockReturns ==
  ASSUME NEW w \in Schedule, NEW in \in Block
  PROVE  /\ EncryptBlock(w, in) \in Block
         /\ DecryptBlock(w, EncryptBlock(w, in)) = in
<1> DEFINE K(n) == RoundKey(w, n)
           M(s) == ShiftRows(SubBytes(s))
           s0 == XorSeq(in, K(0))
<1>1. \A n \in 0..10 : K(n) \in Block BY RoundKeyIs
<1>2. ASSUME NEW s \in Block, NEW n \in 0..10
      PROVE  XorSeq(s, K(n)) \in Block /\ XorSeq(XorSeq(s, K(n)), K(n)) = s
  BY <1>1, XorSeqIs DEF Block
<1>3. s0 \in Block /\ XorSeq(s0, K(0)) = in BY <1>2
<1>4. ASSUME NEW s \in Block, NEW n \in 0..10
      PROVE  /\ M(s) \in Block /\ InvSubBytes(InvShiftRows(M(s))) = s
             /\ XorSeq(MixColumns(M(s)), K(n)) \in Block
             /\ InvMixColumns(XorSeq(XorSeq(MixColumns(M(s)), K(n)), K(n))) = M(s)
  BY <1>1, RoundIs
<1> HIDE DEF s0
<1>5. PICK a : /\ a[0] = s0
               /\ \A i \in 1..9 : a[i] = Round(w, a[i - 1], i)
               /\ EncryptRounds(w, s0) = a[9]
  BY EncryptTurns
<1>6. \A i \in 1..9 : a[i] = XorSeq(MixColumns(M(a[i - 1])), K(i)) BY <1>5 DEF Round
<1> HIDE DEF K, M
<1>7. ASSUME NEW n \in 0..9 PROVE a[n] \in Block
  <2> DEFINE S == {i \in Nat : i <= 9 => a[i] \in Block}
  <2>1. 0 \in S BY <1>3, <1>5
  <2>2. ASSUME NEW i \in Nat, i \in S PROVE i + 1 \in S
    <3> SUFFICES ASSUME i + 1 <= 9 PROVE a[i + 1] \in Block OBVIOUS
    <3>1. a[i] \in Block BY <2>2
    <3>2. i + 1 \in 1..9 /\ (i + 1) - 1 = i OBVIOUS
    <3>3. a[i + 1] = XorSeq(MixColumns(M(a[i])), K(i + 1)) BY <1>6, <3>2
    <3> QED BY <1>4, <3>1, <3>2, <3>3
  <2> HIDE DEF S
  <2>3. n \in S BY <2>1, <2>2, SetInduction
  <2> QED BY <2>3 DEF S
<1>8. EncryptBlock(w, in) = XorSeq(M(a[9]), K(10)) BY <1>5 DEF EncryptBlock, s0, M, K
<1>9. M(a[9]) \in Block BY <1>4, <1>7
<1>10. EncryptBlock(w, in) \in Block /\ XorSeq(EncryptBlock(w, in), K(10)) = M(a[9])
  BY <1>2, <1>8, <1>9
<1>11. PICK b : /\ b[0] = M(a[9])
                /\ \A i \in 1..9 : b[i] = InvRound(w, b[i - 1], 10 - i)
                /\ DecryptRounds(w, M(a[9])) = b[9]
  BY DecryptTurns
<1>12. \A i \in 1..9 : b[i] = InvMixColumns(XorSeq(InvSubBytes(InvShiftRows(b[i - 1])), K(10 - i)))
  BY <1>11 DEF InvRound, K
<1>13. b[9] = M(a[0])
  <2> DEFINE S == {i \in Nat : i <= 9 => b[i] = M(a[9 - i])}
  <2>1. 0 \in S
    <3>1. 9 - 0 = 9 OBVIOUS
    <3> QED BY <1>11, <3>1
  <2>2. ASSUME NEW i \in Nat, i \in S PROVE i + 1 \in S
    <3> SUFFICES ASSUME i + 1 <= 9 PROVE b[i + 1] = M(a[9 - (i + 1)]) OBVIOUS
    <3>1. i + 1 \in 1..9 /\ (i + 1) - 1 = i /\ 10 - (i + 1) = 9 - i /\ 9 - i \in 1..9
          /\ (9 - i) - 1 = 9 - (i + 1) /\ 9 - (i + 1) \in 0..9 /\ 9 - i \in 0..10
      OBVIOUS
    <3> DEFINE s == a[9 - (i + 1)]
               t == a[9 - i]
    <3>2. b[i] = M(t) BY <2>2
    <3>3. t \in Block /\ s \in Block BY <1>7, <3>1
    <3>4. t = XorSeq(MixColumns(M(s)), K(9 - i)) BY <1>6, <3>1
    <3>5. b[i + 1] = InvMixColumns(XorSeq(InvSubBytes(InvShiftRows(b[i])), K(9 - i))) BY <1>12, <3>1
    <3>6. InvSubBytes(InvShiftRows(b[i])) = t
      <4> HIDE DEF t
      <4> QED BY <1>4, <3>2, <3>3
    <3> HIDE DEF s, t
    <3>7. InvMixColumns(XorSeq(t, K(9 - i))) = M(s) BY <1>4, <3>1, <3>3, <3>4
    <3> QED BY <3>5, <3>6, <3>7 DEF s
  <2> HIDE DEF S
  <2>3. 9 \in S BY <2>1, <2>2, SetInduction
  <2>4. 9 - 9 = 0 OBVIOUS
  <2> QED BY <2>3, <2>4 DEF S
<1>14. DecryptBlock(w, EncryptBlock(w, in)) = XorSeq(InvSubBytes(InvShiftRows(M(a[0]))), K(0))
  BY <1>10, <1>11, <1>13 DEF DecryptBlock, K
<1>15. InvSubBytes(InvShiftRows(M(a[0]))) = s0 BY <1>3, <1>4, <1>5
<1> QED BY <1>3, <1>10, <1>14, <1>15

\* A block is a sequence of 16 bytes.
LEMMA BlockSeq ==
  ASSUME NEW s
  PROVE  /\ s \in Block <=> (s \in Seq(Byte) /\ Len(s) = 16)
         /\ s \in Block => DOMAIN s = 1..16
<1>1. s \in Block => s \in Seq(Byte) BY SeqDef DEF Block
<1>2. s \in Seq(Byte) => s \in [1..Len(s) -> Byte] /\ DOMAIN s = 1..Len(s) /\ Len(s) \in Nat
  BY LenProperties
<1>3. s \in Block => DOMAIN s = 1..16 BY DEF Block
<1>4. s \in Block => Len(s) = 16
  <2> SUFFICES ASSUME s \in Block PROVE Len(s) = 16 OBVIOUS
  <2>1. 1..Len(s) = 1..16 /\ Len(s) \in Nat BY <1>1, <1>2, <1>3
  <2> DEFINE k == Len(s)
  <2> HIDE DEF k
  <2>2. k \in Nat /\ 1..k = 1..16 BY <2>1 DEF k
  <2>3. k = 16
    <3>1. 16 \in 1..k /\ ~(17 \in 1..k) BY <2>2
    <3> QED BY <2>2, <3>1
  <2> QED BY <2>3 DEF k
<1>5. s \in Seq(Byte) /\ Len(s) = 16 => s \in Block BY <1>2 DEF Block
<1> QED BY <1>1, <1>3, <1>4, <1>5

\* Blocks with the same bytes are the same.
LEMMA BlockEqual ==
  ASSUME NEW s \in Block, NEW t \in Block, \A i \in 1..16 : s[i] = t[i]
  PROVE  s = t
BY DEF Block

\* The bytes of a block of a sequence.
LEMMA BlockOfIs ==
  ASSUME NEW s \in Seq(Byte), NEW b \in Nat \ {0}, 16 * b <= Len(s)
  PROVE  /\ BlockOf(s, b) \in Block
         /\ \A i \in 1..16 : BlockOf(s, b)[i] = s[16 * (b - 1) + i]
<1> DEFINE m == 16 * b - 15
           n == 16 * b
<1>1. m \in 1..Len(s) + 1 /\ n \in 0..Len(s) /\ n - m + 1 = 16 /\ m <= n OBVIOUS
<1>2. \A i \in 1..16 : m + i - 1 = 16 * (b - 1) + i OBVIOUS
<1>3. BlockOf(s, b) = SubSeq(s, m, n) BY DEF BlockOf
<1> HIDE DEF m, n
<1>4. /\ SubSeq(s, m, n) \in Seq(Byte) /\ Len(SubSeq(s, m, n)) = 16
      /\ \A i \in 1..16 : SubSeq(s, m, n)[i] = s[m + i - 1]
  <2>1. \A i \in m..n : s[i] \in Byte BY <1>1, LenProperties
  <2> QED BY <1>1, <2>1, SubSeqProperties
<1> QED BY <1>2, <1>3, <1>4, BlockSeq

\* The two halves of a sequence, and a sequence of two halves.
LEMMA PrefixIs ==
  ASSUME NEW T, NEW s \in Seq(T), NEW n \in Nat, n <= Len(s)
  PROVE  /\ SubSeq(s, 1, n) \in Seq(T) /\ Len(SubSeq(s, 1, n)) = n
         /\ \A i \in 1..n : SubSeq(s, 1, n)[i] = s[i]
<1>1. Len(s) \in Nat /\ \A i \in 1..n : s[i] \in T BY LenProperties
<1> QED BY <1>1, SubSeqProperties

\* A piece of a sequence: its length and its elements.
LEMMA PieceIs ==
  ASSUME NEW T, NEW s \in Seq(T), NEW x \in Nat, NEW n \in Nat, 1 <= x, x <= n + 1, n <= Len(s)
  PROVE  /\ SubSeq(s, x, n) \in Seq(T) /\ Len(SubSeq(s, x, n)) = (n + 1) - x
         /\ \A i \in 1..(n + 1) - x : SubSeq(s, x, n)[i] = s[(x - 1) + i]
<1>1. Len(s) \in Nat /\ \A i \in x..n : s[i] \in T BY LenProperties
<1>2. x \in Int /\ n \in Int OBVIOUS
<1>3. /\ SubSeq(s, x, n) \in Seq(T)
      /\ Len(SubSeq(s, x, n)) = IF x <= n THEN n - x + 1 ELSE 0
      /\ \A i \in 1..n - x + 1 : SubSeq(s, x, n)[i] = s[x + i - 1]
  BY <1>1, <1>2, SubSeqProperties
<1>4. n - x + 1 = (n + 1) - x /\ \A i \in Nat : x + i - 1 = (x - 1) + i OBVIOUS
<1> QED BY <1>3, <1>4

\* A sequence is its first n elements and the rest.
LEMMA Halves ==
  ASSUME NEW T, NEW s \in Seq(T), NEW n \in Nat, n <= Len(s)
  PROVE  /\ SubSeq(s, n + 1, Len(s)) \in Seq(T)
         /\ Len(SubSeq(s, n + 1, Len(s))) = Len(s) - n
         /\ SubSeq(s, 1, n) \o SubSeq(s, n + 1, Len(s)) = s
<1>1. Len(s) \in Nat /\ n + 1 \in Nat /\ 1 <= n + 1 /\ n + 1 <= Len(s) + 1
      /\ (Len(s) + 1) - (n + 1) = Len(s) - n
  BY LenProperties
<1>2. /\ SubSeq(s, n + 1, Len(s)) \in Seq(T)
      /\ Len(SubSeq(s, n + 1, Len(s))) = (Len(s) + 1) - (n + 1)
  BY <1>1, PieceIs
<1>3. SubSeq(s, 1, n) \o SubSeq(s, n + 1, Len(s)) = SubSeq(s, 1, Len(s))
  <2>1. 1 \in 1..Len(s) + 1 /\ n \in 1 - 1..Len(s) /\ Len(s) \in n..Len(s) BY <1>1
  <2> QED BY <2>1, ConcatAdjacentSubSeq
<1> QED BY <1>1, <1>2, <1>3, SubSeqFull

\* What is joined comes apart at the same place.
LEMMA HalvesOf ==
  ASSUME NEW T, NEW s \in Seq(T), NEW t \in Seq(T)
  PROVE  /\ s \o t \in Seq(T) /\ Len(s \o t) = Len(s) + Len(t)
         /\ SubSeq(s \o t, 1, Len(s)) = s
         /\ SubSeq(s \o t, Len(s) + 1, Len(s \o t)) = t
<1> DEFINE m == Len(s)
           n == Len(t)
           u == s \o t
<1>1. m \in Nat /\ n \in Nat BY LenProperties
<1>2. u \in Seq(T) /\ Len(u) = m + n
      /\ \A i \in 1..m + n : u[i] = IF i <= m THEN s[i] ELSE t[i - m]
  BY ConcatProperties
<1> HIDE DEF u
<1>3. /\ SubSeq(u, 1, m) \in Seq(T) /\ Len(SubSeq(u, 1, m)) = m
      /\ \A i \in 1..m : SubSeq(u, 1, m)[i] = u[i]
  BY <1>1, <1>2, PrefixIs
<1>4. \A i \in 1..m : SubSeq(u, 1, m)[i] = s[i] BY <1>1, <1>2, <1>3
<1>5. SubSeq(u, 1, m) = s BY <1>3, <1>4, SeqEqual
<1> DEFINE v == SubSeq(u, m + 1, m + n)
<1>6. v \in Seq(T) /\ Len(v) = n /\ \A i \in 1..n : v[i] = u[m + i]
  <2>1. /\ m + 1 \in Nat /\ m + n \in Nat /\ 1 <= m + 1 /\ m + 1 <= (m + n) + 1 /\ m + n <= Len(u)
        /\ ((m + n) + 1) - (m + 1) = n /\ (m + 1) - 1 = m
    BY <1>1, <1>2
  <2>2. v \in Seq(T) /\ Len(v) = ((m + n) + 1) - (m + 1)
        /\ \A i \in 1..((m + n) + 1) - (m + 1) : v[i] = u[((m + 1) - 1) + i]
    BY <1>2, <2>1, PieceIs
  <2> HIDE DEF v
  <2> QED BY <2>1, <2>2
<1> HIDE DEF v
<1>7. ASSUME NEW i \in 1..n PROVE v[i] = t[i]
  <2>1. m + i \in 1..m + n /\ ~(m + i <= m) /\ (m + i) - m = i BY <1>1
  <2> QED BY <1>2, <1>6, <2>1
<1>9. v = t BY <1>6, <1>7, SeqEqual
<1> QED BY <1>2, <1>5, <1>9 DEF u, v

\* Blocks one behind the other: where each byte comes from.
LEMMA JoinedBlocks ==
  ASSUME NEW n \in Nat, NEW parts \in [1..n -> Block], NEW k \in 0..n
  PROVE  /\ Joined(parts, k) \in Seq(Byte) /\ Len(Joined(parts, k)) = 16 * k
         /\ \A i \in 1..16 * k : Joined(parts, k)[i]
            = parts[((i - 1) \div 16) + 1][((i - 1) % 16) + 1]
<1> DEFINE J(m) == Joined(parts, m)
           At(i) == parts[((i - 1) \div 16) + 1][((i - 1) % 16) + 1]
           S == {m \in Nat : m <= n => /\ J(m) \in Seq(Byte) /\ Len(J(m)) = 16 * m
                                       /\ \A i \in 1..16 * m : J(m)[i] = At(i)}
<1>1. J(0) = <<>> /\ \A m \in Nat \ {0} : J(m) = J(m - 1) \o parts[m] BY JoinedLaw
<1> HIDE DEF J
<1>2. 0 \in S
  <2>1. 1..16 * 0 = {} OBVIOUS
  <2>2. <<>> \in Seq(Byte) /\ Len(<<>>) = 0 BY EmptySeq
  <2>3. J(0) \in Seq(Byte) /\ Len(J(0)) = 16 * 0
    <3>1. 16 * 0 = 0 OBVIOUS
    <3>2. J(0) = <<>> BY <1>1
    <3> QED BY <2>2, <3>1, <3>2
  <2> QED BY <2>1, <2>3
<1>3. ASSUME NEW m \in Nat, m \in S PROVE m + 1 \in S
  <2> SUFFICES ASSUME m + 1 <= n
               PROVE  /\ J(m + 1) \in Seq(Byte) /\ Len(J(m + 1)) = 16 * (m + 1)
                      /\ \A i \in 1..16 * (m + 1) : J(m + 1)[i] = At(i)
    OBVIOUS
  <2>1. J(m) \in Seq(Byte) /\ Len(J(m)) = 16 * m /\ \A i \in 1..16 * m : J(m)[i] = At(i)
    BY <1>3
  <2> DEFINE p == parts[m + 1]
  <2>2. p \in Block BY <1>3
  <2>3. p \in Seq(Byte) /\ Len(p) = 16 BY <2>2, BlockSeq
  <2>4. J(m + 1) = J(m) \o p
    <3>1. m + 1 \in Nat \ {0} /\ (m + 1) - 1 = m OBVIOUS
    <3> QED BY <1>1, <3>1
  <2> HIDE DEF p
  <2>5. /\ J(m) \o p \in Seq(Byte) /\ Len(J(m) \o p) = Len(J(m)) + Len(p)
        /\ \A i \in 1..Len(J(m)) + Len(p) :
              (J(m) \o p)[i] = IF i <= Len(J(m)) THEN J(m)[i] ELSE p[i - Len(J(m))]
    BY Zenon, <2>1, <2>3, ConcatProperties
  <2>6. 16 * (m + 1) = 16 * m + 16 OBVIOUS
  <2>7. ASSUME NEW i \in 1..16 * (m + 1) PROVE J(m + 1)[i] = At(i)
    <3>1. CASE i <= 16 * m BY <2>1, <2>3, <2>4, <2>5, <3>1
    <3>2. CASE ~(i <= 16 * m)
      <4>1. J(m + 1)[i] = p[i - 16 * m] BY SMTT(30), <2>1, <2>3, <2>4, <2>5, <3>2
      <4>2. ((i - 1) \div 16) + 1 = m + 1 /\ ((i - 1) % 16) + 1 = i - 16 * m BY <3>2
      <4> QED BY <4>1, <4>2 DEF p
    <3> QED BY <3>1, <3>2
  <2> QED BY <2>1, <2>3, <2>4, <2>5, <2>6, <2>7
<1> HIDE DEF S
<1>4. k \in S BY <1>2, <1>3, SetInduction
<1> QED BY <1>4 DEF S, J

\* The law of a chain, for every block.
LEMMA ChainStep ==
  ASSUME NEW w, NEW iv, NEW plain
  PROVE  \A b \in Nat \ {0} :
            CipherBlock(w, iv, plain, b)
               = EncryptBlock(w, XorSeq(BlockOf(plain, b), CipherBlock(w, iv, plain, b - 1)))
BY CipherBlockLaw

\* Decryption of whole blocks takes the chain back, from the same iv.
LEMMA ChainReturns ==
  ASSUME NEW w \in Schedule, NEW iv \in Block, NEW plain \in Seq(Byte),
         NEW n \in Nat, 16 * n <= Len(plain), NEW J, J = ChainOf(w, iv, plain, n)
  PROVE  /\ J \in Seq(Byte) /\ Len(J) = 16 * n
         /\ CbcDecryptRaw(w, iv, J) = SubSeq(plain, 1, 16 * n)
<1> DEFINE C(b) == CipherBlock(w, iv, plain, b)
           P(b) == BlockOf(plain, b)
           parts == [b \in 1..n |-> C(b)]
<1>1. ASSUME NEW b \in 1..n
      PROVE P(b) \in Block /\ \A i \in 1..16 : P(b)[i] = plain[16 * (b - 1) + i]
  <2>1. b \in Nat \ {0} /\ 16 * b <= Len(plain) OBVIOUS
  <2> QED BY <2>1, BlockOfIs
<1>2. C(0) = iv /\ \A b \in Nat \ {0} : C(b) = EncryptBlock(w, XorSeq(P(b), C(b - 1)))
  <2>1. C(0) = iv BY CipherBlockLaw
  <2>2. \A b \in Nat \ {0} : C(b) = EncryptBlock(w, XorSeq(P(b), C(b - 1))) BY ChainStep
  <2> QED BY <2>1, <2>2
<1> HIDE DEF C, P
<1>3. ASSUME NEW s \in Block, NEW t \in Block
      PROVE  XorSeq(s, t) \in Block /\ XorSeq(XorSeq(s, t), t) = s
  BY XorSeqIs DEF Block
<1>4. ASSUME NEW b \in 0..n PROVE C(b) \in Block
  <2> DEFINE S == {m \in Nat : m <= n => C(m) \in Block}
  <2>1. 0 \in S BY <1>2
  <2>2. ASSUME NEW m \in Nat, m \in S PROVE m + 1 \in S
    <3> SUFFICES ASSUME m + 1 <= n PROVE C(m + 1) \in Block OBVIOUS
    <3>1. m + 1 \in 1..n /\ C(m) \in Block BY <2>2
    <3>2. XorSeq(P(m + 1), C(m)) \in Block BY <1>1, <1>3, <3>1
    <3>3. EncryptBlock(w, XorSeq(P(m + 1), C(m))) \in Block BY <3>2, BlockReturns
    <3>4. m + 1 \in Nat \ {0} /\ (m + 1) - 1 = m OBVIOUS
    <3> QED BY <1>2, <3>3, <3>4
  <2> HIDE DEF S
  <2>3. b \in S BY <2>1, <2>2, SetInduction
  <2> QED BY <2>3 DEF S
<1>5. parts \in [1..n -> Block] BY <1>4
<1>6. J = Joined(parts, n) BY DEF C, ChainOf
<1> DEFINE At(f, i) == f[((i - 1) \div 16) + 1][((i - 1) % 16) + 1]
<1>7. J \in Seq(Byte) /\ Len(J) = 16 * n /\ \A i \in 1..16 * n : J[i] = At(parts, i)
  <2> HIDE DEF parts
  <2>1. n \in 0..n OBVIOUS
  <2>2. /\ Joined(parts, n) \in Seq(Byte) /\ Len(Joined(parts, n)) = 16 * n
        /\ \A i \in 1..16 * n : Joined(parts, n)[i] = At(parts, i)
    BY ZenonT(30), <1>5, <2>1, JoinedBlocks
  <2> QED BY Zenon, <1>6, <2>2
<1>8. ASSUME NEW b \in 1..n PROVE BlockOf(J, b) = C(b)
  <2>1. b \in Nat \ {0} /\ 16 * b <= Len(J) BY <1>7
  <2>2. BlockOf(J, b) \in Block /\ \A i \in 1..16 : BlockOf(J, b)[i] = J[16 * (b - 1) + i]
    BY Zenon, <1>7, <2>1, BlockOfIs
  <2>3. ASSUME NEW i \in 1..16 PROVE BlockOf(J, b)[i] = C(b)[i]
    <3> DEFINE x == 16 * (b - 1) + i
    <3>1. x \in 1..16 * n /\ ((x - 1) \div 16) + 1 = b /\ ((x - 1) % 16) + 1 = i OBVIOUS
    <3>2. BlockOf(J, b)[i] = J[x] BY <2>2
    <3> HIDE DEF x, parts
    <3>3. J[x] = parts[b][i] BY <1>7, <3>1
    <3> QED BY <3>2, <3>3 DEF parts
  <2>4. C(b) \in Block BY <1>4
  <2> QED BY <2>2, <2>3, <2>4, BlockEqual
<1>9. ASSUME NEW b \in 1..n PROVE Unchained(w, iv, J, b) = P(b)
  <2>1. b - 1 \in 0..n /\ b \in Nat \ {0} OBVIOUS
  <2>2. C(b) = EncryptBlock(w, XorSeq(P(b), C(b - 1))) BY <1>2, <2>1
  <2>3. P(b) \in Block /\ C(b - 1) \in Block BY <1>1, <1>4, <2>1
  <2>4. XorSeq(P(b), C(b - 1)) \in Block /\ XorSeq(XorSeq(P(b), C(b - 1)), C(b - 1)) = P(b)
    BY <1>3, <2>3
  <2>5. DecryptBlock(w, C(b)) = XorSeq(P(b), C(b - 1)) BY <2>2, <2>4, BlockReturns
  <2>6. (IF b = 1 THEN iv ELSE BlockOf(J, b - 1)) = C(b - 1)
    <3>1. CASE b = 1 BY <1>2, <3>1
    <3>2. CASE b # 1
      <4>1. b - 1 \in 1..n BY <3>2
      <4> QED BY <1>8, <3>2, <4>1
    <3> QED BY <3>1, <3>2
  <2> QED BY <1>8, <2>4, <2>5, <2>6 DEF Unchained
<1> DEFINE back == [b \in 1..n |-> P(b)]
<1>10. CbcDecryptRaw(w, iv, J) = Joined(back, n)
  <2>1. Len(J) \div 16 = n BY <1>7
  <2>2. [b \in 1..n |-> Unchained(w, iv, J, b)] = back BY <1>9
  <2> QED BY <2>1, <2>2 DEF CbcDecryptRaw
<1>11. back \in [1..n -> Block] BY <1>1
<1>12. /\ Joined(back, n) \in Seq(Byte) /\ Len(Joined(back, n)) = 16 * n
       /\ \A i \in 1..16 * n : Joined(back, n)[i] = At(back, i)
  <2> HIDE DEF back
  <2>1. n \in 0..n OBVIOUS
  <2> QED BY <1>11, <2>1, JoinedBlocks
<1>13. ASSUME NEW i \in 1..16 * n PROVE Joined(back, n)[i] = plain[i]
  <2>1. /\ ((i - 1) \div 16) + 1 \in 1..n /\ ((i - 1) % 16) + 1 \in 1..16
        /\ 16 * ((((i - 1) \div 16) + 1) - 1) + (((i - 1) % 16) + 1) = i
    OBVIOUS
  <2>2. Joined(back, n)[i] = P(((i - 1) \div 16) + 1)[((i - 1) % 16) + 1] BY <1>12, <2>1
  <2> QED BY Zenon, <1>1, <2>1, <2>2
<1>14. /\ SubSeq(plain, 1, 16 * n) \in Seq(Byte) /\ Len(SubSeq(plain, 1, 16 * n)) = 16 * n
       /\ \A i \in 1..16 * n : SubSeq(plain, 1, 16 * n)[i] = plain[i]
  BY PrefixIs
<1> HIDE DEF back
<1>15. Joined(back, n) = SubSeq(plain, 1, 16 * n) BY <1>12, <1>13, <1>14, SeqEqual
<1> QED BY <1>7, <1>10, <1>15

\* A packet of whole blocks and bytes behind them comes back as it was.
LEMMA ChainedReturns ==
  ASSUME NEW w \in Schedule, NEW iv \in Block, NEW plain \in Seq(Byte), NEW v,
         v.cbc_keys = w, v.cbc_iv = iv
  PROVE  /\ Chained(w, iv, plain) \in Seq(Byte)
         /\ Len(Chained(w, iv, plain)) = Len(plain)
         /\ CbcPayload(v, Chained(w, iv, plain), WholeBlocks(Chained(w, iv, plain))) = plain
<1> DEFINE n == Len(plain) \div 16
           J == ChainOf(w, iv, plain, n)
           rest == SubSeq(plain, 16 * n + 1, Len(plain))
<1>1. Len(plain) \in Nat BY LenProperties
<1>2. n \in Nat /\ 16 * n \in Nat /\ 16 * n <= Len(plain) /\ Len(plain) < 16 * n + 16 BY <1>1
<1>3. Chained(w, iv, plain) = J \o rest BY DEF Chained, ChainOf
<1> HIDE DEF n
<1>5. /\ J \in Seq(Byte) /\ Len(J) = 16 * n
      /\ CbcDecryptRaw(w, iv, J) = SubSeq(plain, 1, 16 * n)
  BY <1>2, ChainReturns
<1> HIDE DEF J
<1>6. rest \in Seq(Byte) /\ Len(rest) = Len(plain) - 16 * n
      /\ SubSeq(plain, 1, 16 * n) \o rest = plain
  BY Zenon, <1>1, <1>2, Halves
<1> HIDE DEF rest
<1>7. /\ J \o rest \in Seq(Byte) /\ Len(J \o rest) = Len(plain)
      /\ SubSeq(J \o rest, 1, 16 * n) = J
      /\ SubSeq(J \o rest, 16 * n + 1, Len(J \o rest)) = rest
  <2>1. /\ J \o rest \in Seq(Byte) /\ Len(J \o rest) = Len(J) + Len(rest)
        /\ SubSeq(J \o rest, 1, Len(J)) = J
        /\ SubSeq(J \o rest, Len(J) + 1, Len(J \o rest)) = rest
    <3>1. J \in Seq(Byte) BY <1>5
    <3>2. rest \in Seq(Byte) BY <1>6
    <3> QED BY <3>1, <3>2, HalvesOf
  <2>2. Len(J) + Len(rest) = Len(plain) BY <1>1, <1>2, <1>5, <1>6
  <2> QED BY <1>5, <2>1, <2>2
<1>8. WholeBlocks(J \o rest) = 16 * n BY <1>2, <1>7 DEF WholeBlocks, n
<1>9. CbcPayload(v, J \o rest, 16 * n) = CbcDecryptRaw(w, iv, J) \o rest
  BY <1>7 DEF CbcPayload
<1> QED BY <1>3, <1>5, <1>6, <1>7, <1>8, <1>9

-----------------------------------------------------------------------------
(* Counter mode. *)

\* One byte of the counter more.
LEMMA CarryStep ==
  ASSUME NEW iv, NEW m, NEW k \in Nat \ {0}
  PROVE  Carry(iv, m, k) = (iv[17 - k] + Carry(iv, m, k - 1)) \div 256
BY CarryLaw

\* What is carried is a number.
LEMMA CarryIs ==
  ASSUME NEW iv \in Block, NEW n \in Nat
  PROVE  /\ \A k \in 0..16 : Carry(iv, n, k) \in Nat
         /\ \A k \in 1..16 : Carry(iv, n, k) = (iv[17 - k] + Carry(iv, n, k - 1)) \div 256
         /\ Carry(iv, n, 0) = n
<1>1. Carry(iv, n, 0) = n BY CarryLaw
<1>2. ASSUME NEW k \in 1..16 PROVE Carry(iv, n, k) = (iv[17 - k] + Carry(iv, n, k - 1)) \div 256
  <2>1. k \in Nat \ {0} OBVIOUS
  <2> QED BY <2>1, CarryStep
<1>3. ASSUME NEW k \in 0..16 PROVE Carry(iv, n, k) \in Nat
  <2> DEFINE S == {m \in Nat : m <= 16 => Carry(iv, n, m) \in Nat}
  <2>1. 0 \in S BY <1>1
  <2>2. ASSUME NEW m \in Nat, m \in S PROVE m + 1 \in S
    <3> SUFFICES ASSUME m + 1 <= 16 PROVE Carry(iv, n, m + 1) \in Nat OBVIOUS
    <3>1. m + 1 \in 1..16 /\ (m + 1) - 1 = m /\ 17 - (m + 1) \in 1..16 OBVIOUS
    <3>2. Carry(iv, n, m) \in Nat BY <2>2
    <3>3. iv[17 - (m + 1)] \in Nat BY SMTT(30), <3>1 DEF Block, Byte
    <3>4. Carry(iv, n, m + 1) = (iv[17 - (m + 1)] + Carry(iv, n, m)) \div 256 BY <1>2, <3>1
    <3> QED BY <3>2, <3>3, <3>4
  <2> HIDE DEF S
  <2>3. k \in S BY <2>1, <2>2, SetInduction
  <2> QED BY <2>3 DEF S
<1> QED BY <1>1, <1>2, <1>3

\* A counter block is a block; its bytes.
LEMMA CounterIs ==
  ASSUME NEW iv \in Block, NEW n \in Nat
  PROVE  /\ CounterAt(iv, n) \in Block
         /\ \A i \in 1..16 : CounterAt(iv, n)[i] = (iv[i] + Carry(iv, n, 16 - i)) % 256
<1> DEFINE c == [i \in 1..16 |-> (iv[i] + Carry(iv, n, 16 - i)) % 256]
<1>1. ASSUME NEW i \in 1..16 PROVE (iv[i] + Carry(iv, n, 16 - i)) % 256 \in Byte
  <2>1. 16 - i \in 0..16 OBVIOUS
  <2>2. Carry(iv, n, 16 - i) \in Nat BY Zenon, <2>1, CarryIs
  <2>3. iv[i] \in Nat BY SMTT(30) DEF Block, Byte
  <2> QED BY <2>2, <2>3 DEF Byte
<1>2. c \in Block BY <1>1 DEF Block
<1>3. CounterAt(iv, n) = Now(c) BY DEF CounterAt
<1>4. \A i \in 1..16 : c[i] = (iv[i] + Carry(iv, n, 16 - i)) % 256 OBVIOUS
<1> HIDE DEF c
<1>5. Now(c) = c BY <1>2, NowIs DEF Block
<1> QED BY <1>2, <1>3, <1>4, <1>5

\* The first counter is the iv.
LEMMA CounterStart ==
  ASSUME NEW iv \in Block
  PROVE  CounterAt(iv, 0) = iv
<1>0. \A k \in 1..16 : Carry(iv, 0, k) = (iv[17 - k] + Carry(iv, 0, k - 1)) \div 256
  <2> DEFINE n == 0
  <2>1. n \in Nat /\ n = 0 OBVIOUS
  <2> HIDE DEF n
  <2>2. \A k \in 1..16 : Carry(iv, n, k) = (iv[17 - k] + Carry(iv, n, k - 1)) \div 256
    BY ZenonT(30), <2>1, CarryIs
  <2> QED BY <2>1, <2>2
<1>1. ASSUME NEW k \in 0..16 PROVE Carry(iv, 0, k) = 0
  <2> DEFINE S == {m \in Nat : m <= 16 => Carry(iv, 0, m) = 0}
  <2>1. 0 \in S BY CarryLaw
  <2>2. ASSUME NEW m \in Nat, m \in S PROVE m + 1 \in S
    <3> SUFFICES ASSUME m + 1 <= 16 PROVE Carry(iv, 0, m + 1) = 0 OBVIOUS
    <3>1. m + 1 \in 1..16 /\ (m + 1) - 1 = m /\ 17 - (m + 1) \in 1..16 OBVIOUS
    <3>2. Carry(iv, 0, m) = 0 BY <2>2
    <3>3. iv[17 - (m + 1)] \in 0..255 BY <3>1 DEF Block, Byte
    <3>4. Carry(iv, 0, m + 1) = (iv[17 - (m + 1)] + Carry(iv, 0, m)) \div 256 BY <1>0, <3>1
    <3> QED BY <3>2, <3>3, <3>4
  <2> HIDE DEF S
  <2>3. k \in S BY <2>1, <2>2, SetInduction
  <2> QED BY <2>3 DEF S
<1>2. ASSUME NEW i \in 1..16 PROVE CounterAt(iv, 0)[i] = iv[i]
  <2>1. 16 - i \in 0..16 OBVIOUS
  <2>2. CounterAt(iv, 0)[i] = (iv[i] + 0) % 256 BY ZenonT(30), <1>1, <2>1, CounterIs
  <2>3. iv[i] \in 0..255 BY DEF Block, Byte
  <2> QED BY <2>2, <2>3
<1>3. CounterAt(iv, 0) \in Block BY CounterIs
<1> QED BY <1>2, <1>3, BlockEqual

\* What a step of the code adds is what the next number carries.
LEMMA CounterSteps ==
  ASSUME NEW iv \in Block, NEW n \in Nat
  PROVE  IncrementCounter(CounterAt(iv, n)) = CounterAt(iv, n + 1)
<1> DEFINE c == CounterAt(iv, n)
           d == CounterAt(iv, n + 1)
           A(k) == Carry(iv, n, k)
           B(k) == Carry(iv, n + 1, k)
           u == [i \in 1..16 |-> IF \A j \in (i + 1)..16 : c[j] = 255
               THEN (c[i] + 1) % 256 ELSE c[i]]
<1>0. n + 1 \in Nat OBVIOUS
<1>1. c \in Block /\ \A i \in 1..16 : c[i] = (iv[i] + A(16 - i)) % 256 BY CounterIs
<1>2. d \in Block /\ \A i \in 1..16 : d[i] = (iv[i] + B(16 - i)) % 256 BY Zenon, <1>0, CounterIs
<1>3. /\ \A k \in 0..16 : A(k) \in Nat
      /\ \A k \in 1..16 : A(k) = (iv[17 - k] + A(k - 1)) \div 256
      /\ A(0) = n
  BY CarryIs
<1>4. /\ \A k \in 0..16 : B(k) \in Nat
      /\ \A k \in 1..16 : B(k) = (iv[17 - k] + B(k - 1)) \div 256
      /\ B(0) = n + 1
  BY Zenon, <1>0, CarryIs
<1>5. IncrementCounter(c) = Now(u) BY DEF IncrementCounter
<1> HIDE DEF c, d, A, B
<1>6. ASSUME NEW k \in 0..16 PROVE B(k) = A(k) + (IF Overflows(c, 16 - k) THEN 1 ELSE 0)
  <2> DEFINE S == {m \in Nat : m <= 16 => B(m) = A(m) + (IF Overflows(c, 16 - m) THEN 1 ELSE 0)}
  <2>1. 0 \in S
    <3>1. Overflows(c, 16 - 0) BY DEF Overflows
    <3> QED BY <1>3, <1>4, <3>1
  <2>2. ASSUME NEW m \in Nat, m \in S PROVE m + 1 \in S
    <3> SUFFICES ASSUME m + 1 <= 16
                 PROVE  B(m + 1) = A(m + 1) + (IF Overflows(c, 16 - (m + 1)) THEN 1 ELSE 0)
      OBVIOUS
    <3> DEFINE i == 17 - (m + 1)
    <3>1. m + 1 \in 1..16 /\ (m + 1) - 1 = m /\ i \in 1..16 /\ 16 - i = m /\ m \in 0..16
          /\ 16 - m = i /\ 16 - (m + 1) = i - 1 /\ (i - 1) + 1 = i
      OBVIOUS
    <3> HIDE DEF i
    <3>2. iv[i] \in Nat /\ A(m) \in Nat
      <4>1. iv[i] \in Nat BY SMTT(30), <3>1 DEF Block, Byte
      <4> QED BY <1>3, <3>1, <4>1
    <3>3. A(m + 1) = (iv[i] + A(m)) \div 256 BY <1>3, <3>1 DEF i
    <3>4. B(m + 1) = (iv[i] + B(m)) \div 256 BY <1>4, <3>1 DEF i
    <3>5. c[i] = (iv[i] + A(m)) % 256 BY <1>1, <3>1
    <3>6. Overflows(c, i - 1) <=> (Overflows(c, i) /\ c[i] = 255)
      <4>1. (i - 1) + 1 .. 16 = {i} \cup (i + 1 .. 16) BY <3>1
      <4> QED BY <4>1 DEF Overflows
    <3>7. B(m) = A(m) + (IF Overflows(c, i) THEN 1 ELSE 0) BY <2>2, <3>1
    <3>8. CASE Overflows(c, i) /\ c[i] = 255
      <4>1. B(m) = A(m) + 1 /\ Overflows(c, i - 1) BY <3>6, <3>7, <3>8
      <4>2. (iv[i] + (A(m) + 1)) \div 256 = ((iv[i] + A(m)) \div 256) + 1 BY <3>2, <3>5, <3>8
      <4> QED BY <3>1, <3>3, <3>4, <4>1, <4>2
    <3>9. CASE Overflows(c, i) /\ c[i] # 255
      <4>1. B(m) = A(m) + 1 /\ ~Overflows(c, i - 1) BY <3>6, <3>7, <3>9
      <4>2. (iv[i] + (A(m) + 1)) \div 256 = (iv[i] + A(m)) \div 256 BY <3>2, <3>5, <3>9
      <4>3. (iv[i] + A(m)) \div 256 \in Nat BY <3>2
      <4> QED BY <3>1, <3>3, <3>4, <4>1, <4>2, <4>3
    <3>10. CASE ~Overflows(c, i)
      <4>1. B(m) = A(m) /\ ~Overflows(c, i - 1) BY <3>2, <3>6, <3>7, <3>10
      <4>2. (iv[i] + A(m)) \div 256 \in Nat BY <3>2
      <4> QED BY <3>1, <3>3, <3>4, <4>1, <4>2
    <3> QED BY <3>8, <3>9, <3>10
  <2> HIDE DEF S
  <2>3. k \in S BY <2>1, <2>2, SetInduction
  <2> QED BY <2>3 DEF S
<1>7. ASSUME NEW i \in 1..16 PROVE u[i] = d[i]
  <2>1. 16 - i \in 0..16 /\ 16 - (16 - i) = i OBVIOUS
  <2>2. B(16 - i) = A(16 - i) + (IF Overflows(c, i) THEN 1 ELSE 0) BY <1>6, <2>1
  <2>3. A(16 - i) \in Nat /\ iv[i] \in Nat
    <3>1. iv[i] \in Nat BY SMTT(30) DEF Block, Byte
    <3> QED BY <1>3, <2>1, <3>1
  <2>4. u[i] = IF Overflows(c, i) THEN (c[i] + 1) % 256 ELSE c[i] BY DEF Overflows
  <2>5. c[i] = (iv[i] + A(16 - i)) % 256 /\ d[i] = (iv[i] + B(16 - i)) % 256 BY <1>1, <1>2
  <2> HIDE DEF u
  <2>6. CASE Overflows(c, i)
    <3>1. d[i] = (iv[i] + (A(16 - i) + 1)) % 256 /\ u[i] = (c[i] + 1) % 256
      BY <2>2, <2>4, <2>5, <2>6
    <3> QED BY <2>3, <2>5, <3>1
  <2>7. CASE ~Overflows(c, i) BY <2>2, <2>3, <2>4, <2>5, <2>7
  <2> QED BY <2>6, <2>7
<1>8. u = d
  <2>1. u = [i \in 1..16 |-> d[i]] BY <1>7
  <2>2. d = [i \in 1..16 |-> d[i]] BY <1>2 DEF Block
  <2> QED BY <2>1, <2>2
<1> HIDE DEF u
<1>9. Now(u) = u BY Zenon, <1>2, <1>8, NowIs DEF Block
<1> QED BY <1>5, <1>8, <1>9 DEF c, d

\* set_key leaves the cipher at the first byte of the stream.
LEMMA CtrStarts ==
  ASSUME NEW key \in Block, NEW iv \in Block
  PROVE  SetCtrKey(NewCtr, key, iv) \in CtrState(KeyExpansion(key), iv, 0)
<1> DEFINE w == KeyExpansion(key)
           a == SetCtrKey(NewCtr, key, iv)
<1>1. a \in [ready : {TRUE}, round_keys : {w}, iv : {iv}, counter : {iv}, keystream : {<<>>},
      pos : {16}]
  <2> DEFINE b == [NewCtr EXCEPT !.ready = TRUE, !.iv = iv, !.round_keys = w]
  <2>1. b \in [ready : {TRUE}, round_keys : {w}, iv : {iv}, counter : {<<>>}, keystream : {<<>>},
        pos : {16}]
    BY DEF NewCtr
  <2>2. a = [b EXCEPT !.counter = b.iv, !.pos = 16]
    BY DEF SetCtrKey, ResetCounter
  <2> HIDE DEF b, w
  <2>3. b.iv = iv BY <2>1
  <2>4. a = [b EXCEPT !.counter = iv, !.pos = 16] BY <2>2, <2>3
  <2> HIDE DEF a
  <2> QED BY <2>1, <2>4
<1>2. <<>> \in Seq(Byte) /\ 16 \in 0..16 BY EmptySeq
<1> HIDE DEF a, w
<1>3. a \in [ready : {TRUE}, round_keys : {w}, iv : {iv}, counter : Block,
             keystream : Seq(Byte), pos : 0..16]
  BY <1>1, <1>2
<1>4. 0 % 16 = 0 /\ 0 \div 16 = 0 OBVIOUS
<1>5. a.pos = 16 /\ a.counter = CounterAt(iv, 0) BY <1>1, CounterStart
<1>6. a \in CtrState(w, iv, 0) BY <1>3, <1>4, <1>5 DEF CtrState
<1> QED BY <1>6 DEF a, w

\* The stream is made of bytes.
LEMMA KeyStreamIs ==
  ASSUME NEW w \in Schedule, NEW iv \in Block, NEW p \in Nat
  PROVE  KeyStream(w, iv, p) \in Byte
<1>1. p \div 16 \in Nat /\ (p % 16) + 1 \in 1..16 OBVIOUS
<1>2. EncryptBlock(w, CounterAt(iv, p \div 16)) \in Block BY <1>1, CounterIs, BlockReturns
<1> QED BY <1>1, <1>2 DEF KeyStream, Block

\* A new block of the stream is there whenever it is needed.
LEMMA RefillIs ==
  ASSUME NEW w \in Schedule, NEW iv \in Block, NEW p \in Nat, NEW a \in CtrState(w, iv, p)
  PROVE  Refilled(a) \in [ready : {TRUE}, round_keys : {w}, iv : {iv},
                          counter : {CounterAt(iv, (p \div 16) + 1)},
                          keystream : {EncryptBlock(w, CounterAt(iv, p \div 16))},
                          pos : {p % 16}]
<1> DEFINE c == CounterAt(iv, p \div 16)
           d == CounterAt(iv, (p \div 16) + 1)
<1>1. p \div 16 \in Nat /\ p % 16 \in 0..15 OBVIOUS
<1>2. c \in Block /\ IncrementCounter(c) = d BY Zenon, <1>1, CounterIs, CounterSteps
<1>3. /\ a \in [ready : {TRUE}, round_keys : {w}, iv : {iv}, counter : Block,
                keystream : Seq(Byte), pos : 0..16]
      /\ IF p % 16 = 0 THEN a.pos = 16 /\ a.counter = c
         ELSE a.pos = p % 16 /\ a.counter = d /\ a.keystream = EncryptBlock(w, c)
  BY DEF CtrState
<1> HIDE DEF c, d
<1>4. CASE p % 16 = 0
  <2>1. a.pos = 16 /\ a.counter = c /\ a.round_keys = w BY <1>3, <1>4
  <2>2. Refilled(a) = [a EXCEPT !.keystream = EncryptBlock(w, c), !.pos = 0, !.counter = d]
    BY <1>2, <2>1 DEF Refilled
  <2> QED BY <1>3, <1>4, <2>2 DEF c, d
<1>5. CASE p % 16 # 0
  <2>1. a.pos = p % 16 /\ a.counter = d /\ a.keystream = EncryptBlock(w, c) BY <1>3, <1>5
  <2>2. Refilled(a) = a BY <1>1, <2>1 DEF Refilled
  <2> QED BY <1>3, <2>1, <2>2 DEF c, d
<1> QED BY <1>4, <1>5

\* One byte: it is masked by its place in the stream, and the cipher moves on.
LEMMA CtrByteIs ==
  ASSUME NEW w \in Schedule, NEW iv \in Block, NEW p \in Nat, NEW s, s.ctr \in CtrState(w, iv, p),
         NEW b, NEW g \in Nat, g = p + 1
  PROVE  /\ CtrByte(s, b).ctr \in CtrState(w, iv, g)
         /\ CtrByte(s, b).out = Append(s.out, Xor(b, KeyStream(w, iv, p)))
<1> DEFINE a == Refilled(s.ctr)
           c == CounterAt(iv, p \div 16)
           d == CounterAt(iv, (p \div 16) + 1)
           k == EncryptBlock(w, c)
<1>1. a \in [ready : {TRUE}, round_keys : {w}, iv : {iv}, counter : {d}, keystream : {k},
      pos : {p % 16}]
  BY RefillIs
<1>2. p \div 16 \in Nat /\ (p \div 16) + 1 \in Nat /\ p % 16 \in 0..15 OBVIOUS
<1>3. d \in Block BY <1>2, CounterIs
<1>4. k \in Block BY <1>2, CounterIs, BlockReturns
<1>5. CtrByte(s, b) = [ctr |-> [a EXCEPT !.pos = @ + 1],
                       out |-> Append(s.out, Xor(b, a.keystream[a.pos + 1]))]
  BY DEF CtrByte, MaskByte
<1>6. KeyStream(w, iv, p) = k[(p % 16) + 1] BY DEF KeyStream
<1> HIDE DEF a, c, d, k
<1>7. CtrByte(s, b).out = Append(s.out, Xor(b, KeyStream(w, iv, p))) BY <1>1, <1>5, <1>6
<1> DEFINE r == [a EXCEPT !.pos = @ + 1]
<1>8. /\ r \in [ready : {TRUE}, round_keys : {w}, iv : {iv}, counter : Block,
                keystream : Seq(Byte), pos : 0..16]
      /\ r.pos = (p % 16) + 1 /\ r.counter = d /\ r.keystream = k
  <2>1. k \in Seq(Byte) BY <1>4, BlockSeq
  <2> DEFINE q == p % 16
  <2>2. q \in 0..15 BY <1>2
  <2> HIDE DEF q
  <2>3. q \in Int /\ q + 1 \in 0..16 BY <2>2
  <2>4. a \in [ready : {TRUE}, round_keys : {w}, iv : {iv}, counter : {d}, keystream : {k},
        pos : {q}]
    BY <1>1 DEF q
  <2>5. r \in [ready : {TRUE}, round_keys : {w}, iv : {iv}, counter : {d}, keystream : {k},
        pos : {q + 1}]
    BY <2>3, <2>4
  <2> HIDE DEF r
  <2>6. /\ r \in [ready : {TRUE}, round_keys : {w}, iv : {iv}, counter : Block,
                  keystream : Seq(Byte), pos : 0..16]
        /\ r.pos = q + 1 /\ r.counter = d /\ r.keystream = k
    BY <1>3, <2>1, <2>3, <2>5
  <2> QED BY <2>6 DEF q
<1>9. CtrByte(s, b).ctr = r BY <1>5
<1> HIDE DEF r
<1>10. ASSUME (p + 1) % 16 = 0 PROVE r \in CtrState(w, iv, p + 1)
  <2>1. (p + 1) \div 16 = (p \div 16) + 1 /\ (p % 16) + 1 = 16 BY <1>10
  <2> QED BY <1>8, <1>10, <2>1 DEF CtrState, d
<1>11. ASSUME (p + 1) % 16 # 0 PROVE r \in CtrState(w, iv, p + 1)
  <2>1. (p + 1) \div 16 = p \div 16 /\ (p + 1) % 16 = (p % 16) + 1 BY <1>11
  <2> QED BY <1>8, <1>11, <2>1 DEF CtrState, c, d, k
<1>12. r \in CtrState(w, iv, g) BY <1>10, <1>11
<1> QED BY <1>7, <1>9, <1>12

\* What the bytes are cut into changes nothing.
LEMMA ProcessIs ==
  ASSUME NEW w \in Schedule, NEW iv \in Block, NEW p \in Nat, NEW a \in CtrState(w, iv, p),
         NEW in \in Seq(Byte)
  PROVE  /\ Process(a, in).ctr \in CtrState(w, iv, p + Len(in))
         /\ Process(a, in).out \in Seq(Byte) /\ Len(Process(a, in).out) = Len(in)
         /\ \A i \in 1..Len(in) : Process(a, in).out[i] = Xor(in[i], KeyStream(w, iv, p + i - 1))
<1> DEFINE n == Len(in)
           K(i) == KeyStream(w, iv, p + i - 1)
<1>1. n \in Nat BY LenProperties
<1>2. a.ready BY DEF CtrState
<1>3. PICK t : /\ t[0] = [ctr |-> a, out |-> <<>>]
               /\ \A i \in 1..n : t[i] = CtrByte(t[i - 1], in[i])
               /\ Process(a, in) = t[n]
  BY <1>1, <1>2, ProcessTurns
<1>4. \A i \in 1..n : K(i) \in Byte
  <2> TAKE i \in 1..n
  <2>1. p + i - 1 \in Nat OBVIOUS
  <2> QED BY <2>1, KeyStreamIs
<1>5. \A i \in 1..n : in[i] \in Byte BY LenProperties
<1>6. \A i \in 1..n : Xor(in[i], K(i)) \in Byte BY <1>4, <1>5, XorLaws
<1> DEFINE Good(m) == /\ t[m].ctr \in CtrState(w, iv, p + m)
                      /\ t[m].out \in Seq(Byte) /\ Len(t[m].out) = m
                      /\ \A i \in 1..m : t[m].out[i] = Xor(in[i], K(i))
           S == {m \in Nat : m <= n => Good(m)}
<1>7. 0 \in S
  <2>1. t[0].ctr = a /\ t[0].out = <<>> BY <1>3
  <2>2. p + 0 = p /\ 1..0 = {} OBVIOUS
  <2>3. <<>> \in Seq(Byte) /\ Len(<<>>) = 0 BY EmptySeq
  <2> QED BY <2>1, <2>2, <2>3
<1>8. ASSUME NEW m \in Nat, m \in S PROVE m + 1 \in S
  <2> SUFFICES ASSUME m + 1 <= n PROVE Good(m + 1) OBVIOUS
  <2>1. Good(m) BY <1>8
  <2>2. m + 1 \in 1..n /\ (m + 1) - 1 = m /\ p + m \in Nat /\ p + (m + 1) = (p + m) + 1
        /\ p + (m + 1) - 1 = p + m
    OBVIOUS
  <2>3. t[m + 1] = CtrByte(t[m], in[m + 1]) BY <1>3, <2>2
  <2>4. /\ t[m + 1].ctr \in CtrState(w, iv, (p + m) + 1)
        /\ t[m + 1].out = Append(t[m].out, Xor(in[m + 1], KeyStream(w, iv, p + m)))
    <3>1. PICK l \in Nat : l = p + m BY <2>2
    <3>2. PICK q \in Nat : q = l + 1 OBVIOUS
    <3>3. PICK s : s = t[m] OBVIOUS
    <3>4. PICK b : b = in[m + 1] OBVIOUS
    <3>5. s.ctr \in CtrState(w, iv, l) BY <2>1, <3>1, <3>3
    <3>6. CtrByte(s, b).ctr \in CtrState(w, iv, q)
          /\ CtrByte(s, b).out = Append(s.out, Xor(b, KeyStream(w, iv, l)))
      BY <3>2, <3>5, CtrByteIs
    <3>7. t[m + 1] = CtrByte(s, b) BY <2>3, <3>3, <3>4
    <3> QED BY <3>1, <3>2, <3>3, <3>4, <3>6, <3>7
  <2> DEFINE o == t[m].out
             e == Xor(in[m + 1], K(m + 1))
  <2>5. t[m + 1].out = Append(o, e) BY <2>2, <2>4
  <2>6. o \in Seq(Byte) /\ Len(o) = m /\ \A i \in 1..m : o[i] = Xor(in[i], K(i)) BY <2>1
  <2>7. e \in Byte BY <1>6, <2>2
  <2> HIDE DEF o
  <2>8. /\ Append(o, e) \in Seq(Byte) /\ Len(Append(o, e)) = Len(o) + 1
        /\ \A i \in 1..Len(o) : Append(o, e)[i] = o[i]
        /\ Append(o, e)[Len(o) + 1] = e
    <3> HIDE DEF e
    <3> QED BY <2>6, <2>7, AppendProperties
  <2>9. ASSUME NEW i \in 1..m + 1 PROVE Append(o, e)[i] = Xor(in[i], K(i))
    <3>1. CASE i = m + 1
      <4>1. Append(o, e)[m + 1] = e BY <2>6, <2>8
      <4> QED BY <3>1, <4>1
    <3>2. CASE i # m + 1
      <4>1. i \in 1..m BY <3>2
      <4> HIDE DEF K, e
      <4> QED BY <2>6, <2>8, <4>1
    <3> QED BY <3>1, <3>2
  <2> HIDE DEF K, e
  <2> QED BY <2>2, <2>4, <2>5, <2>6, <2>8, <2>9
<1> HIDE DEF S
<1>9. n \in S BY <1>1, <1>7, <1>8, SetInduction
<1>10. Good(n) BY <1>1, <1>9 DEF S
<1>11. t[n] = Process(a, in) BY <1>3
<1> QED BY <1>10, <1>11

\* What the sender masked is a sequence of bytes of the same length.
LEMMA MaskedSeq ==
  ASSUME NEW w \in Schedule, NEW iv \in Block, NEW p \in Nat, NEW plain \in Seq(Byte)
  PROVE  /\ Masked(w, iv, p, plain) \in Seq(Byte) /\ Len(Masked(w, iv, p, plain)) = Len(plain)
         /\ \A i \in 1..Len(plain) :
               Masked(w, iv, p, plain)[i] = Xor(plain[i], KeyStream(w, iv, p + i - 1))
<1> DEFINE n == Len(plain)
           K(i) == KeyStream(w, iv, p + i - 1)
           u == [i \in 1..n |-> Xor(plain[i], K(i))]
<1>1. n \in Nat /\ DOMAIN plain = 1..n /\ \A i \in 1..n : plain[i] \in Byte BY LenProperties
<1>2. \A i \in 1..n : K(i) \in Byte
  <2> TAKE i \in 1..n
  <2>1. p + i - 1 \in Nat BY <1>1
  <2> QED BY <2>1, KeyStreamIs
<1>3. Masked(w, iv, p, plain) = Now(u) BY <1>1 DEF Masked
<1> HIDE DEF K
<1>4. \A i \in 1..n : Xor(plain[i], K(i)) \in Byte BY <1>1, <1>2, XorLaws
<1>5. u \in [1..n -> Byte] /\ \A i \in 1..n : u[i] = Xor(plain[i], K(i)) BY <1>4
<1> HIDE DEF u
<1>6. Now(u) = u /\ u \in Seq(Byte) /\ Len(u) = n BY <1>1, <1>5, NowIs
<1> QED BY <1>3, <1>5, <1>6 DEF K

\* What the sender masked in one piece comes back.
LEMMA MaskReturns ==
  ASSUME NEW w \in Schedule, NEW iv \in Block, NEW p \in Nat, NEW a \in CtrState(w, iv, p),
         NEW plain \in Seq(Byte)
  PROVE  /\ Masked(w, iv, p, plain) \in Seq(Byte) /\ Len(Masked(w, iv, p, plain)) = Len(plain)
         /\ Process(a, Masked(w, iv, p, plain)).ctr \in CtrState(w, iv, p + Len(plain))
         /\ Process(a, Masked(w, iv, p, plain)).out = plain
<1> DEFINE n == Len(plain)
           K(i) == KeyStream(w, iv, p + i - 1)
           u == Masked(w, iv, p, plain)
           o == Process(a, u).out
<1>1. n \in Nat /\ \A i \in 1..n : plain[i] \in Byte BY LenProperties
<1>2. \A i \in 1..n : K(i) \in Byte
  <2> TAKE i \in 1..n
  <2>1. p + i - 1 \in Nat BY <1>1
  <2> QED BY <2>1, KeyStreamIs
<1>3. u \in Seq(Byte) /\ Len(u) = n BY MaskedSeq
<1>8. \A i \in 1..n : u[i] = Xor(plain[i], K(i)) BY MaskedSeq
<1> HIDE DEF u
<1>4. /\ Process(a, u).ctr \in CtrState(w, iv, p + n)
      /\ o \in Seq(Byte) /\ Len(o) = n
      /\ \A i \in 1..n : o[i] = Xor(u[i], K(i))
  BY <1>3, ProcessIs
<1> HIDE DEF K, o
<1>5. \A i \in 1..n : Xor(Xor(plain[i], K(i)), K(i)) = plain[i] BY <1>1, <1>2, XorLaws
<1>6. \A i \in 1..n : o[i] = plain[i] BY <1>4, <1>5, <1>8
<1>7. o = plain BY <1>4, <1>6, SeqEqual
<1> QED BY <1>3, <1>4, <1>7 DEF o, u

-----------------------------------------------------------------------------
(* The audio. *)

\* What is joined is a sequence, one part longer at each turn.
LEMMA JoinedIs ==
  ASSUME NEW T, NEW n \in Nat, NEW parts, \A i \in 1..n : parts[i] \in Seq(T), NEW k \in 0..n
  PROVE  /\ Joined(parts, k) \in Seq(T)
         /\ k # 0 => /\ Joined(parts, k) = Joined(parts, k - 1) \o parts[k]
                     /\ Len(Joined(parts, k)) = Len(Joined(parts, k - 1)) + Len(parts[k])
<1> DEFINE J(m) == Joined(parts, m)
           S == {m \in Nat : m <= n => J(m) \in Seq(T)}
<1>1. J(0) = <<>> /\ \A m \in Nat \ {0} : J(m) = J(m - 1) \o parts[m] BY JoinedLaw
<1> HIDE DEF J
<1>2. 0 \in S BY <1>1, EmptySeq
<1>3. ASSUME NEW m \in Nat, m \in S PROVE m + 1 \in S
  <2> SUFFICES ASSUME m + 1 <= n PROVE J(m + 1) \in Seq(T) OBVIOUS
  <2>1. J(m) \in Seq(T) BY <1>3
  <2>2. m + 1 \in Nat \ {0} /\ (m + 1) - 1 = m /\ m + 1 \in 1..n OBVIOUS
  <2>3. J(m + 1) = J(m) \o parts[m + 1] BY <1>1, <2>2
  <2> QED BY Zenon, <2>1, <2>2, <2>3, ConcatProperties
<1> HIDE DEF S
<1>4. \A m \in 0..n : J(m) \in Seq(T)
  <2> TAKE m \in 0..n
  <2>1. m \in S BY <1>2, <1>3, SetInduction
  <2> QED BY <2>1 DEF S
<1>5. ASSUME k # 0 PROVE J(k) = J(k - 1) \o parts[k] /\ Len(J(k)) = Len(J(k - 1)) + Len(parts[k])
  <2>1. k \in Nat \ {0} /\ k - 1 \in 0..n /\ k \in 1..n BY <1>5
  <2>2. J(k) = J(k - 1) \o parts[k] BY <1>1, <2>1
  <2>3. J(k - 1) \in Seq(T) /\ parts[k] \in Seq(T) BY <1>4, <2>1
  <2> QED BY <2>2, <2>3, ConcatProperties
<1> QED BY <1>4, <1>5 DEF J

\* No packet yet.
LEMMA AudioInit == StreamInit => AudioInv
<1> SUFFICES ASSUME StreamInit, job.kind = "audio" PROVE AudioInv
  BY DEF AudioInv
<1>1. /\ WellFormed(job) /\ bytes = OnWire(job) /\ sent = Start(job).sent /\ rx = Start(job).rx
  BY JobsWellFormed DEF StreamInit
<1>2. WellFormedAudio(job) BY <1>1 DEF WellFormed
<1>3. bytes = [i \in DOMAIN job.packets |-> Packet(job, i)] BY <1>1 DEF OnWire
<1>4. sent = 0 /\ rx = NewReceiver(job) BY <1>1 DEF Start
<1> DEFINE w == KeyExpansion(job.key)
           a == SetCtrKey(NewCtr, job.key, job.iv)
<1>5. job.key \in Block /\ job.iv \in Block BY <1>2 DEF WellFormedAudio, WellFormedKeys, Block
<1>6. a \in CtrState(w, job.iv, 0) BY <1>5, CtrStarts
<1>7. Consumed(job, 0) = 0
  <2>1. Joined(job.packets, 0) = <<>> BY JoinedLaw
  <2>2. Len(<<>>) = 0 BY EmptySeq
  <2> QED BY <2>1, <2>2 DEF Consumed
<1>8. rx = [cbc_ready |-> job.mode = "CBC", cbc_iv |-> job.iv, cbc_keys |-> w,
            aes |-> a, last |-> 0, out |-> <<>>]
  BY <1>4 DEF NewReceiver, SetCbcKey
<1>9. <<>> \in Seq(Byte) BY EmptySeq
<1>10. Len(job.packets) \in Nat BY <1>2, LenProperties DEF WellFormedAudio
<1> HIDE DEF a
<1>11. /\ rx \in [cbc_ready : {job.mode = "CBC"}, cbc_iv : {job.iv}, cbc_keys : {w},
                  aes : CtrState(w, job.iv, 0), last : Nat, out : Seq(Byte)]
       /\ rx.last = 0
  <2> HIDE DEF w
  <2> QED BY <1>6, <1>8, <1>9
<1> QED BY <1>2, <1>3, <1>4, <1>7, <1>10, <1>11 DEF AudioInv

\* One packet: the receiver takes it back to what was sent.
LEMMA AudioStep ==
  ASSUME AudioInv, AudioPacket PROVE AudioInv'
<1> DEFINE w == KeyExpansion(job.key)
           Good(p, r) == /\ r.out = p /\ r.out \in Seq(Byte)
<1>1. /\ job.kind = "audio" /\ WellFormedAudio(job)
      /\ bytes = [i \in DOMAIN job.packets |-> Packet(job, i)]
      /\ sent \in Nat
      /\ job.mode = "CTR" => sent <= Len(job.packets)
      /\ rx \in [cbc_ready : {job.mode = "CBC"}, cbc_iv : {job.iv}, cbc_keys : {w},
                 aes : CtrState(w, job.iv, Consumed(job, sent)), last : Nat, out : Seq(Byte)]
  BY DEF AudioInv, AudioPacket
<1>2. PICK i \in DOMAIN job.packets :
         /\ IF job.lossy THEN sent < job.deliveries ELSE i = sent + 1
         /\ rx' = [DecryptPacket(rx, bytes[i]).rx EXCEPT !.last = i, !.out
            = DecryptPacket(rx, bytes[i]).out]
  BY DEF AudioPacket
<1>3. sent' = sent + 1 /\ job' = job /\ bytes' = bytes BY DEF AudioPacket
<1>4. /\ job.key \in Block /\ job.iv \in Block /\ job.mode \in {"CBC", "CTR"}
      /\ job.packets \in Seq(Seq(Byte)) /\ (job.mode = "CTR" => ~job.lossy)
  BY <1>1 DEF WellFormedAudio, WellFormedKeys, Block
<1>5. w \in Schedule BY <1>4, KeyExpansionIs
<1>6. /\ Len(job.packets) \in Nat /\ DOMAIN job.packets = 1..Len(job.packets)
      /\ \A k \in 1..Len(job.packets) : job.packets[k] \in Seq(Byte)
  BY <1>4, LenProperties
<1> DEFINE p == job.packets[i]
           r == DecryptPacket(rx, bytes[i])
<1>7. i \in 1..Len(job.packets) /\ i # 0 /\ i \in Nat /\ p \in Seq(Byte) BY <1>2, <1>6
<1>8. bytes[i] = Packet(job, i) BY <1>1, <1>2
<1> HIDE DEF w
<1>9. /\ r.out = p
      /\ r.rx \in [cbc_ready : {job.mode = "CBC"}, cbc_iv : {job.iv}, cbc_keys : {w},
                   aes : CtrState(w, job.iv, Consumed(job, sent + 1)), last : Nat, out : Seq(Byte)]
  <2>1. CASE job.mode = "CBC"
    <3> DEFINE c == Chained(w, job.iv, p)
    <3>1. Packet(job, i) = c BY <2>1 DEF Packet, w
    <3>2. rx.cbc_ready /\ rx.cbc_keys = w /\ rx.cbc_iv = job.iv BY <1>1, <2>1
    <3>3. c \in Seq(Byte) /\ Len(c) = Len(p) /\ CbcPayload(rx, c, WholeBlocks(c)) = p
      <4> HIDE DEF p
      <4> QED BY <1>4, <1>5, <1>7, <3>2, ChainedReturns
    <3>4. Consumed(job, sent) = 0 /\ Consumed(job, sent + 1) = 0 BY <2>1 DEF Consumed
    <3> HIDE DEF c
    <3>5. CASE c # <<>>
      <4>1. r = [rx |-> rx, out |-> p] BY <1>8, <3>1, <3>2, <3>3, <3>5 DEF DecryptPacket
      <4> QED BY <1>1, <3>4, <4>1
    <3>6. CASE c = <<>>
      <4>1. p = <<>> BY <1>7, <3>3, <3>6, EmptySeq
      <4> DEFINE q == Process(rx.aes, <<>>)
      <4>2. rx.aes \in CtrState(w, job.iv, 0) /\ 0 \in Nat BY <1>1, <3>4
      <4>3. <<>> \in Seq(Byte) /\ Len(<<>>) = 0 BY EmptySeq
      <4>4. q.ctr \in CtrState(w, job.iv, 0 + Len(<<>>)) /\ q.out \in Seq(Byte)
            /\ Len(q.out) = Len(<<>>)
        <5> DEFINE e == <<>>
                   a == rx.aes
        <5>1. e \in Seq(Byte) /\ a \in CtrState(w, job.iv, 0) BY <4>2, <4>3
        <5>2. q = Process(a, e) OBVIOUS
        <5> HIDE DEF e, a, q
        <5>3. /\ Process(a, e).ctr \in CtrState(w, job.iv, 0 + Len(e))
              /\ Process(a, e).out \in Seq(Byte) /\ Len(Process(a, e).out) = Len(e)
          BY <1>4, <1>5, <4>2, <5>1, ProcessIs
        <5> QED BY <5>2, <5>3 DEF e
      <4>5. q.ctr \in CtrState(w, job.iv, 0) /\ q.out = <<>>
        <5> HIDE DEF q
        <5>1. 0 + Len(<<>>) = 0 BY <4>3
        <5> QED BY <4>3, <4>4, <5>1, EmptySeq
      <4>6. r = [rx |-> [rx EXCEPT !.aes = q.ctr], out |-> q.out]
        BY <1>8, <3>1, <3>6 DEF DecryptPacket, Counted
      <4> HIDE DEF q
      <4> QED BY <1>1, <3>4, <4>1, <4>5, <4>6
    <3> QED BY <3>5, <3>6
  <2>2. CASE job.mode = "CTR"
    <3>1. i = sent + 1 /\ i - 1 = sent BY <1>1, <1>2, <1>4, <2>2
    <3> DEFINE n == Len(Joined(job.packets, sent))
               m == Masked(w, job.iv, n, p)
               q == Process(rx.aes, m)
    <3>2. Packet(job, i) = m BY <2>2, <3>1 DEF Packet, w
    <3>3. /\ Joined(job.packets, sent) \in Seq(Byte)
          /\ Len(Joined(job.packets, sent + 1)) = n + Len(p)
      <4> DEFINE N == Len(job.packets)
                 ps == job.packets
      <4>1. N \in Nat /\ (\A k \in 1..N : ps[k] \in Seq(Byte)) /\ sent \in 0..N /\ sent + 1 \in 0..N
            /\ sent + 1 # 0 /\ (sent + 1) - 1 = sent
        BY <1>1, <1>6, <1>7, <3>1
      <4> HIDE DEF N, ps
      <4>2. Joined(ps, sent) \in Seq(Byte) BY <4>1, JoinedIs
      <4>3. Len(Joined(ps, sent + 1)) = Len(Joined(ps, (sent + 1) - 1)) + Len(ps[sent + 1])
        BY Zenon, <4>1, JoinedIs
      <4> QED BY <3>1, <4>1, <4>2, <4>3 DEF ps
    <3>4. n \in Nat BY <3>3, LenProperties
    <3>5. Consumed(job, sent) = n /\ Consumed(job, sent + 1) = n + Len(p) BY <2>2, <3>3 DEF Consumed
    <3>6. rx.aes \in CtrState(w, job.iv, n) /\ ~rx.cbc_ready BY <1>1, <2>2, <3>5
    <3> HIDE DEF n
    <3>7. q.ctr \in CtrState(w, job.iv, n + Len(p)) /\ q.out = p
      <4> HIDE DEF p
      <4> QED BY <1>4, <1>5, <1>7, <3>4, <3>6, MaskReturns
    <3>8. r = [rx |-> [rx EXCEPT !.aes = q.ctr], out |-> q.out]
      BY <1>8, <3>2, <3>6 DEF DecryptPacket, Counted
    <3> HIDE DEF q
    <3> QED BY <1>1, <3>5, <3>7, <3>8
  <2> QED BY <1>4, <2>1, <2>2
<1> HIDE DEF r, p
<1>10. rx' = [r.rx EXCEPT !.last = i, !.out = r.out] BY <1>2 DEF r
<1>11. /\ rx' \in [cbc_ready : {job.mode = "CBC"}, cbc_iv : {job.iv}, cbc_keys : {w},
                   aes : CtrState(w, job.iv, Consumed(job, sent + 1)), last : Nat, out : Seq(Byte)]
       /\ rx'.last = i /\ rx'.out = p
  BY <1>7, <1>9, <1>10
<1>12. job.mode = "CTR" => sent + 1 <= Len(job.packets)
  BY <1>2, <1>4, <1>6, <1>7
<1> QED BY <1>1, <1>3, <1>11, <1>12 DEF AudioInv, p, w

\* Every packet of audio that is received comes out as the sender's samples,
\* whatever the network lost, doubled or reordered before it, for every key,
\* iv and packets: AES returns what it took, chains are undone block by block
\* and the counters of both sides stay at the same byte.
THEOREM AudioComesOut == StreamSpec => []AudioReadable
<1> SUFFICES StreamSpec => []AudioInv
  <2>1. AudioInv => AudioReadable BY DEF AudioInv, AudioReadable
  <2> QED BY <2>1, PTL
<1>1. StreamInit => AudioInv BY AudioInit
<1>2. AudioInv /\ [StreamNext]_vars => AudioInv'
  <2> SUFFICES ASSUME AudioInv, [StreamNext]_vars PROVE AudioInv' OBVIOUS
  <2>1. CASE AudioPacket BY <2>1, AudioStep
  <2>2. CASE Segment \/ Pushed \/ HangUp \/ ConnectAgain \/ HashPiece
    <3>1. job' = job /\ job.kind # "audio"
      BY <2>2 DEF Segment, Pushed, HangUp, ConnectAgain, HashPiece
    <3> QED BY <3>1 DEF AudioInv
  <2>3. CASE UNCHANGED vars
    <3>1. job' = job /\ bytes' = bytes /\ sent' = sent /\ rx' = rx BY <2>3 DEF vars
    <3> QED BY <3>1 DEF AudioInv
  <2> QED BY <2>1, <2>2, <2>3 DEF StreamNext
<1> QED BY <1>1, <1>2, PTL DEF StreamSpec

-----------------------------------------------------------------------------
(* The digest. *)

\* One block of the message more, wherever it is.
LEMMA ChainStateStep ==
  ASSUME NEW m, NEW n \in Nat
  PROVE  ChainState(m, n + 1) = Compress(ChainState(m, n), SubSeq(m, 128 * n + 1, 128 * n + 128))
<1>1. n + 1 \in Nat \ {0} /\ (n + 1) - 1 = n OBVIOUS
<1>2. ChainState(m, n + 1)
      = Compress(ChainState(m, (n + 1) - 1), SubSeq(m, 128 * (n + 1) - 127, 128 * (n + 1)))
  BY ZenonT(30), <1>1, ChainStateLaw
<1>3. 128 * (n + 1) - 127 = 128 * n + 1 /\ 128 * (n + 1) = 128 * n + 128 OBVIOUS
<1> QED BY <1>1, <1>2, <1>3

\* Where two messages agree, so do the states.
LEMMA ChainAgrees ==
  ASSUME NEW p \in Seq(Nat), NEW q \in Seq(Nat), NEW n \in Nat,
         128 * n <= Len(p), 128 * n <= Len(q), \A i \in 1..128 * n : p[i] = q[i]
  PROVE  ChainState(p, n) = ChainState(q, n)
<1> DEFINE S == {k \in Nat : k <= n => ChainState(p, k) = ChainState(q, k)}
<1>1. 0 \in S BY ChainStateLaw
<1>2. ASSUME NEW k \in Nat, k \in S PROVE k + 1 \in S
  <2> SUFFICES ASSUME k + 1 <= n PROVE ChainState(p, k + 1) = ChainState(q, k + 1) OBVIOUS
  <2>1. ChainState(p, k) = ChainState(q, k) BY <1>2
  <2> DEFINE a == 128 * k
             b == 128 * k + 128
             P == SubSeq(p, a + 1, b)
             Q == SubSeq(q, a + 1, b)
  <2>2. a \in Nat /\ b \in Nat /\ a <= b /\ b <= 128 * n /\ b <= Len(p) /\ b <= Len(q)
        /\ b - a = 128
    BY LenProperties
  <2> HIDE DEF a, b
  <2>3. P \in Seq(Nat) /\ Len(P) = 128 /\ \A i \in 1..128 : P[i] = p[a + i]
    <3>1. a + 1 \in Nat /\ 1 <= a + 1 /\ a + 1 <= b + 1 /\ (b + 1) - (a + 1) = 128
          /\ (a + 1) - 1 = a
      BY <2>2
    <3>2. /\ P \in Seq(Nat) /\ Len(P) = (b + 1) - (a + 1)
          /\ \A i \in 1..(b + 1) - (a + 1) : P[i] = p[((a + 1) - 1) + i]
      BY <2>2, <3>1, PieceIs
    <3> HIDE DEF P
    <3> QED BY Zenon, <3>1, <3>2
  <2>4. Q \in Seq(Nat) /\ Len(Q) = 128 /\ \A i \in 1..128 : Q[i] = q[a + i]
    <3>1. a + 1 \in Nat /\ 1 <= a + 1 /\ a + 1 <= b + 1 /\ (b + 1) - (a + 1) = 128
          /\ (a + 1) - 1 = a
      BY <2>2
    <3>2. /\ Q \in Seq(Nat) /\ Len(Q) = (b + 1) - (a + 1)
          /\ \A i \in 1..(b + 1) - (a + 1) : Q[i] = q[((a + 1) - 1) + i]
      BY <2>2, <3>1, PieceIs
    <3> HIDE DEF Q
    <3> QED BY Zenon, <3>1, <3>2
  <2>5. \A i \in 1..128 : a + i \in 1..128 * n BY <2>2
  <2> HIDE DEF P, Q
  <2>6. P = Q
    <3>1. ASSUME NEW i \in 1..128 PROVE P[i] = Q[i]
      <4>1. a + i \in 1..128 * n BY Zenon, <2>5
      <4>2. p[a + i] = q[a + i] BY <4>1
      <4> QED BY Zenon, <2>3, <2>4, <4>2
    <3> QED BY ZenonT(30), <2>3, <2>4, <3>1, SeqEqual
  <2>7. ChainState(p, k + 1) = Compress(ChainState(p, k), P) BY ChainStateStep DEF P, a, b
  <2>8. ChainState(q, k + 1) = Compress(ChainState(q, k), Q) BY ChainStateStep DEF Q, a, b
  <2> QED BY <2>1, <2>6, <2>7, <2>8
<1> HIDE DEF S
<1>3. n \in S BY <1>1, <1>2, SetInduction
<1> QED BY <1>3 DEF S

\* What is behind the last whole block.
LEMMA BufferIs ==
  ASSUME NEW m \in Seq(Nat), NEW k \in Nat, k <= Len(m)
  PROVE  /\ SubSeq(m, 128 * (k \div 128) + 1, k) \in Seq(Nat)
         /\ Len(SubSeq(m, 128 * (k \div 128) + 1, k)) = k % 128
         /\ \A i \in 1..k % 128 :
               SubSeq(m, 128 * (k \div 128) + 1, k)[i] = m[128 * (k \div 128) + i]
<1>1. PICK a \in Nat : a = 128 * (k \div 128) OBVIOUS
<1>2. /\ a + 1 \in Nat /\ 1 <= a + 1 /\ a + 1 <= k + 1 /\ (k + 1) - (a + 1) = k % 128
      /\ (a + 1) - 1 = a
  BY <1>1
<1>3. /\ SubSeq(m, a + 1, k) \in Seq(Nat) /\ Len(SubSeq(m, a + 1, k)) = (k + 1) - (a + 1)
      /\ \A i \in 1..(k + 1) - (a + 1) : SubSeq(m, a + 1, k)[i] = m[((a + 1) - 1) + i]
  BY <1>2, PieceIs
<1> QED BY <1>1, <1>2, <1>3

\* A part of what was cut out of a sequence.
LEMMA PieceOfPiece ==
  ASSUME NEW T, NEW s \in Seq(T), NEW k \in Nat, NEW n \in Nat, k + n <= Len(s),
         NEW a \in Nat, NEW b \in Nat, a <= b, b <= n
  PROVE  /\ SubSeq(s, k + 1, k + n) \in Seq(T) /\ Len(SubSeq(s, k + 1, k + n)) = n
         /\ SubSeq(SubSeq(s, k + 1, k + n), a + 1, b) = SubSeq(s, (k + a) + 1, k + b)
<1> DEFINE d == SubSeq(s, k + 1, k + n)
           x == SubSeq(d, a + 1, b)
           y == SubSeq(s, (k + a) + 1, k + b)
<1>1. /\ k + 1 \in Nat /\ k + n \in Nat /\ 1 <= k + 1 /\ k + 1 <= (k + n) + 1
      /\ ((k + n) + 1) - (k + 1) = n /\ (k + 1) - 1 = k
  OBVIOUS
<1>2. d \in Seq(T) /\ Len(d) = n /\ \A i \in 1..n : d[i] = s[k + i]
  <2>1. /\ d \in Seq(T) /\ Len(d) = ((k + n) + 1) - (k + 1)
        /\ \A i \in 1..((k + n) + 1) - (k + 1) : d[i] = s[((k + 1) - 1) + i]
    BY <1>1, PieceIs
  <2> HIDE DEF d
  <2> QED BY <1>1, <2>1
<1> HIDE DEF d
<1>3. x \in Seq(T) /\ Len(x) = b - a /\ \A i \in 1..b - a : x[i] = d[a + i]
  <2>1. /\ a + 1 \in Nat /\ 1 <= a + 1 /\ a + 1 <= b + 1 /\ b <= Len(d)
        /\ (b + 1) - (a + 1) = b - a /\ (a + 1) - 1 = a
    BY <1>2
  <2>2. /\ x \in Seq(T) /\ Len(x) = (b + 1) - (a + 1)
        /\ \A i \in 1..(b + 1) - (a + 1) : x[i] = d[((a + 1) - 1) + i]
    BY <1>2, <2>1, PieceIs
  <2> HIDE DEF x
  <2> QED BY <2>1, <2>2
<1>4. y \in Seq(T) /\ Len(y) = b - a /\ \A i \in 1..b - a : y[i] = s[(k + a) + i]
  <2>1. PICK f \in Nat : f = (k + a) + 1 OBVIOUS
  <2>2. PICK e \in Nat : e = k + b OBVIOUS
  <2>3. /\ 1 <= f /\ f <= e + 1 /\ e <= Len(s) /\ (e + 1) - f = b - a /\ f - 1 = k + a
    <3>1. Len(s) \in Nat BY LenProperties
    <3> QED BY <2>1, <2>2, <3>1
  <2>4. y = SubSeq(s, f, e) BY <2>1, <2>2
  <2>5. /\ SubSeq(s, f, e) \in Seq(T) /\ Len(SubSeq(s, f, e)) = (e + 1) - f
        /\ \A i \in 1..(e + 1) - f : SubSeq(s, f, e)[i] = s[(f - 1) + i]
    BY <2>3, PieceIs
  <2> HIDE DEF y
  <2> QED BY <2>3, <2>4, <2>5
<1> HIDE DEF x, y
<1>5. ASSUME NEW i \in 1..b - a PROVE x[i] = y[i]
  <2>1. a + i \in 1..n /\ k + (a + i) = (k + a) + i OBVIOUS
  <2> QED BY <1>2, <1>3, <1>4, <2>1
<1>6. x = y BY <1>3, <1>4, <1>5, SeqEqual
<1> QED BY <1>2, <1>6 DEF x, y, d

\* One turn of update takes all it can without filling more than a block.
LEMMA AbsorbIs ==
  ASSUME NEW m \in Seq(Nat), NEW k \in Nat, NEW n \in Nat, k + n <= Len(m),
         NEW data, data = Span(m, k, n), NEW N,
         NEW at \in 0..n, NEW t, t.at = at, Fed(t, m, k, N),
         NEW u, u = Absorb(t, data)
  PROVE  u.at \in 0..n /\ Fed(u, m, k, N) /\ Moved(t, u, k, n)
<1>1. data = SubSeq(m, k + 1, k + n) /\ Len(data) = n
  <2>1. 0 \in Nat /\ 0 <= n OBVIOUS
  <2> QED BY <2>1, PieceOfPiece DEF Span
<1>2. PICK q \in Nat : q = k + at OBVIOUS
<1>3. PICK j \in Nat, r \in 0..127 : q = 128 * j + r /\ j = q \div 128 /\ r = q % 128
  <2>1. q \div 128 \in Nat /\ q % 128 \in 0..127 /\ q = 128 * (q \div 128) + (q % 128) OBVIOUS
  <2> QED BY <2>1
<1>4. PICK take \in 0..128 : take = IF n - at < 128 - r THEN n - at ELSE 128 - r
  <2>1. (IF n - at < 128 - r THEN n - at ELSE 128 - r) \in 0..128 OBVIOUS
  <2> QED BY <2>1
<1>5. PICK b \in Nat : b = 128 * j OBVIOUS
<1>6. /\ q <= Len(m) /\ at + take \in 0..n /\ k + (at + take) = q + take
      /\ q + take \in Nat /\ q + take <= Len(m) /\ q = b + r
  <2>1. Len(m) \in Nat BY LenProperties
  <2>2. q = b + r BY <1>3, <1>5
  <2>3. at + take \in 0..n BY <1>4
  <2>4. k + (at + take) = q + take BY <1>2
  <2> QED BY <1>2, <2>1, <2>2, <2>3, <2>4
<1>7. /\ t.sha \in [state : {ChainState(m, j)}, buffer : {SubSeq(m, b + 1, q)}, bits : {N}]
      /\ Len(SubSeq(m, b + 1, q)) = r
  <2>1. t.sha \in ShaAt(m, q, N) BY <1>2 DEF Fed
  <2>2. Len(SubSeq(m, 128 * (q \div 128) + 1, q)) = q % 128 BY <1>6, BufferIs
  <2>3. 128 * (q \div 128) = b BY Zenon, <1>3, <1>5
  <2>4. Len(SubSeq(m, b + 1, q)) = r BY <1>3, <2>2, <2>3
  <2>5. q \div 128 = j BY <1>3
  <2>6. t.sha \in [state : {ChainState(m, j)}, buffer : {SubSeq(m, b + 1, q)}, bits : {N}]
    BY <2>1, <2>3, <2>5 DEF ShaAt
  <2> QED BY <2>4, <2>6
<1>8. CASE at = n
  <2>1. u = t BY <1>1, <1>8 DEF Absorb
  <2> QED BY <1>8, <2>1 DEF Fed, Moved
<1>9. CASE at # n
  <2>1. take > 0 BY <1>4, <1>9
  <2> DEFINE full == SubSeq(m, b + 1, q + take)
  <2>2. SubSeq(data, at + 1, at + take) = SubSeq(m, q + 1, q + take)
    <3>1. at \in Nat /\ at + take \in Nat /\ at <= at + take /\ at + take <= n BY <1>6
    <3>2. SubSeq(data, at + 1, at + take) = SubSeq(m, (k + at) + 1, k + (at + take))
      BY <1>1, <3>1, PieceOfPiece
    <3> QED BY <1>2, <1>6, <3>2
  <2>3. t.sha.buffer \o SubSeq(data, at + 1, at + take) = full
    <3>1. b + 1 \in 1..Len(m) + 1 /\ q \in (b + 1) - 1..Len(m) /\ q + take \in q..Len(m)
      <4>1. Len(m) \in Nat BY LenProperties
      <4> QED BY <1>6, <4>1
    <3>2. SubSeq(m, b + 1, q) \o SubSeq(m, q + 1, q + take) = SubSeq(m, b + 1, q + take)
      BY <3>1, ConcatAdjacentSubSeq
    <3> QED BY <1>7, <2>2, <3>2
  <2>4. Len(full) = r + take
    <3>1. /\ b + 1 \in Nat /\ 1 <= b + 1 /\ b + 1 <= (q + take) + 1
          /\ ((q + take) + 1) - (b + 1) = r + take
      BY <1>6
    <3>2. Len(full) = ((q + take) + 1) - (b + 1) BY <1>6, <3>1, PieceIs
    <3> HIDE DEF full
    <3> QED BY <3>1, <3>2
  <2>5. u = [at  |-> at + take,
             sha |-> IF r + take = 128
                     THEN [t.sha EXCEPT !.state = Compress(t.sha.state, full), !.buffer = <<>>]
                     ELSE [t.sha EXCEPT !.buffer = full]]
    <3>1. Len(t.sha.buffer) = r BY <1>7
    <3>2. (IF Len(data) - t.at < BlockSize - Len(t.sha.buffer) THEN Len(data) - t.at
           ELSE BlockSize - Len(t.sha.buffer)) = take
      BY <1>1, <1>4, <3>1 DEF BlockSize
    <3> HIDE DEF full
    <3>3. t.at # Len(data) /\ t.at + take = at + take BY <1>1, <1>9
    <3> QED BY ZenonT(30), <2>3, <2>4, <3>2, <3>3 DEF Absorb, BlockSize
  <2>6. CASE r + take = 128
    <3>0. PICK e \in Nat : e = q + take BY <1>6
    <3>a. e = 128 * (j + 1) /\ e = b + 128 BY <1>3, <1>5, <1>6, <2>6, <3>0
    <3>b. e \div 128 = j + 1 /\ e % 128 = 0 /\ 128 * (e \div 128) = e BY <3>a
    <3>1. (q + take) \div 128 = j + 1 /\ (q + take) % 128 = 0 /\ q + take = b + 128
          /\ 128 * ((q + take) \div 128) = q + take
      BY <3>0, <3>a, <3>b
    <3>2. ChainState(m, j + 1) = Compress(ChainState(m, j), full)
      <4>1. ChainState(m, j + 1)
               = Compress(ChainState(m, j), SubSeq(m, 128 * j + 1, 128 * j + 128))
        BY ChainStateStep
      <4>2. SubSeq(m, 128 * j + 1, 128 * j + 128) = full BY <1>5, <3>1
      <4> HIDE DEF full
      <4> QED BY <4>1, <4>2
    <3>3. SubSeq(m, (q + take) + 1, q + take) = <<>> BY <1>6, SubSeqEmpty
    <3> HIDE DEF full
    <3> DEFINE sha1 == [t.sha EXCEPT !.state = Compress(t.sha.state, full), !.buffer = <<>>]
               sha2 == [t.sha EXCEPT !.buffer = full]
    <3>c. u = [at |-> at + take, sha |-> IF r + take = 128 THEN sha1 ELSE sha2] BY <2>5
    <3> HIDE DEF sha1, sha2
    <3>d. u.at = at + take /\ u.sha = sha1 BY <2>6, <3>c
    <3>4. u.at = at + take
          /\ u.sha = [t.sha EXCEPT !.state = Compress(t.sha.state, full), !.buffer = <<>>]
      BY <3>d DEF sha1
    <3>5. u.sha \in [state : {ChainState(m, j + 1)}, buffer : {<<>>}, bits : {N}]
      BY Zenon, <1>7, <3>2, <3>4
    <3>6. k + u.at = q + take BY <1>6, <3>4
    <3>7. u.sha \in ShaAt(m, q + take, N) BY Zenon, <3>1, <3>3, <3>5 DEF ShaAt
    <3>e. (k + u.at) % 128 = 0 BY <3>1, <3>6
    <3>f. u.at > at /\ u.at \in 0..n
      <4>1. at + take > at /\ at + take \in 0..n BY <1>6, <2>1
      <4> QED BY <3>d, <4>1
    <3>8. u.at > at /\ (k + u.at) % 128 = 0 /\ u.at \in 0..n BY <3>e, <3>f
    <3>9. (k + at) % 128 = 0 => u.at = at + 128
      <4>1. (k + at) % 128 = 0 => r = 0 BY <1>2, <1>3
      <4> QED BY <2>6, <3>d, <4>1
    <3> QED BY <3>6, <3>7, <3>8, <3>9 DEF Fed, OnBlock, Moved
  <2>7. CASE r + take # 128
    <3>1. at + take = n /\ (q + take) \div 128 = j BY <1>3, <1>4, <1>6, <2>7
    <3> HIDE DEF full
    <3> DEFINE sha1 == [t.sha EXCEPT !.state = Compress(t.sha.state, full), !.buffer = <<>>]
               sha2 == [t.sha EXCEPT !.buffer = full]
    <3>c. u = [at |-> at + take, sha |-> IF r + take = 128 THEN sha1 ELSE sha2] BY <2>5
    <3> HIDE DEF sha1, sha2
    <3>d. u.at = at + take /\ u.sha = sha2 BY <2>7, <3>c
    <3>2. u.at = at + take /\ u.sha = [t.sha EXCEPT !.buffer = full] BY <3>d DEF sha2
    <3>3. u.sha \in [state : {ChainState(m, j)}, buffer : {full}, bits : {N}]
      BY Zenon, <1>7, <3>2
    <3>4. u.sha \in ShaAt(m, q + take, N) BY <1>5, <3>1, <3>3 DEF ShaAt, full
    <3>5. u.at = n /\ u.at \in 0..n /\ k + u.at = q + take BY <1>6, <3>1, <3>2
    <3> QED BY <3>4, <3>5 DEF Fed, OnBlock, Moved
  <2> QED BY <2>6, <2>7
<1> QED BY <1>8, <1>9

\* What update makes of a piece, and that its turns are enough for it.
LEMMA UpdateIs ==
  ASSUME NEW m \in Seq(Nat), NEW k \in Nat, NEW n \in Nat, k + n <= Len(m),
         NEW s \in ShaAt(m, k, 8 * k)
  PROVE  Update(s, SubSeq(m, k + 1, k + n)) \in ShaAt(m, k + n, 8 * (k + n))
<1> DEFINE data == SubSeq(m, k + 1, k + n)
           N == 8 * (k + n)
           z == [s EXCEPT !.bits = @ + 8 * Len(data)]
<1>1. Len(data) = n
  <2>1. 0 \in Nat /\ 0 <= n OBVIOUS
  <2> QED BY <2>1, PieceOfPiece
<1>2. z \in ShaAt(m, k, N)
  <2>1. z = [s EXCEPT !.bits = s.bits + 8 * n] BY Zenon, <1>1
  <2>2. 8 * k + 8 * n = N OBVIOUS
  <2> HIDE DEF N, z
  <2> QED BY Zenon, <2>1, <2>2 DEF ShaAt
<1>3. PICK turns \in Nat : turns = (n \div BlockSize) + 2 /\ n < 128 * (turns - 1) BY DEF BlockSize
<1> HIDE DEF data
<1>4. Len(data) \div BlockSize + 2 \in Nat /\ (Len(data) \div BlockSize) + 2 = turns BY <1>1, <1>3
<1>5. PICK t : /\ t[0] = [sha |-> z, at |-> 0]
               /\ \A i \in 1..turns : t[i] = Absorb(t[i - 1], data)
               /\ Update(s, data) = t[turns].sha
  BY Zenon, <1>4, UpdateTurns
<1> HIDE DEF N, z
<1> DEFINE Good(i) == /\ t[i].at \in 0..n /\ Fed(t[i], m, k, N)
                      /\ i # 0 /\ t[i].at # n =>
                            OnBlock(t[i], k) /\ t[i].at > 128 * (i - 1)
           S == {i \in Nat : i <= turns => Good(i)}
<1>6. 0 \in S
  <2>1. t[0].at = 0 /\ t[0].sha = z /\ k + 0 = k BY <1>5
  <2> QED BY <1>2, <2>1 DEF Fed
<1>7. ASSUME NEW i \in Nat, i \in S PROVE i + 1 \in S
  <2> SUFFICES ASSUME i + 1 <= turns PROVE Good(i + 1) OBVIOUS
  <2>1. Good(i) BY <1>7
  <2>2. i + 1 \in 1..turns /\ (i + 1) - 1 = i OBVIOUS
  <2>3. PICK at \in 0..n : at = t[i].at BY <2>1
  <2>4. PICK v : v = t[i] OBVIOUS
  <2>5. PICK u : u = t[i + 1] OBVIOUS
  <2>6. u = Absorb(v, data) BY <1>5, <2>2, <2>4, <2>5
  <2>7. v.at = at /\ Fed(v, m, k, N) BY <2>1, <2>3, <2>4
  <2>8. /\ u.at \in 0..n /\ Fed(u, m, k, N)
        /\ u.at = n \/ (u.at > v.at /\ OnBlock(u, k))
        /\ OnBlock(v, k) /\ u.at # n => u.at = v.at + 128
    <3>1. data = Span(m, k, n) BY DEF data, Span
    <3>2. u.at \in 0..n /\ Fed(u, m, k, N) /\ Moved(v, u, k, n)
      BY <2>6, <2>7, <3>1, AbsorbIs
    <3> QED BY <3>2 DEF Moved
  <2>9. u.at # n => OnBlock(u, k) /\ u.at > 128 * i
    <3> SUFFICES ASSUME u.at # n PROVE OnBlock(u, k) /\ u.at > 128 * i OBVIOUS
    <3>1. OnBlock(u, k) /\ u.at > at BY <2>7, <2>8
    <3>2. CASE i = 0 BY <2>8, <3>1, <3>2
    <3>3. CASE i # 0
      <4>1. at # n BY <2>8, <3>1
      <4>2. OnBlock(v, k) /\ at > 128 * (i - 1) BY <2>1, <2>3, <2>4, <3>3, <4>1
      <4>3. u.at = at + 128 BY <2>7, <2>8, <4>2
      <4> QED BY <3>1, <4>2, <4>3
    <3> QED BY <3>2, <3>3
  <2> QED BY <2>2, <2>5, <2>8, <2>9
<1> HIDE DEF S
<1>8. turns \in S BY <1>6, <1>7, SetInduction
<1>9. Good(turns) BY <1>8 DEF S
<1>10. t[turns].at = n
  <2>1. turns # 0 BY <1>3 DEF BlockSize
  <2>2. t[turns].at # n => t[turns].at > 128 * (turns - 1) BY <1>9, <2>1
  <2>3. PICK at \in 0..n : at = t[turns].at BY <1>9
  <2> QED BY <1>3, <2>2, <2>3
<1> QED BY <1>5, <1>9, <1>10 DEF data, N, Fed

-----------------------------------------------------------------------------
(* The padding. *)

\* Zeros are zeros.
LEMMA ZerosIs ==
  ASSUME NEW n \in Nat
  PROVE  /\ Zeros(n) \in Seq(Nat) /\ Len(Zeros(n)) = n
         /\ \A i \in 1..n : Zeros(n)[i] = 0
BY DEF Zeros

\* The length of a message in 16 bytes.
LEMMA LengthIs ==
  ASSUME NEW n \in Nat
  PROVE  LengthBytes(n) \in Seq(Nat) /\ Len(LengthBytes(n)) = 16
<1> DEFINE l == <<n \div 16777216, (n \div 65536) % 256, (n \div 256) % 256, n % 256>>
           z == Zeros(12)
<1>1. l \in Seq(Nat) /\ Len(l) = 4
  <2>1. PICK a \in Nat : a = n \div 16777216 OBVIOUS
  <2>2. PICK b \in Nat : b = (n \div 65536) % 256 OBVIOUS
  <2>3. PICK c \in Nat : c = (n \div 256) % 256 OBVIOUS
  <2>4. PICK d \in Nat : d = n % 256 OBVIOUS
  <2>5. l = <<a, b, c, d>> BY <2>1, <2>2, <2>3, <2>4
  <2> HIDE DEF l
  <2> QED BY <2>5
<1>2. 12 \in Nat OBVIOUS
<1>3. z \in Seq(Nat) /\ Len(z) = 12 BY <1>2, ZerosIs
<1> HIDE DEF l, z
<1>4. z \o l \in Seq(Nat) /\ Len(z \o l) = Len(z) + Len(l)
  <2>1. z \in Seq(Nat) /\ l \in Seq(Nat) BY <1>1, <1>3
  <2> QED BY <2>1, ConcatProperties
<1>5. Len(z \o l) = 16 BY <1>1, <1>3, <1>4
<1> QED BY <1>4, <1>5 DEF LengthBytes, l, z

\* Where the bytes of a padded message are.
LEMMA PaddedIs ==
  ASSUME NEW m \in Seq(Nat), NEW n \in Nat, NEW lb \in Seq(Nat), NEW l, l = Len(m)
  PROVE  PaddedFrom(Filled(m, n, lb), m, l, n, lb)
<1> DEFINE e == <<128>>
           z == Zeros(n)
           a == m \o e
           b == a \o z
           c == b \o lb
<1>1. e \in Seq(Nat) /\ Len(e) = 1 /\ e[1] = 128 OBVIOUS
<1>2. z \in Seq(Nat) /\ Len(z) = n /\ \A i \in 1..n : z[i] = 0 BY ZerosIs
<1> HIDE DEF e, z
<1>3. Len(m) \in Nat /\ Len(lb) \in Nat BY LenProperties
<1>4. /\ a \in Seq(Nat) /\ Len(a) = Len(m) + 1
      /\ \A i \in 1..Len(m) : a[i] = m[i]
      /\ a[Len(m) + 1] = 128
  <2>0. e \in Seq(Nat) /\ m \in Seq(Nat) BY <1>1
  <2>1. a \in Seq(Nat) /\ Len(a) = Len(m) + Len(e) BY <2>0, ConcatProperties
  <2>2. \A i \in 1..Len(m) + Len(e) : a[i] = IF i <= Len(m) THEN m[i] ELSE e[i - Len(m)]
    BY <2>0, ConcatProperties
  <2> HIDE DEF a
  <2>4. Len(a) = Len(m) + 1 BY <1>1, <2>1
  <2>5. ASSUME NEW i \in 1..Len(m) PROVE a[i] = m[i]
    <3>1. i \in 1..Len(m) + Len(e) /\ i <= Len(m) BY <1>1, <1>3
    <3> QED BY <2>2, <3>1
  <2>6. PICK x \in Nat : x = Len(m) + 1 BY <1>3
  <2>7. x \in 1..Len(m) + Len(e) /\ ~(x <= Len(m)) /\ x - Len(m) = 1 BY <1>1, <1>3, <2>6
  <2>8. a[x] = e[1] BY <2>2, <2>7
  <2> QED BY <1>1, <2>1, <2>4, <2>5, <2>6, <2>8
<1> HIDE DEF a
<1>5. /\ b \in Seq(Nat) /\ Len(b) = Len(a) + n
      /\ \A i \in 1..Len(a) : b[i] = a[i]
      /\ \A i \in 1..n : b[Len(a) + i] = 0
  <2>1. b \in Seq(Nat) /\ Len(b) = Len(a) + Len(z) BY <1>2, <1>4, ConcatProperties
  <2>2. \A i \in 1..Len(a) + Len(z) : b[i] = IF i <= Len(a) THEN a[i] ELSE z[i - Len(a)]
    BY <1>2, <1>4, ConcatProperties
  <2> HIDE DEF b
  <2>3. Len(a) \in Nat BY <1>3, <1>4
  <2>4. ASSUME NEW i \in 1..n PROVE b[Len(a) + i] = 0
    <3>1. PICK x \in Nat : x = Len(a) + i BY <2>3
    <3>2. x \in 1..Len(a) + Len(z) /\ ~(x <= Len(a)) /\ x - Len(a) = i BY <1>2, <2>3, <3>1
    <3>3. b[x] = z[i] BY <2>2, <3>2
    <3> QED BY <1>2, <3>1, <3>3
  <2>5. ASSUME NEW i \in 1..Len(a) PROVE b[i] = a[i]
    <3>1. i \in 1..Len(a) + Len(z) /\ i <= Len(a) BY <1>2, <2>3
    <3> QED BY <2>2, <3>1
  <2> QED BY <1>2, <2>1, <2>4, <2>5
<1> HIDE DEF b
<1>6. /\ c \in Seq(Nat) /\ Len(c) = Len(b) + Len(lb)
      /\ \A i \in 1..Len(b) : c[i] = b[i]
      /\ \A i \in 1..Len(lb) : c[Len(b) + i] = lb[i]
  <2>1. c \in Seq(Nat) /\ Len(c) = Len(b) + Len(lb) BY Zenon, <1>5, ConcatProperties
  <2>2. \A i \in 1..Len(b) + Len(lb) : c[i] = IF i <= Len(b) THEN b[i] ELSE lb[i - Len(b)]
    BY <1>5, ConcatProperties
  <2> HIDE DEF c
  <2>3. Len(b) \in Nat BY <1>5, LenProperties
  <2>4. ASSUME NEW i \in 1..Len(lb) PROVE c[Len(b) + i] = lb[i]
    <3>1. PICK x \in Nat : x = Len(b) + i BY <2>3
    <3>2. x \in 1..Len(b) + Len(lb) /\ ~(x <= Len(b)) /\ x - Len(b) = i BY <1>3, <2>3, <3>1
    <3>3. c[x] = lb[i] BY <2>2, <3>2
    <3> QED BY <3>1, <3>3
  <2>5. ASSUME NEW i \in 1..Len(b) PROVE c[i] = b[i]
    <3>1. i \in 1..Len(b) + Len(lb) /\ i <= Len(b) BY <1>3, <2>3
    <3> QED BY <2>2, <3>1
  <2> QED BY <2>1, <2>4, <2>5
<1> HIDE DEF c
<1>7. l = Len(m) /\ l \in Nat BY <1>3
<1>8. Len(a) = l + 1 /\ Len(b) = (l + 1) + n BY <1>4, <1>5, <1>7
<1>9. \A i \in 1..l : c[i] = m[i] BY <1>4, <1>5, <1>6, <1>7, <1>8
<1>10. c[l + 1] = 128
  <2>1. l + 1 \in 1..Len(a) /\ l + 1 \in 1..Len(b) BY <1>8
  <2> QED BY <1>4, <1>5, <1>6, <1>7, <2>1
<1>11. ASSUME NEW i \in 1..n PROVE c[(l + 1) + i] = 0
  <2>1. (l + 1) + i \in 1..Len(b) BY <1>8
  <2> QED BY <1>5, <1>6, <1>8, <2>1
<1>12. \A i \in 1..Len(lb) : c[((l + 1) + n) + i] = lb[i] BY <1>6, <1>8
<1>13. c = Filled(m, n, lb) BY DEF Filled, a, b, c, e, z
<1>14. Len(c) = ((l + 1) + n) + Len(lb) BY <1>6, <1>8
<1> QED BY <1>6, <1>9, <1>10, <1>11, <1>12, <1>13, <1>14 DEF PaddedFrom

\* What final() makes of the state behind the first k bytes is the state
\* behind the padded message.
LEMMA FinishIs ==
  ASSUME NEW M \in Seq(Nat), NEW k \in Nat, k <= Len(M), NEW s \in ShaAt(M, k, 8 * k)
  PROVE  Finish(s, Append(s.buffer, 128)) = Whole(SubSeq(M, 1, k))
<1> DEFINE m == SubSeq(M, 1, k)
           z == (111 - k) % 128
           lb == LengthBytes(8 * k)
           p == Filled(m, z, lb)
<1>1. m \in Seq(Nat) /\ Len(m) = k /\ \A i \in 1..k : m[i] = M[i] BY PrefixIs
<1>2. Whole(m) = ChainState(p, Len(p) \div 128)
  <2>1. Whole(m) = ChainState(Filled(m, (111 - Len(m)) % 128, LengthBytes(8 * Len(m))),
                              Len(Filled(m, (111 - Len(m)) % 128,
                                  LengthBytes(8 * Len(m)))) \div 128)
    BY DEF Whole, ChainState, Filled
  <2> HIDE DEF m
  <2> QED BY <1>1, <2>1
<1>0. PICK j \in Nat, r \in 0..127 : k = 128 * j + r /\ j = k \div 128 /\ r = k % 128
  <2>1. k \div 128 \in Nat /\ k % 128 \in 0..127 /\ k = 128 * (k \div 128) + (k % 128) OBVIOUS
  <2> QED BY <2>1
<1>4. PICK a \in Nat : a = 128 * j OBVIOUS
<1>3. k = a + r BY Zenon, <1>0, <1>4
<1> DEFINE buf == SubSeq(M, a + 1, k)
<1>5. buf \in Seq(Nat) /\ Len(buf) = r /\ \A i \in 1..r : buf[i] = M[a + i]
  <2>1. 128 * (k \div 128) = a BY <1>0, <1>4
  <2> HIDE DEF buf
  <2>2. /\ SubSeq(M, 128 * (k \div 128) + 1, k) \in Seq(Nat)
        /\ Len(SubSeq(M, 128 * (k \div 128) + 1, k)) = k % 128
        /\ \A i \in 1..k % 128 :
              SubSeq(M, 128 * (k \div 128) + 1, k)[i] = M[128 * (k \div 128) + i]
    BY BufferIs
  <2>3. SubSeq(M, 128 * (k \div 128) + 1, k) = buf BY <2>1 DEF buf
  <2> QED BY ZenonT(30), <1>0, <2>1, <2>2, <2>3
<1>6. s.state = ChainState(M, j) /\ s.buffer = buf /\ s.bits = 8 * k
  <2>1. 128 * (k \div 128) = a /\ k \div 128 = j BY <1>0, <1>4
  <2> QED BY Zenon, <2>1 DEF ShaAt
<1>7. lb \in Seq(Nat) /\ Len(lb) = 16
  <2>1. 8 * k \in Nat OBVIOUS
  <2> QED BY <2>1, LengthIs
<1>8. z \in Nat /\ z = IF r <= 111 THEN 111 - r ELSE 239 - r BY <1>0
<1> HIDE DEF m, lb, z, buf
<1>9. /\ p \in Seq(Nat) /\ Len(p) = ((k + 1) + z) + 16
      /\ \A i \in 1..k : p[i] = m[i]
      /\ p[k + 1] = 128
      /\ \A i \in 1..z : p[(k + 1) + i] = 0
      /\ \A i \in 1..16 : p[((k + 1) + z) + i] = lb[i]
  <2> HIDE DEF p
  <2>0. k = Len(m) BY <1>1
  <2>1. PaddedFrom(Filled(m, z, lb), m, k, z, lb) BY <1>1, <1>7, <1>8, <2>0, PaddedIs
  <2>2. PaddedFrom(p, m, k, z, lb) BY <2>1 DEF p
  <2> QED BY <1>7, <2>2 DEF PaddedFrom
<1> HIDE DEF p
<1>a. p \in Seq(Nat) BY <1>9
<1>10. ChainState(p, j) = ChainState(M, j)
  <2>0. Len(M) \in Nat BY LenProperties
  <2>1. 128 * j <= Len(p) /\ 128 * j <= Len(M) /\ 128 * j <= k
    <3>1. Len(p) = ((k + 1) + z) + 16 BY <1>9
    <3> QED BY <1>3, <1>4, <1>8, <2>0, <3>1
  <2>2. ASSUME NEW i \in 1..128 * j PROVE p[i] = M[i]
    <3>1. i \in 1..k BY <2>1
    <3> QED BY Zenon, <1>1, <1>9, <3>1
  <2> QED BY <1>9, <2>1, <2>2, ChainAgrees
<1> DEFINE marked == Append(buf, 128)
           e == <<128>>
<1>11. marked = buf \o <<128>> /\ Len(marked) = r + 1
  <2>1. marked = buf \o <<128>> BY <1>5, AppendIsConcat
  <2>2. e \in Seq(Nat) /\ Len(e) = 1 OBVIOUS
  <2>3. Len(buf \o e) = Len(buf) + Len(e)
    <3>1. buf \in Seq(Nat) /\ e \in Seq(Nat) BY <1>5, <2>2
    <3> QED BY <3>1, ConcatProperties
  <2> HIDE DEF marked
  <2> QED BY <1>5, <2>1, <2>2, <2>3 DEF e
<1> HIDE DEF marked
<1>12. CASE r <= 111
  <2> DEFINE f == Filled(buf, 111 - r, lb)
             P == SubSeq(p, a + 1, a + 128)
  <2>0. Len(p) = ((k + 1) + z) + 16 BY <1>9
  <2>1. z = 111 - r /\ Len(p) = a + 128 BY <1>3, <1>8, <1>12, <2>0
  <2>2. Len(p) \div 128 = j + 1 BY <1>4, <2>1
  <2>3. FillUp(marked, 112) \o lb = f
    <3>1. 112 - (r + 1) = 111 - r OBVIOUS
    <3> QED BY Zenon, <1>11, <3>1 DEF FillUp, Filled
  <2>4. /\ f \in Seq(Nat) /\ Len(f) = ((r + 1) + (111 - r)) + 16
        /\ \A i \in 1..r : f[i] = buf[i]
        /\ f[r + 1] = 128
        /\ \A i \in 1..111 - r : f[(r + 1) + i] = 0
        /\ \A i \in 1..16 : f[((r + 1) + (111 - r)) + i] = lb[i]
    <3>1. PICK x \in Nat : x = 111 - r BY <1>12
    <3>2. f = Filled(buf, x, lb) BY <3>1
    <3> HIDE DEF f
    <3>0. r = Len(buf) BY <1>5
    <3>3. PaddedFrom(Filled(buf, x, lb), buf, r, x, lb) BY <1>5, <1>7, <3>0, PaddedIs
    <3>4. PaddedFrom(f, buf, r, 111 - r, lb) BY <3>1, <3>2, <3>3
    <3> QED BY <1>7, <3>4 DEF PaddedFrom
  <2> HIDE DEF f
  <2>5. P \in Seq(Nat) /\ Len(P) = 128 /\ \A i \in 1..128 : P[i] = p[a + i]
    <3>1. PICK b \in Nat : b = a + 1 OBVIOUS
    <3>2. PICK c \in Nat : c = a + 128 OBVIOUS
    <3>3. 1 <= b /\ b <= c + 1 /\ c <= Len(p) /\ (c + 1) - b = 128 /\ b - 1 = a
      BY <2>1, <3>1, <3>2
    <3>4. /\ SubSeq(p, b, c) \in Seq(Nat) /\ Len(SubSeq(p, b, c)) = (c + 1) - b
          /\ \A i \in 1..(c + 1) - b : SubSeq(p, b, c)[i] = p[(b - 1) + i]
      BY <1>a, <3>3, PieceIs
    <3>5. P = SubSeq(p, b, c) BY <3>1, <3>2
    <3> HIDE DEF P
    <3> QED BY <3>3, <3>4, <3>5
  <2> HIDE DEF P
  <2>6. ASSUME NEW i \in 1..128 PROVE P[i] = f[i]
    <3>1. P[i] = p[a + i] BY <2>5
    <3>2. CASE i <= r
      <4>1. i \in 1..r /\ a + i \in 1..k BY <1>3, <1>4, <3>2
      <4>2. p[a + i] = m[a + i] /\ m[a + i] = M[a + i] BY Zenon, <1>1, <1>9, <4>1
      <4>3. f[i] = M[a + i] BY Zenon, <1>5, <2>4, <4>1
      <4> QED BY <3>1, <4>2, <4>3
    <3>3. CASE i = r + 1
      <4>1. a + i = k + 1 BY <1>3, <1>4, <3>3
      <4> QED BY <1>9, <2>4, <3>1, <3>3, <4>1
    <3>4. CASE i > r + 1 /\ i <= 112
      <4>1. PICK h \in 1..111 - r : h = i - (r + 1) BY <1>12, <3>4
      <4>2. a + i = (k + 1) + h /\ i = (r + 1) + h /\ h \in 1..z BY <1>3, <1>4, <2>1, <4>1
      <4>3. p[(k + 1) + h] = 0 BY <1>9, <4>2
      <4>4. f[(r + 1) + h] = 0 BY <2>4, <4>1
      <4> QED BY <3>1, <4>2, <4>3, <4>4
    <3>5. CASE i > 112
      <4>1. PICK h \in 1..16 : h = i - 112 BY <3>5
      <4>2. a + i = ((k + 1) + z) + h /\ i = ((r + 1) + (111 - r)) + h BY <1>3, <1>4, <2>1, <4>1
      <4>3. p[((k + 1) + z) + h] = lb[h] BY Zenon, <1>9
      <4>4. f[((r + 1) + (111 - r)) + h] = lb[h] BY <2>4
      <4> QED BY <3>1, <4>2, <4>3, <4>4
    <3>6. i <= r \/ i = r + 1 \/ (i > r + 1 /\ i <= 112) \/ i > 112 BY <1>12
    <3> QED BY <3>2, <3>3, <3>4, <3>5, <3>6
  <2>7. P = f
    <3>1. Len(f) = 128 BY <2>4
    <3> QED BY ZenonT(30), <2>4, <2>5, <2>6, <3>1, SeqEqual
  <2>8. Whole(m) = Compress(ChainState(M, j), f)
    <3>1. ChainState(p, j + 1) = Compress(ChainState(p, j), SubSeq(p, 128 * j + 1, 128 * j + 128))
      BY ChainStateStep
    <3>2. SubSeq(p, 128 * j + 1, 128 * j + 128) = P BY <1>4 DEF P
    <3> QED BY Zenon, <1>2, <1>10, <2>2, <2>7, <3>1, <3>2
  <2>9. Finish(s, marked) = Compress(s.state, FillUp(marked, 112) \o lb)
    <3>1. ~(Len(marked) > 112) BY <1>11, <1>12
    <3> QED BY <1>6, <3>1 DEF Finish, lb
  <2> QED BY Zenon, <1>6, <2>3, <2>8, <2>9 DEF m, marked
<1>13. CASE r > 111
  <2> DEFINE n0 == <<>>
             f == Filled(buf, 127 - r, n0)
             g == Zeros(112) \o lb
             P == SubSeq(p, a + 1, a + 128)
             Q == SubSeq(p, a + 129, a + 256)
  <2>0. Len(p) = ((k + 1) + z) + 16 BY <1>9
  <2>1. z = 239 - r /\ Len(p) = a + 256 BY <1>3, <1>8, <1>13, <2>0
  <2>2. Len(p) \div 128 = j + 2 BY <1>4, <2>1
  <2>a. n0 \in Seq(Nat) /\ Len(n0) = 0 BY EmptySeq
  <2>b. PICK x \in Nat : x = 127 - r OBVIOUS
  <2>3. FillUp(marked, BlockSize) = f
    <3>1. BlockSize - (r + 1) = 127 - r BY DEF BlockSize
    <3>2. f = ((buf \o <<128>>) \o Zeros(127 - r)) \o n0 BY DEF Filled
    <3>3. (buf \o <<128>>) \o Zeros(127 - r) \in Seq(Nat)
      <4>1. e \in Seq(Nat) OBVIOUS
      <4>2. Zeros(x) \in Seq(Nat) BY ZerosIs
      <4> HIDE DEF e
      <4>3. buf \o e \in Seq(Nat) BY <1>5, <4>1, ConcatProperties
      <4>4. (buf \o e) \o Zeros(x) \in Seq(Nat) BY <4>2, <4>3, ConcatProperties
      <4> QED BY <2>b, <4>4 DEF e
    <3>4. ((buf \o <<128>>) \o Zeros(127 - r)) \o <<>> = (buf \o <<128>>) \o Zeros(127 - r)
      BY <3>3, ConcatEmptySeq
    <3> QED BY Zenon, <1>11, <3>1, <3>2, <3>4 DEF FillUp
  <2>4. /\ f \in Seq(Nat) /\ Len(f) = ((r + 1) + (127 - r)) + 0
        /\ \A i \in 1..r : f[i] = buf[i]
        /\ f[r + 1] = 128
        /\ \A i \in 1..127 - r : f[(r + 1) + i] = 0
    <3>2. f = Filled(buf, x, n0) BY <2>b
    <3> HIDE DEF f, n0
    <3>0. r = Len(buf) BY <1>5
    <3>3. PaddedFrom(Filled(buf, x, n0), buf, r, x, n0) BY <1>5, <2>a, <3>0, PaddedIs
    <3>4. PaddedFrom(f, buf, r, 127 - r, n0) BY <2>b, <3>2, <3>3
    <3> QED BY <2>a, <3>4 DEF PaddedFrom
  <2> HIDE DEF f, n0
  <2>c. /\ g \in Seq(Nat) /\ Len(g) = 128
        /\ \A i \in 1..112 : g[i] = 0
        /\ \A i \in 1..16 : g[112 + i] = lb[i]
    <3> DEFINE h == Zeros(112)
    <3>1. 112 \in Nat OBVIOUS
    <3>2. h \in Seq(Nat) /\ Len(h) = 112 /\ \A i \in 1..112 : h[i] = 0 BY <3>1, ZerosIs
    <3> HIDE DEF h
    <3>3. h \in Seq(Nat) /\ lb \in Seq(Nat) BY <1>7, <3>2
    <3>4. h \o lb \in Seq(Nat) /\ Len(h \o lb) = Len(h) + Len(lb) BY <3>3, ConcatProperties
    <3>5. \A i \in 1..Len(h) + Len(lb) : (h \o lb)[i] = IF i <= Len(h) THEN h[i] ELSE lb[i - Len(h)]
      BY <3>3, ConcatProperties
    <3>6. g = h \o lb BY DEF h
    <3>a. Len(h) = 112 /\ Len(lb) = 16 BY <1>7, <3>2
    <3> HIDE DEF g
    <3>7. ASSUME NEW i \in 1..16 PROVE g[112 + i] = lb[i]
      <4>1. PICK y \in Nat : y = 112 + i OBVIOUS
      <4>2. y \in 1..Len(h) + Len(lb) /\ ~(y <= Len(h)) /\ y - Len(h) = i BY <3>a, <4>1
      <4> QED BY <3>5, <3>6, <4>1, <4>2
    <3>8. ASSUME NEW i \in 1..112 PROVE g[i] = 0
      <4>1. i \in 1..Len(h) + Len(lb) /\ i <= Len(h) BY <3>a
      <4>2. g[i] = h[i] BY <3>5, <3>6, <4>1
      <4> QED BY <3>2, <4>2
    <3>b. g \in Seq(Nat) /\ Len(g) = 128 BY <3>4, <3>6, <3>a
    <3> QED BY <3>7, <3>8, <3>b
  <2> HIDE DEF g
  <2>5. P \in Seq(Nat) /\ Len(P) = 128 /\ \A i \in 1..128 : P[i] = p[a + i]
    <3>1. PICK b \in Nat : b = a + 1 OBVIOUS
    <3>2. PICK c \in Nat : c = a + 128 OBVIOUS
    <3>3. 1 <= b /\ b <= c + 1 /\ c <= Len(p) /\ (c + 1) - b = 128 /\ b - 1 = a
      BY <2>1, <3>1, <3>2
    <3>4. /\ SubSeq(p, b, c) \in Seq(Nat) /\ Len(SubSeq(p, b, c)) = (c + 1) - b
          /\ \A i \in 1..(c + 1) - b : SubSeq(p, b, c)[i] = p[(b - 1) + i]
      BY <1>a, <3>3, PieceIs
    <3>5. P = SubSeq(p, b, c) BY <3>1, <3>2
    <3> HIDE DEF P
    <3> QED BY <3>3, <3>4, <3>5
  <2>d. Q \in Seq(Nat) /\ Len(Q) = 128 /\ \A i \in 1..128 : Q[i] = p[(a + 128) + i]
    <3>1. PICK b \in Nat : b = a + 129 OBVIOUS
    <3>2. PICK c \in Nat : c = a + 256 OBVIOUS
    <3>3. 1 <= b /\ b <= c + 1 /\ c <= Len(p) /\ (c + 1) - b = 128 /\ b - 1 = a + 128
      BY <2>1, <3>1, <3>2
    <3>4. /\ SubSeq(p, b, c) \in Seq(Nat) /\ Len(SubSeq(p, b, c)) = (c + 1) - b
          /\ \A i \in 1..(c + 1) - b : SubSeq(p, b, c)[i] = p[(b - 1) + i]
      BY <1>a, <3>3, PieceIs
    <3>5. Q = SubSeq(p, b, c) BY <3>1, <3>2
    <3> HIDE DEF Q
    <3> QED BY <3>3, <3>4, <3>5
  <2> HIDE DEF P, Q
  <2>6. ASSUME NEW i \in 1..128 PROVE P[i] = f[i]
    <3>1. P[i] = p[a + i] BY Zenon, <2>5
    <3>2. CASE i <= r
      <4>1. i \in 1..r /\ a + i \in 1..k BY <1>3, <1>4, <3>2
      <4>2. p[a + i] = m[a + i] /\ m[a + i] = M[a + i] BY <1>1, <1>9, <4>1
      <4>3. f[i] = M[a + i] BY Zenon, <1>5, <2>4, <4>1
      <4> QED BY <3>1, <4>2, <4>3
    <3>3. CASE i = r + 1
      <4>1. a + i = k + 1 BY <1>3, <1>4, <3>3
      <4> QED BY Zenon, <1>9, <2>4, <3>1, <3>3, <4>1
    <3>4. CASE i > r + 1
      <4>1. PICK h \in 1..127 - r : h = i - (r + 1) BY <1>13, <3>4
      <4>2. a + i = (k + 1) + h /\ i = (r + 1) + h /\ h \in 1..z BY <1>3, <1>4, <2>1, <4>1
      <4>3. p[(k + 1) + h] = 0 BY <1>9, <4>2
      <4>4. f[(r + 1) + h] = 0 BY Zenon, <2>4, <4>1
      <4> QED BY <3>1, <4>2, <4>3, <4>4
    <3> QED BY <3>2, <3>3, <3>4
  <2>7. P = f
    <3>1. Len(f) = 128 BY <2>4
    <3> QED BY ZenonT(30), <2>4, <2>5, <2>6, <3>1, SeqEqual
  <2>e. ASSUME NEW i \in 1..128 PROVE Q[i] = g[i]
    <3>1. Q[i] = p[(a + 128) + i] BY <2>d
    <3>2. CASE i <= 112
      <4>1. PICK h \in 1..z : h = (127 - r) + i BY <1>13, <2>1, <3>2
      <4>2. (a + 128) + i = (k + 1) + h BY <1>3, <1>4, <4>1
      <4>3. p[(k + 1) + h] = 0 BY <1>9
      <4>4. g[i] = 0
        <5>1. \A y \in 1..112 : g[y] = 0 BY <2>c
        <5>2. i \in 1..112 BY <3>2
        <5> QED BY Zenon, <5>1, <5>2
      <4> QED BY <3>1, <4>2, <4>3, <4>4
    <3>3. CASE i > 112
      <4>1. PICK h \in 1..16 : h = i - 112 BY <3>3
      <4>2. (a + 128) + i = ((k + 1) + z) + h /\ i = 112 + h BY <1>3, <1>4, <2>1, <4>1
      <4>3. p[((k + 1) + z) + h] = lb[h] BY <1>9
      <4>4. g[112 + h] = lb[h] BY Zenon, <2>c
      <4> QED BY <3>1, <4>2, <4>3, <4>4
    <3> QED BY <3>2, <3>3
  <2>f. Q = g BY ZenonT(30), <2>c, <2>d, <2>e, SeqEqual
  <2>8. Whole(m) = Compress(Compress(ChainState(M, j), f), g)
    <3>1. ChainState(p, j + 1) = Compress(ChainState(p, j), SubSeq(p, 128 * j + 1, 128 * j + 128))
      BY ChainStateStep
    <3>2. SubSeq(p, 128 * j + 1, 128 * j + 128) = P BY <1>4 DEF P
    <3>3. PICK y \in Nat : y = j + 1 OBVIOUS
    <3>4. ChainState(p, y + 1) = Compress(ChainState(p, y), SubSeq(p, 128 * y + 1, 128 * y + 128))
      BY ChainStateStep
    <3>5. 128 * y + 1 = a + 129 /\ 128 * y + 128 = a + 256 /\ j + 2 = y + 1 BY <1>4, <3>3
    <3>6. SubSeq(p, 128 * y + 1, 128 * y + 128) = Q BY <3>5 DEF Q
    <3>7. ChainState(p, y) = Compress(ChainState(M, j), f) BY <1>10, <2>7, <3>1, <3>2, <3>3
    <3>8. ChainState(p, y + 1) = Compress(ChainState(p, y), g) BY <2>f, <3>4, <3>6
    <3>9. ChainState(p, j + 2) = ChainState(p, y + 1) BY <3>5
    <3> QED BY <1>2, <2>2, <3>7, <3>8, <3>9
  <2>9. Finish(s, marked) = Compress(Compress(s.state, FillUp(marked, BlockSize)), g)
    <3>1. Len(marked) > 112 BY <1>11, <1>13
    <3> QED BY <1>6, <3>1 DEF Finish, lb, g
  <2> QED BY <1>6, <2>3, <2>8, <2>9 DEF m, marked
<1> QED BY <1>12, <1>13

-----------------------------------------------------------------------------

\* No piece yet.
LEMMA HashInit == StreamInit => HashInv
<1> SUFFICES ASSUME StreamInit, job.kind = "digest" PROVE HashInv
  BY DEF HashInv
<1>1. /\ WellFormed(job) /\ sent = Start(job).sent /\ rx = Start(job).rx
  BY JobsWellFormed DEF StreamInit
<1>2. job.message \in Seq(Byte) /\ job.pieces \subseteq Nat BY <1>1 DEF WellFormed
<1>3. sent = 0 /\ rx = NewSha BY <1>1 DEF Start
<1>4. job.message \in Seq(Nat)
  <2>1. Byte \subseteq Nat BY DEF Byte
  <2> QED BY <1>2, <2>1, SeqMonotonic
<1>5. Len(job.message) \in Nat BY <1>4, LenProperties
<1>6. ChainState(job.message, 0) = 1 BY ChainStateLaw
<1>7. SubSeq(job.message, 1, 0) = <<>> BY <1>4, SubSeqEmpty
<1>8. 0 \div 128 = 0 /\ 128 * 0 + 1 = 1 /\ 8 * 0 = 0 OBVIOUS
<1>9. rx \in ShaAt(job.message, 0, 0) BY <1>3, <1>6, <1>7, <1>8 DEF ShaAt, NewSha
<1> QED BY <1>2, <1>3, <1>4, <1>5, <1>8, <1>9 DEF HashInv

\* One piece more.
LEMMA HashStep ==
  ASSUME HashInv, HashPiece PROVE HashInv'
<1>1. /\ job.message \in Seq(Nat) /\ job.pieces \subseteq Nat
      /\ sent \in Nat /\ sent <= Len(job.message)
      /\ rx \in ShaAt(job.message, sent, 8 * sent)
  BY DEF HashInv, HashPiece
<1>2. PICK n \in job.pieces : /\ sent + n <= Len(job.message)
                              /\ rx' = Update(rx, SubSeq(job.message, sent + 1, sent + n))
                              /\ sent' = sent + n
  BY DEF HashPiece
<1>3. n \in Nat /\ job' = job BY <1>1 DEF HashPiece
<1>4. Update(rx, SubSeq(job.message, sent + 1, sent + n))
         \in ShaAt(job.message, sent + n, 8 * (sent + n))
  BY <1>1, <1>2, <1>3, UpdateIs
<1>5. sent' \in Nat /\ sent' <= Len(job.message) BY <1>1, <1>2, <1>3
<1>6. rx' \in ShaAt(job.message, sent', 8 * sent') BY <1>2, <1>4
<1> QED BY <1>1, <1>3, <1>5, <1>6 DEF HashInv

\* A hash that has taken what was given to it has its digest.
LEMMA HashShows == HashInv => (job.kind = "digest" => DigestAgrees)
<1> SUFFICES ASSUME HashInv, job.kind = "digest" PROVE DigestAgrees OBVIOUS
<1>1. /\ job.message \in Seq(Nat) /\ sent \in Nat /\ sent <= Len(job.message)
      /\ rx \in ShaAt(job.message, sent, 8 * sent)
  BY DEF HashInv
<1>2. Finish(rx, Append(rx.buffer, 128)) = Whole(SubSeq(job.message, 1, sent))
  BY <1>1, FinishIs
<1> QED BY <1>2 DEF DigestAgrees, Digest

-----------------------------------------------------------------------------
(* Where things are in a text. *)

\* Two texts are where they were joined.
LEMMA LiesIn ==
  ASSUME NEW T, NEW a \in Seq(T), NEW b \in Seq(T), NEW n \in Nat, n = Len(a)
  PROVE  a \o b \in Seq(T) /\ Len(a \o b) = n + Len(b) /\ Lies(a \o b, 0, a) /\ Lies(a \o b, n, b)
<1> DEFINE c == a \o b
<1>1. Len(a) \in Nat /\ Len(b) \in Nat BY LenProperties
<1>2. c \in Seq(T) /\ Len(c) = n + Len(b) BY ConcatProperties
<1>3. \A i \in 1..Len(a) + Len(b) : c[i] = IF i <= Len(a) THEN a[i] ELSE b[i - Len(a)]
  BY ConcatProperties
<1> HIDE DEF c
<1>4. ASSUME NEW h \in 1..Len(a) PROVE c[0 + h] = a[h]
  <2>1. 0 + h = h /\ h \in 1..Len(a) + Len(b) /\ h <= Len(a) BY <1>1
  <2> QED BY <1>3, <2>1
<1>5. ASSUME NEW h \in 1..Len(b) PROVE c[n + h] = b[h]
  <2>1. PICK x \in Nat : x = n + h BY <1>1
  <2>2. x \in 1..Len(a) + Len(b) /\ ~(x <= Len(a)) /\ x - Len(a) = h BY <1>1, <2>1
  <2>3. c[x] = b[h] BY <1>3, <2>2
  <2> QED BY <2>1, <2>3
<1>6. n \in Nat /\ 0 \in Nat /\ 0 + Len(a) <= Len(c) /\ n + Len(b) <= Len(c) BY <1>1, <1>2
<1>7. Lies(c, 0, a) BY <1>4, <1>6 DEF Lies
<1>8. Lies(c, n, b) BY <1>5, <1>6 DEF Lies
<1> QED BY <1>2, <1>7, <1>8 DEF c

\* What is cut out at the place of a text is the text.
LEMMA LiesCut ==
  ASSUME NEW T, NEW s \in Seq(T), NEW t \in Seq(T), NEW k \in Nat, Lies(s, k, t),
         NEW x \in Nat, x = k + 1, NEW n \in Nat, n = k + Len(t)
  PROVE  SubSeq(s, x, n) = t /\ n <= Len(s)
<1>1. k \in Nat /\ k + Len(t) <= Len(s) BY DEF Lies
<1>2. Len(t) \in Nat /\ Len(s) \in Nat BY LenProperties
<1>3. x \in Nat /\ n \in Nat /\ 1 <= x /\ x <= n + 1 /\ n <= Len(s) /\ (n + 1) - x = Len(t)
      /\ x - 1 = k
  BY <1>1, <1>2
<1> DEFINE d == SubSeq(s, x, n)
<1>4. d \in Seq(T) /\ Len(d) = (n + 1) - x /\ \A i \in 1..(n + 1) - x : d[i] = s[(x - 1) + i]
  <2>1. x \in Nat /\ n \in Nat /\ 1 <= x /\ x <= n + 1 /\ n <= Len(s) BY <1>3
  <2> QED BY <2>1, PieceIs
<1> HIDE DEF d
<1>5. ASSUME NEW i \in 1..Len(t) PROVE d[i] = t[i]
  <2>1. d[i] = s[k + i] BY <1>3, <1>4
  <2> QED BY <2>1 DEF Lies
<1>6. Len(d) = Len(t) BY <1>3, <1>4
<1>7. d = t BY <1>4, <1>5, <1>6, SeqEqual
<1> QED BY <1>3, <1>7 DEF d

\* A text in a text that is in a text.
LEMMA LiesDeep ==
  ASSUME NEW T, NEW s \in Seq(T), NEW t \in Seq(T), NEW u \in Seq(T),
         NEW k \in Nat, Lies(s, k, t), NEW h \in Nat, Lies(t, h, u), NEW n \in Nat, n = k + h
  PROVE  Lies(s, n, u)
<1>1. k \in Nat /\ h \in Nat /\ k + Len(t) <= Len(s) /\ h + Len(u) <= Len(t) BY DEF Lies
<1>2. Len(s) \in Nat /\ Len(t) \in Nat /\ Len(u) \in Nat BY LenProperties
<1>3. n \in Nat /\ n + Len(u) <= Len(s) BY <1>1, <1>2
<1>4. ASSUME NEW i \in 1..Len(u) PROVE s[n + i] = u[i]
  <2>1. PICK j \in Nat : j = h + i BY <1>1, <1>2
  <2>2. j \in 1..Len(t) /\ k + j = n + i BY <1>1, <1>2, <2>1
  <2>3. t[j] = u[i] BY <2>1 DEF Lies
  <2>4. s[k + j] = t[j] BY <2>2 DEF Lies
  <2> QED BY <2>2, <2>3, <2>4
<1> QED BY <1>3, <1>4 DEF Lies

\* The two parts of a text that is somewhere.
LEMMA LiesPart ==
  ASSUME NEW T, NEW s \in Seq(T), NEW a \in Seq(T), NEW b \in Seq(T),
         NEW k \in Nat, Lies(s, k, a \o b), NEW n \in Nat, n = k + Len(a)
  PROVE  Lies(s, k, a) /\ Lies(s, n, b)
<1>1. PICK m \in Nat : m = Len(a) BY LenProperties
<1>2. a \o b \in Seq(T) /\ Lies(a \o b, 0, a) /\ Lies(a \o b, m, b) BY <1>1, LiesIn
<1>3. k = k + 0 /\ 0 \in Nat /\ n = k + m BY <1>1
<1> QED BY <1>1, <1>2, <1>3, LiesDeep

-----------------------------------------------------------------------------
(* The parts of what is joined. *)

\* Each part is behind those in front of it.
LEMMA JoinedPart ==
  ASSUME NEW T, NEW n \in Nat, NEW parts, \A i \in 1..n : parts[i] \in Seq(T), NEW k \in 1..n
  PROVE  /\ Joined(parts, n) \in Seq(T)
         /\ Lies(Joined(parts, n), Len(Joined(parts, k - 1)), parts[k])
         /\ Len(Joined(parts, k)) = Len(Joined(parts, k - 1)) + Len(parts[k])
         /\ Len(Joined(parts, k)) <= Len(Joined(parts, n))
<1> DEFINE J(m) == Joined(parts, m)
           a == Len(J(k - 1))
           S == {m \in Nat : m \in k..n =>
                    Lies(J(m), a, parts[k]) /\ Len(J(k)) <= Len(J(m))}
<1>1. \A m \in 0..n : /\ J(m) \in Seq(T)
                      /\ m # 0 => /\ J(m) = J(m - 1) \o parts[m]
                                  /\ Len(J(m)) = Len(J(m - 1)) + Len(parts[m])
  BY JoinedIs
<1> HIDE DEF J
<1>2. k - 1 \in 0..n /\ k \in 0..n /\ k # 0 OBVIOUS
<1>3. J(k - 1) \in Seq(T) /\ J(k) \in Seq(T) /\ J(k) = J(k - 1) \o parts[k] /\ parts[k] \in Seq(T)
  BY <1>1, <1>2
<1>4. Lies(J(k), a, parts[k])
  <2>1. PICK p : p = J(k - 1) OBVIOUS
  <2>2. PICK q : q = parts[k] OBVIOUS
  <2>3. p \in Seq(T) /\ q \in Seq(T) /\ J(k) = p \o q /\ a = Len(p) /\ a \in Nat
    BY <1>3, <2>1, <2>2, LenProperties
  <2> HIDE DEF a
  <2>4. Lies(p \o q, a, q) BY <2>3, LiesIn
  <2> QED BY <2>2, <2>3, <2>4
<1>5. 0 \in S OBVIOUS
<1>6. ASSUME NEW m \in Nat, m \in S PROVE m + 1 \in S
  <2> SUFFICES ASSUME m + 1 \in k..n
               PROVE  Lies(J(m + 1), a, parts[k]) /\ Len(J(k)) <= Len(J(m + 1))
    OBVIOUS
  <2>1. CASE m + 1 = k
    <3>1. Len(J(k)) \in Nat BY <1>3, LenProperties
    <3> QED BY <1>4, <2>1, <3>1
  <2>2. CASE m + 1 # k
    <3>1. m \in k..n /\ m \in 0..n /\ m + 1 \in 0..n /\ m + 1 # 0 /\ (m + 1) - 1 = m
          /\ m + 1 \in 1..n
      BY <2>2
    <3>2. Lies(J(m), a, parts[k]) /\ Len(J(k)) <= Len(J(m)) BY <1>6, <3>1
    <3>3. J(m) \in Seq(T) /\ J(m + 1) \in Seq(T) /\ parts[m + 1] \in Seq(T)
          /\ J(m + 1) = J(m) \o parts[m + 1] /\ Len(J(m + 1)) = Len(J(m)) + Len(parts[m + 1])
      BY <1>1, <3>1
    <3>4. Len(J(m)) \in Nat /\ Len(parts[m + 1]) \in Nat /\ Len(J(k)) \in Nat
      BY <1>3, <3>3, LenProperties
    <3>5. Lies(J(m + 1), 0, J(m))
      <4>1. PICK p : p = J(m) OBVIOUS
      <4>2. PICK q : q = parts[m + 1] OBVIOUS
      <4>4. p \in Seq(T) /\ q \in Seq(T) /\ J(m + 1) = p \o q BY <3>3, <4>1, <4>2
      <4>3. PICK l \in Nat : l = Len(p) BY <4>4, LenProperties
      <4>5. Lies(p \o q, 0, p) BY <4>3, <4>4, LiesIn
      <4> QED BY <4>1, <4>4, <4>5
    <3>6. a \in Nat /\ a = 0 + a BY <1>3, LenProperties
    <3>7. Lies(J(m + 1), a, parts[k]) BY <1>3, <3>2, <3>3, <3>5, <3>6, LiesDeep
    <3> QED BY <3>2, <3>3, <3>4, <3>7
  <2> QED BY <2>1, <2>2
<1> HIDE DEF S
<1>7. n \in S BY <1>5, <1>6, SetInduction
<1>8. n \in k..n /\ n \in 0..n OBVIOUS
<1>9. Lies(J(n), a, parts[k]) /\ Len(J(k)) <= Len(J(n)) BY <1>7, <1>8 DEF S
<1>10. J(n) \in Seq(T) /\ Len(J(k)) = Len(J(k - 1)) + Len(parts[k]) BY <1>1, <1>2, <1>8
<1> QED BY Zenon, <1>9, <1>10 DEF J

\* The frames for the screen, one frame more.
LEMMA ShownLaw ==
  ASSUME NEW fs
  PROVE  /\ Shown(fs, 0) = <<>>
         /\ \A n \in Nat \ {0} : Shown(fs, n) = IF fs[n].type \in {0, 1}
            THEN Append(Shown(fs, n - 1), n) ELSE Shown(fs, n - 1)
<1> DEFINE l == [of |-> "Shown", fs |-> fs]
           z == <<>>
           T(s, i) == IF fs[i].type \in {0, 1} THEN Append(s, i) ELSE s
           P(f, n) == f = [i \in 0..n |-> IF i = 0 THEN z ELSE T(f[i - 1], i)]
<1>1. \A s, i : Turn(l, s, i) = T(s, i) BY DEF Turn
<1>2. \A n : Shown(fs, n) = (CHOOSE f : P(f, n))[n] BY ZenonT(60) DEF Shown, Iterate
<1> HIDE DEF l, z, T
<1>3. \A f, n : P(f, n) <=> Turns(l, z, n, f) BY <1>1 DEF Turns
<1> HIDE DEF P
<1>4. \A n : Shown(fs, n) = After(l, z, n) BY <1>2, <1>3, Zenon DEF After
<1> QED BY <1>1, <1>4, AfterLaw DEF z, T

\* The masked bytes, one frame more.
LEMMA MaskedLaw ==
  ASSUME NEW fs
  PROVE  /\ MaskedFirst(fs, 0) = 0
         /\ \A n \in Nat \ {0} : MaskedFirst(fs, n) = MaskedFirst(fs, n - 1) + (IF fs[n].type
            = 0 THEN Len(Plain(fs[n])) ELSE 0)
<1> DEFINE l == [of |-> "MaskedFirst", fs |-> fs]
           z == 0
           T(s, i) == s + (IF fs[i].type = 0 THEN Len(Plain(fs[i])) ELSE 0)
           P(f, n) == f = [i \in 0..n |-> IF i = 0 THEN z ELSE T(f[i - 1], i)]
<1>1. \A s, i : Turn(l, s, i) = T(s, i) BY DEF Turn
<1>2. \A n : MaskedFirst(fs, n) = (CHOOSE f : P(f, n))[n] BY ZenonT(60) DEF MaskedFirst, Iterate
<1> HIDE DEF l, z, T
<1>3. \A f, n : P(f, n) <=> Turns(l, z, n, f) BY <1>1 DEF Turns
<1> HIDE DEF P
<1>4. \A n : MaskedFirst(fs, n) = After(l, z, n) BY <1>2, <1>3, Zenon DEF After
<1> QED BY <1>1, <1>4, AfterLaw DEF z, T

-----------------------------------------------------------------------------
(* Numbers as bytes. *)

\* What is left of a number is one.
LEMMA ShiftedIs ==
  ASSUME NEW n \in Nat, NEW i \in Nat
  PROVE  Shifted(n, i) \in Nat
<1> DEFINE S == {k \in Nat : Shifted(n, k) \in Nat}
<1>1. 0 \in S BY ShiftedLaw
<1>2. ASSUME NEW k \in Nat, k \in S PROVE k + 1 \in S
  <2>1. k + 1 \in Nat \ {0} /\ (k + 1) - 1 = k OBVIOUS
  <2>2. Shifted(n, k + 1) = Shifted(n, (k + 1) - 1) \div 256 BY Zenon, <2>1, ShiftedLaw
  <2>3. Shifted(n, k) \in Nat BY <1>2
  <2>4. Shifted(n, k + 1) = Shifted(n, k) \div 256 BY <2>1, <2>2
  <2>5. PICK m \in Nat : m = Shifted(n, k) BY <2>3
  <2>6. Shifted(n, k + 1) \in Nat BY <2>4, <2>5
  <2> QED BY <2>6
<1> HIDE DEF S
<1>3. i \in S BY <1>1, <1>2, SetInduction
<1> QED BY <1>3 DEF S

\* A number is its last byte and the others.
LEMMA ShiftedStep ==
  ASSUME NEW n \in Nat, NEW i \in Nat, NEW j \in Nat, j = i + 1
  PROVE  /\ Shifted(n, i) \in Nat /\ Shifted(n, j) \in Nat
         /\ Shifted(n, i) % 256 \in Byte
         /\ Shifted(n, i) = 256 * Shifted(n, j) + (Shifted(n, i) % 256)
<1>1. j \in Nat \ {0} /\ j - 1 = i OBVIOUS
<1>2. Shifted(n, j) = Shifted(n, j - 1) \div 256 BY ZenonT(30), <1>1, ShiftedLaw
<1>3. PICK m \in Nat : m = Shifted(n, i) BY ShiftedIs
<1>4. Shifted(n, j) = m \div 256 BY <1>1, <1>2, <1>3
<1> QED BY <1>3, <1>4 DEF Byte

\* The first bytes of a number, and what is left of it.
LEMMA FourBytes ==
  ASSUME NEW n \in Nat, NEW e \in Nat, NEW a \in Nat, NEW b \in Nat, NEW c \in Nat, NEW d \in Nat,
         a = e + 1, b = e + 2, c = e + 3, d = e + 4
  PROVE  /\ Shifted(n, e) \in Nat /\ Shifted(n, a) \in Nat /\ Shifted(n, b) \in Nat
         /\ Shifted(n, c) \in Nat /\ Shifted(n, d) \in Nat
         /\ Shifted(n, e) = 256 * Shifted(n, a) + (Shifted(n, e) % 256)
         /\ Shifted(n, a) = 256 * Shifted(n, b) + (Shifted(n, a) % 256)
         /\ Shifted(n, b) = 256 * Shifted(n, c) + (Shifted(n, b) % 256)
         /\ Shifted(n, c) = 256 * Shifted(n, d) + (Shifted(n, c) % 256)
<1>1. b = a + 1 /\ c = b + 1 /\ d = c + 1 OBVIOUS
<1>2. /\ Shifted(n, e) \in Nat /\ Shifted(n, a) \in Nat /\ Shifted(n, b) \in Nat
      /\ Shifted(n, c) \in Nat /\ Shifted(n, d) \in Nat
  BY Zenon, ShiftedIs
<1>3. Shifted(n, e) = 256 * Shifted(n, a) + (Shifted(n, e) % 256) BY ShiftedStep
<1>4. Shifted(n, a) = 256 * Shifted(n, b) + (Shifted(n, a) % 256) BY <1>1, ShiftedStep
<1>5. Shifted(n, b) = 256 * Shifted(n, c) + (Shifted(n, b) % 256) BY <1>1, ShiftedStep
<1>6. Shifted(n, c) = 256 * Shifted(n, d) + (Shifted(n, c) % 256) BY <1>1, ShiftedStep
<1> QED BY <1>2, <1>3, <1>4, <1>5, <1>6

\* The bytes of a number, the lowest first.
LEMMA SmallIs ==
  ASSUME NEW n \in Nat, NEW k \in Nat
  PROVE  /\ Small(n, k) \in Seq(Byte) /\ Len(Small(n, k)) = k
         /\ \A i \in 1..k : Small(n, k)[i] = Shifted(n, i - 1) % 256
<1> DEFINE s == [i \in 1..k |-> Shifted(n, i - 1) % 256]
<1>1. \A i \in 1..k : s[i] \in Byte
  <2> TAKE i \in 1..k
  <2>1. PICK j \in Nat : j = i - 1 OBVIOUS
  <2>2. PICK l \in Nat : l = j + 1 OBVIOUS
  <2>3. Shifted(n, j) % 256 \in Byte BY <2>2, ShiftedStep
  <2> QED BY <2>1, <2>3
<1>2. s \in [1..k -> Byte] BY <1>1
<1>3. \A i \in 1..k : s[i] = Shifted(n, i - 1) % 256 OBVIOUS
<1>4. Small(n, k) = Now(s) BY DEF Small
<1> HIDE DEF s
<1>5. Now(s) = s /\ s \in Seq(Byte) /\ Len(s) = k BY <1>2, NowIs
<1> QED BY <1>3, <1>4, <1>5

\* The bytes of a number, the highest first.
LEMMA BigIs ==
  ASSUME NEW n \in Nat, NEW k \in Nat
  PROVE  /\ Big(n, k) \in Seq(Byte) /\ Len(Big(n, k)) = k
         /\ \A i \in 1..k : Big(n, k)[i] = Shifted(n, k - i) % 256
<1> DEFINE s == [i \in 1..k |-> Shifted(n, k - i) % 256]
<1>1. \A i \in 1..k : s[i] \in Byte
  <2> TAKE i \in 1..k
  <2>1. PICK j \in Nat : j = k - i OBVIOUS
  <2>2. PICK l \in Nat : l = j + 1 OBVIOUS
  <2>3. Shifted(n, j) % 256 \in Byte BY <2>2, ShiftedStep
  <2> QED BY <2>1, <2>3
<1>2. s \in [1..k -> Byte] BY <1>1
<1>3. \A i \in 1..k : s[i] = Shifted(n, k - i) % 256 OBVIOUS
<1>4. Big(n, k) = Now(s) BY DEF Big
<1> HIDE DEF s
<1>5. Now(s) = s /\ s \in Seq(Byte) /\ Len(s) = k BY <1>2, NowIs
<1> QED BY <1>3, <1>4, <1>5

\* The first four bytes of a number and what is left, and the first two.
LEMMA BigLeaves ==
  ASSUME NEW n \in Nat
  PROVE  /\ Len(Big(n, 4)) = 4 /\ Len(Big(n, 2)) = 2
         /\ \E q \in Nat : n = 256 * (256 * (256 * (256 * q))) + BigEndian(Big(n, 4))
         /\ \E q \in Nat : n = 256 * (256 * q) + BigEndian(Big(n, 2))
         /\ BigEndian(Big(n, 4)) \in Nat /\ BigEndian(Big(n, 2)) \in Nat
<1>1. PICK z, a, b, c, d \in Nat : z = 0 /\ a = z + 1 /\ b = z + 2 /\ c = z + 3 /\ d = z + 4
  OBVIOUS
<1>2. a = 1 /\ b = 2 /\ c = 3 /\ d = 4 BY <1>1
<1>3. PICK s0, s1, s2, s3, s4 :
            /\ s0 = Shifted(n, z) /\ s1 = Shifted(n, a) /\ s2 = Shifted(n, b)
            /\ s3 = Shifted(n, c) /\ s4 = Shifted(n, d)
  OBVIOUS
<1>4. /\ s0 \in Nat /\ s1 \in Nat /\ s2 \in Nat /\ s3 \in Nat /\ s4 \in Nat
       /\ s0 = 256 * s1 + (s0 % 256) /\ s1 = 256 * s2 + (s1 % 256)
       /\ s2 = 256 * s3 + (s2 % 256) /\ s3 = 256 * s4 + (s3 % 256)
  BY <1>1, <1>3, FourBytes
<1>5. s0 = n
  <2>1. Shifted(n, 0) = n BY ShiftedLaw
  <2> QED BY <1>1, <1>3, <2>1
<1>6. PICK r0, r1, r2, r3 \in Nat : r0 = s0 % 256 /\ r1 = s1 % 256 /\ r2 = s2 % 256
      /\ r3 = s3 % 256 BY <1>4
<1>7. n = 256 * s1 + r0 /\ s1 = 256 * s2 + r1 /\ s2 = 256 * s3 + r2 /\ s3 = 256 * s4 + r3
  BY <1>4, <1>5, <1>6
<1>8. Len(Big(n, d)) = d /\ BigEndian(Big(n, d)) = 256 * (256 * (256 * r3 + r2) + r1) + r0
  <2>1. PICK w : w = Big(n, d) OBVIOUS
  <2>2. Len(w) = d /\ \A i \in 1..d : w[i] = Shifted(n, d - i) % 256
    <3>1. ASSUME NEW i \in 1..d PROVE Big(n, d)[i] = Shifted(n, d - i) % 256 BY BigIs
    <3>2. Len(Big(n, d)) = d BY BigIs
    <3> QED BY <2>1, <3>1, <3>2
  <2>3. a \in 1..d /\ b \in 1..d /\ c \in 1..d /\ d \in 1..d BY <1>2
  <2>4. d - a = c /\ d - b = b /\ d - c = a /\ d - d = z BY <1>1, <1>2
  <2>5. w[a] = Shifted(n, d - a) % 256 /\ w[b] = Shifted(n, d - b) % 256
        /\ w[c] = Shifted(n, d - c) % 256 /\ w[d] = Shifted(n, d - d) % 256
    BY <2>2, <2>3
  <2>6. w[a] = r3 /\ w[b] = r2 /\ w[c] = r1 /\ w[d] = r0 BY <1>3, <1>6, <2>4, <2>5
  <2>7. w[1] = r3 /\ w[2] = r2 /\ w[3] = r1 /\ w[4] = r0 BY <1>2, <2>6
  <2>8. BigEndian(w) = 256 * (256 * (256 * w[1] + w[2]) + w[3]) + w[4]
    BY <1>2, <2>2 DEF BigEndian
  <2> QED BY <2>1, <2>2, <2>7, <2>8
<1>9. Len(Big(n, b)) = b /\ BigEndian(Big(n, b)) = 256 * r1 + r0
  <2>1. PICK w : w = Big(n, b) OBVIOUS
  <2>2. Len(w) = b /\ \A i \in 1..b : w[i] = Shifted(n, b - i) % 256
    <3>1. ASSUME NEW i \in 1..b PROVE Big(n, b)[i] = Shifted(n, b - i) % 256 BY BigIs
    <3>2. Len(Big(n, b)) = b BY BigIs
    <3> QED BY <2>1, <3>1, <3>2
  <2>3. a \in 1..b /\ b \in 1..b BY <1>2
  <2>4. b - a = a /\ b - b = z BY <1>1, <1>2
  <2>5. w[a] = Shifted(n, b - a) % 256 /\ w[b] = Shifted(n, b - b) % 256 BY <2>2, <2>3
  <2>6. w[a] = r1 /\ w[b] = r0 BY <1>3, <1>6, <2>4, <2>5
  <2>7. w[1] = r1 /\ w[2] = r0 BY <1>2, <2>6
  <2>8. BigEndian(w) = 256 * w[1] + w[2] BY <1>2, <2>2 DEF BigEndian
  <2> QED BY <2>1, <2>2, <2>7, <2>8
<1>10. n = 256 * (256 * s2) + (256 * r1 + r0) BY <1>4, <1>7
<1>11. n = 256 * (256 * (256 * (256 * s4))) + (256 * (256 * (256 * r3 + r2) + r1) + r0)
  BY <1>4, <1>7
<1>12. PICK f \in Nat : f = 256 * (256 * (256 * r3 + r2) + r1) + r0 OBVIOUS
<1>13. PICK g \in Nat : g = 256 * r1 + r0 OBVIOUS
<1>14. Len(Big(n, 4)) = 4 /\ BigEndian(Big(n, 4)) = f BY <1>2, <1>8, <1>12
<1>15. Len(Big(n, 2)) = 2 /\ BigEndian(Big(n, 2)) = g BY <1>2, <1>9, <1>13
<1>16. \E q \in Nat : n = 256 * (256 * (256 * (256 * q))) + f BY <1>4, <1>11, <1>12
<1>17. \E q \in Nat : n = 256 * (256 * q) + g BY <1>4, <1>10, <1>13
<1> QED BY <1>14, <1>15, <1>16, <1>17

\* Numbers of four and of two bytes.
LEMMA BigReturns4 ==
  ASSUME NEW n \in Nat, Word32(n)
  PROVE  Len(Big(n, 4)) = 4 /\ BigEndian(Big(n, 4)) = n
<1>1. PICK b \in Nat : b = BigEndian(Big(n, 4)) BY BigLeaves
<1>2. PICK q \in Nat : n = 256 * (256 * (256 * (256 * q))) + b BY <1>1, BigLeaves
<1>3. q = 0 BY <1>1, <1>2, SMT DEF Word32
<1> QED BY <1>1, <1>2, <1>3, BigLeaves

LEMMA BigReturns2 ==
  ASSUME NEW n \in Nat, n < 65536
  PROVE  Len(Big(n, 2)) = 2 /\ BigEndian(Big(n, 2)) = n
<1>1. PICK b \in Nat : b = BigEndian(Big(n, 2)) BY BigLeaves
<1>2. PICK q \in Nat : n = 256 * (256 * q) + b BY <1>1, BigLeaves
<1>3. q = 0 BY <1>1, <1>2, SMT
<1> QED BY <1>1, <1>2, <1>3, BigLeaves

LEMMA NothingPast == ASSUME NEW r, r = 0 PROVE Past32(r) = 0
<1>1. Past32(0) = 0 BY SMT DEF Past32
<1> QED BY <1>1

\* Bytes of a number, the lowest first.
LEMMA LittleIs ==
  ASSUME NEW n \in Nat, NEW e \in Nat, NEW b, NEW r \in Nat, FourOf(b, n, e, r)
  PROVE  LittleEndian(b) = Shifted(n, e) - Past32(r)
<1>1. PICK f, g, h, l \in Nat : f = e + 1 /\ g = e + 2 /\ h = e + 3 /\ l = e + 4 OBVIOUS
<1>2. PICK s0, s1, s2, s3, s4 :
            /\ s0 = Shifted(n, e) /\ s1 = Shifted(n, f) /\ s2 = Shifted(n, g)
            /\ s3 = Shifted(n, h) /\ s4 = Shifted(n, l)
  OBVIOUS
<1>3. /\ s0 \in Nat /\ s1 \in Nat /\ s2 \in Nat /\ s3 \in Nat /\ s4 \in Nat
       /\ s0 = 256 * s1 + (s0 % 256) /\ s1 = 256 * s2 + (s1 % 256)
       /\ s2 = 256 * s3 + (s2 % 256) /\ s3 = 256 * s4 + (s3 % 256)
  BY <1>1, <1>2, FourBytes
<1>4. b[1] = s0 % 256 /\ b[2] = s1 % 256 /\ b[3] = s2 % 256 /\ b[4] = s3 % 256
  BY <1>1, <1>2 DEF FourOf
<1>5. PICK r0, r1, r2, r3 \in Nat : r0 = s0 % 256 /\ r1 = s1 % 256 /\ r2 = s2 % 256
      /\ r3 = s3 % 256 BY <1>3
<1>6. s0 = 256 * s1 + r0 /\ s1 = 256 * s2 + r1 /\ s2 = 256 * s3 + r2 /\ s3 = 256 * s4 + r3
  BY <1>3, <1>5
<1>7. LittleEndian(b) = r0 + 256 * (r1 + 256 * (r2 + 256 * r3)) BY <1>4, <1>5 DEF LittleEndian
<1>8. r0 + 256 * (r1 + 256 * (r2 + 256 * r3)) = s0 - 4294967296 * s4 BY <1>3, <1>6, SMT
<1>9. s4 = r /\ s0 = Shifted(n, e) BY <1>1, <1>2 DEF FourOf
<1>10. s0 - 4294967296 * s4 = s0 - Past32(r) BY <1>9 DEF Past32
<1>11. LittleEndian(b) = s0 - Past32(r) BY <1>7, <1>8, <1>10
<1> QED BY <1>9, <1>11

\* A number of four bytes has no others.
LEMMA ShiftedShort ==
  ASSUME NEW n \in Nat, Word32(n)
  PROVE  Shifted(n, 4) = 0
<1>1. PICK z, a, b, c, d \in Nat : z = 0 /\ a = z + 1 /\ b = z + 2 /\ c = z + 3 /\ d = z + 4
  OBVIOUS
<1>2. PICK s0, s1, s2, s3, s4 :
            /\ s0 = Shifted(n, z) /\ s1 = Shifted(n, a) /\ s2 = Shifted(n, b)
            /\ s3 = Shifted(n, c) /\ s4 = Shifted(n, d)
  OBVIOUS
<1>3. /\ s0 \in Nat /\ s1 \in Nat /\ s2 \in Nat /\ s3 \in Nat /\ s4 \in Nat
       /\ s0 = 256 * s1 + (s0 % 256) /\ s1 = 256 * s2 + (s1 % 256)
       /\ s2 = 256 * s3 + (s2 % 256) /\ s3 = 256 * s4 + (s3 % 256)
  BY <1>1, <1>2, FourBytes
<1>4. s0 = n
  <2>1. Shifted(n, 0) = n BY ShiftedLaw
  <2> QED BY <1>1, <1>2, <2>1
<1>5. PICK r0, r1, r2, r3 \in Nat : r0 = s0 % 256 /\ r1 = s1 % 256 /\ r2 = s2 % 256
      /\ r3 = s3 % 256 BY <1>3
<1>6. n = 256 * s1 + r0 /\ s1 = 256 * s2 + r1 /\ s2 = 256 * s3 + r2 /\ s3 = 256 * s4 + r3
  BY <1>3, <1>4, <1>5
<1>7. s4 = 0 BY <1>3, <1>5, <1>6, SMT DEF Word32
<1>8. d = 4 BY <1>1
<1> QED BY <1>2, <1>7, <1>8

-----------------------------------------------------------------------------
(* The frames of the screen. *)

\* The header of a frame says what the sender put into it, the 64 bits of its time included.
LEMMA HeaderIs ==
  ASSUME NEW f, NEW size \in Nat, Word32(size),
         f.type \in Byte, f.type2 \in Byte, f.ntp \in Nat, Shifted(f.ntp, 8) = 0
  PROVE  /\ FrameHeader(f, size) \in Seq(Byte) /\ Len(FrameHeader(f, size)) = HeaderLen
         /\ PayloadSize(FrameHeader(f, size)) = size
         /\ Type(FrameHeader(f, size)) = f.type /\ Type2(FrameHeader(f, size)) = f.type2
         /\ Ntp(FrameHeader(f, size)) = f.ntp
<1> DEFINE A == Small(size, 4)
           B == <<f.type, f.type2, 0, 0>>
           C == Small(f.ntp, 8)
           D == [k \in 1..(HeaderLen - 16) |-> 99]
           h == ((A \o B) \o C) \o D
<1>1. A \in Seq(Byte) /\ Len(A) = 4 /\ \A i \in 1..4 : A[i] = Shifted(size, i - 1) % 256
  <2>1. 4 \in Nat OBVIOUS
  <2> QED BY ZenonT(30), <2>1, SmallIs
<1>2. C \in Seq(Byte) /\ Len(C) = 8 /\ \A i \in 1..8 : C[i] = Shifted(f.ntp, i - 1) % 256
  <2>1. 8 \in Nat OBVIOUS
  <2> QED BY ZenonT(30), <2>1, SmallIs
<1>3. B \in Seq(Byte) /\ Len(B) = 4 /\ B[1] = f.type /\ B[2] = f.type2
  <2>1. 0 \in Byte BY DEF Byte
  <2> QED BY <2>1
<1>4. PICK m \in Nat : m = HeaderLen - 16 BY HeaderHoldsItsFields
<1>5. D \in Seq(Byte) /\ Len(D) = m
  <2>1. 99 \in Byte BY DEF Byte
  <2>2. D = [k \in 1..m |-> 99] BY <1>4
  <2> HIDE DEF D
  <2> QED BY <2>1, <2>2
<1>6. h = FrameHeader(f, size) BY DEF FrameHeader
<1> HIDE DEF A, B, C, D
<1>7. A \o B \in Seq(Byte) /\ Len(A \o B) = 8 /\ Lies(A \o B, 0, A) /\ Lies(A \o B, 4, B)
  <2>1. A \in Seq(Byte) /\ B \in Seq(Byte) BY <1>1, <1>3
  <2>2. PICK n : n = Len(A) OBVIOUS
  <2>3. A \o B \in Seq(Byte) /\ Len(A \o B) = n + Len(B) /\ Lies(A \o B, 0, A) /\ Lies(A \o B, n, B)
    BY <2>1, <2>2, LiesIn
  <2>4. n = 4 /\ Len(B) = 4 BY <1>1, <1>3, <2>2
  <2> QED BY <2>3, <2>4
<1> DEFINE G == A \o B
<1>8. G \o C \in Seq(Byte) /\ Len(G \o C) = 16 /\ Lies(G \o C, 0, G) /\ Lies(G \o C, 8, C)
  <2>1. G \in Seq(Byte) /\ C \in Seq(Byte) BY <1>2, <1>7
  <2>2. PICK n : n = Len(G) OBVIOUS
  <2>3. n = 8 /\ Len(C) = 8 BY <1>2, <1>7, <2>2
  <2> HIDE DEF G
  <2>4. G \o C \in Seq(Byte) /\ Len(G \o C) = n + Len(C) /\ Lies(G \o C, 0, G) /\ Lies(G \o C, n, C)
    BY <2>1, <2>2, LiesIn
  <2> QED BY <2>3, <2>4
<1> DEFINE H == G \o C
<1>9. h \in Seq(Byte) /\ Len(h) = HeaderLen /\ Lies(h, 0, H)
  <2>1. H \in Seq(Byte) /\ D \in Seq(Byte) BY <1>5, <1>8
  <2>2. PICK n : n = Len(H) OBVIOUS
  <2>3. n = 16 /\ Len(D) = m BY <1>5, <1>8, <2>2
  <2>4. h = H \o D OBVIOUS
  <2> HIDE DEF H, h
  <2>5. H \o D \in Seq(Byte) /\ Len(H \o D) = n + Len(D) /\ Lies(H \o D, 0, H) BY <2>1, <2>2, LiesIn
  <2>6. n + Len(D) = HeaderLen BY <1>4, <2>3, HeaderHoldsItsFields
  <2> QED BY <2>4, <2>5, <2>6
<1> HIDE DEF h
<1>10. Lies(h, 0, A) /\ Lies(h, 4, B) /\ Lies(h, 8, C)
  <2>1. H \in Seq(Byte) /\ G \in Seq(Byte) /\ A \in Seq(Byte) /\ B \in Seq(Byte) /\ C \in Seq(Byte)
    BY <1>1, <1>2, <1>3, <1>7, <1>8
  <2>2. Lies(H, 0, G) /\ Lies(H, 8, C) /\ Lies(G, 0, A) /\ Lies(G, 4, B) BY <1>7, <1>8
  <2>3. 0 = 0 + 0 /\ 4 = 0 + 4 /\ 8 = 0 + 8 OBVIOUS
  <2>4. h \in Seq(Byte) /\ Lies(h, 0, H) BY <1>9
  <2> HIDE DEF H, G
  <2>5. Lies(h, 0, G) BY <2>1, <2>2, <2>3, <2>4, LiesDeep
  <2>6. Lies(h, 8, C) BY <2>1, <2>2, <2>3, <2>4, LiesDeep
  <2>7. Lies(h, 0, A) BY <2>1, <2>2, <2>3, <2>4, <2>5, LiesDeep
  <2>8. Lies(h, 4, B) BY <2>1, <2>2, <2>3, <2>4, <2>5, LiesDeep
  <2> QED BY <2>6, <2>7, <2>8
<1> HIDE DEF H, G
<1>11. /\ h[1] = A[1] /\ h[2] = A[2] /\ h[3] = A[3] /\ h[4] = A[4] /\ h[5] = B[1] /\ h[6] = B[2]
       /\ h[9] = C[1] /\ h[10] = C[2] /\ h[11] = C[3] /\ h[12] = C[4]
       /\ h[13] = C[5] /\ h[14] = C[6] /\ h[15] = C[7] /\ h[16] = C[8]
  <2>1. \A i \in 1..4 : h[0 + i] = A[i] BY <1>1, <1>10 DEF Lies
  <2>2. \A i \in 1..4 : h[4 + i] = B[i] BY <1>3, <1>10 DEF Lies
  <2>3. \A i \in 1..8 : h[8 + i] = C[i] BY <1>2, <1>10 DEF Lies
  <2>4. h[1] = A[1] /\ h[2] = A[2] /\ h[3] = A[3] /\ h[4] = A[4] BY <2>1
  <2>5. h[5] = B[1] /\ h[6] = B[2] BY <2>2
  <2>6. h[9] = C[1] /\ h[10] = C[2] /\ h[11] = C[3] /\ h[12] = C[4] BY <2>3
  <2>7. h[13] = C[5] /\ h[14] = C[6] /\ h[15] = C[7] /\ h[16] = C[8] BY <2>3
  <2> QED BY <2>4, <2>5, <2>6, <2>7
<1>12. Type(h) = f.type /\ Type2(h) = f.type2 BY <1>3, <1>11 DEF Type, Type2
<1>13. PICK c0, c4, c8 \in Nat : /\ c0 = f.ntp /\ c0 = Shifted(f.ntp, 0)
                                 /\ c4 = Shifted(f.ntp, 4) /\ c8 = Shifted(f.ntp, 8) /\ c8 = 0
  <2>1. 4 \in Nat OBVIOUS
  <2>2. Shifted(f.ntp, 4) \in Nat BY <2>1, ShiftedIs
  <2> QED BY <2>2, ShiftedLaw
<1>14. 16 <= Len(h) BY <1>9, HeaderHoldsItsFields
<1>h. h \in Seq(Byte) BY <1>9
<1>15. PayloadSize(h) = size
  <2> DEFINE b == SubSeq(h, 1, 4)
             e == 0
  <2>1. b[1] = h[1] /\ b[2] = h[2] /\ b[3] = h[3] /\ b[4] = h[4]
    <3>1. 4 \in Nat /\ 4 <= Len(h) BY <1>14
    <3>2. \A i \in 1..4 : b[i] = h[i] BY <1>h, <3>1, PrefixIs
    <3> HIDE DEF b
    <3> QED BY <3>2
  <2> HIDE DEF b
  <2>2. A[1] = Shifted(size, 0) % 256 /\ A[2] = Shifted(size, 1) % 256
        /\ A[3] = Shifted(size, 2) % 256
        /\ A[4] = Shifted(size, 3) % 256
    <3>1. 1 - 1 = 0 /\ 2 - 1 = 1 /\ 3 - 1 = 2 /\ 4 - 1 = 3 OBVIOUS
    <3>2. 1 \in 1..4 /\ 2 \in 1..4 /\ 3 \in 1..4 /\ 4 \in 1..4 OBVIOUS
    <3> QED BY <1>1, <3>1, <3>2
  <2>3. Shifted(size, 4) = 0 BY ShiftedShort
  <2>4. e \in Nat /\ e = 0 /\ e + 1 = 1 /\ e + 2 = 2 /\ e + 3 = 3 /\ e + 4 = 4 OBVIOUS
  <2> HIDE DEF e
  <2>5. PICK r \in Nat : r = 0 OBVIOUS
  <2>6. r = Shifted(size, e + 4) BY <2>3, <2>4, <2>5
  <2>7. b[1] = Shifted(size, e) % 256 /\ b[2] = Shifted(size, e + 1) % 256
        /\ b[3] = Shifted(size, e + 2) % 256 /\ b[4] = Shifted(size, e + 3) % 256
    BY <1>11, <2>1, <2>2, <2>4
  <2>8. LittleEndian(b) = Shifted(size, e) - Past32(r)
    <3>1. e \in Nat BY <2>4
    <3>2. FourOf(b, size, e, r) BY <2>6, <2>7 DEF FourOf
    <3> QED BY <3>1, <3>2, LittleIs
  <2>9. Shifted(size, e) = size BY <2>4, ShiftedLaw
  <2>10. Past32(r) = 0 BY <2>5, NothingPast
  <2> QED BY <2>8, <2>9, <2>10 DEF PayloadSize, b
<1>16. Ntp(h) = f.ntp
  <2> DEFINE b == SubSeq(h, 9, 12)
             d == SubSeq(h, 13, 16)
             e == 0
             g == 4
  <2>1. b[1] = h[9] /\ b[2] = h[10] /\ b[3] = h[11] /\ b[4] = h[12]
    <3>1. 9 \in Nat /\ 12 \in Nat /\ 1 <= 9 /\ 9 <= 12 + 1 /\ 12 <= Len(h) /\ (12 + 1) - 9 = 4
      BY <1>14
    <3>2. \A i \in 1..(12 + 1) - 9 : b[i] = h[(9 - 1) + i] BY <1>h, <3>1, PieceIs
    <3> HIDE DEF b
    <3>3. \A i \in 1..4 : b[i] = h[(9 - 1) + i] BY <3>1, <3>2
    <3> QED BY <3>3
  <2>2. d[1] = h[13] /\ d[2] = h[14] /\ d[3] = h[15] /\ d[4] = h[16]
    <3>1. 13 \in Nat /\ 16 \in Nat /\ 1 <= 13 /\ 13 <= 16 + 1 /\ 16 <= Len(h) /\ (16 + 1) - 13 = 4
      BY <1>14
    <3>2. \A i \in 1..(16 + 1) - 13 : d[i] = h[(13 - 1) + i] BY <1>h, <3>1, PieceIs
    <3> HIDE DEF d
    <3>3. \A i \in 1..4 : d[i] = h[(13 - 1) + i] BY <3>1, <3>2
    <3> QED BY <3>3
  <2> HIDE DEF b, d
  <2>3. /\ C[1] = Shifted(f.ntp, 0) % 256 /\ C[2] = Shifted(f.ntp, 1) % 256
        /\ C[3] = Shifted(f.ntp, 2) % 256 /\ C[4] = Shifted(f.ntp, 3) % 256
        /\ C[5] = Shifted(f.ntp, 4) % 256 /\ C[6] = Shifted(f.ntp, 5) % 256
        /\ C[7] = Shifted(f.ntp, 6) % 256 /\ C[8] = Shifted(f.ntp, 7) % 256
    <3>1. /\ 1 - 1 = 0 /\ 2 - 1 = 1 /\ 3 - 1 = 2 /\ 4 - 1 = 3
          /\ 5 - 1 = 4 /\ 6 - 1 = 5 /\ 7 - 1 = 6 /\ 8 - 1 = 7
      OBVIOUS
    <3>2. 1 \in 1..8 /\ 2 \in 1..8 /\ 3 \in 1..8 /\ 4 \in 1..8 /\ 5 \in 1..8 /\ 6 \in 1..8
          /\ 7 \in 1..8 /\ 8 \in 1..8
      OBVIOUS
    <3> QED BY <1>2, <3>1, <3>2
  <2>4. e \in Nat /\ e = 0 /\ e + 1 = 1 /\ e + 2 = 2 /\ e + 3 = 3 /\ e + 4 = 4 OBVIOUS
  <2>5. g \in Nat /\ g = 4 /\ g + 1 = 5 /\ g + 2 = 6 /\ g + 3 = 7 /\ g + 4 = 8 OBVIOUS
  <2> HIDE DEF e, g
  <2>6. LittleEndian(b) = Shifted(f.ntp, e) - Past32(c4)
    <3>1. c4 = Shifted(f.ntp, e + 4) BY <1>13, <2>4
    <3>2. b[1] = Shifted(f.ntp, e) % 256 /\ b[2] = Shifted(f.ntp, e + 1) % 256
          /\ b[3] = Shifted(f.ntp, e + 2) % 256 /\ b[4] = Shifted(f.ntp, e + 3) % 256
      BY <1>11, <2>1, <2>3, <2>4
    <3>3. FourOf(b, f.ntp, e, c4) BY <3>1, <3>2 DEF FourOf
    <3>4. e \in Nat BY <2>4
    <3> QED BY <3>3, <3>4, LittleIs
  <2>7. LittleEndian(d) = Shifted(f.ntp, g) - Past32(c8)
    <3>1. c8 = Shifted(f.ntp, g + 4) BY <1>13, <2>5
    <3>2. d[1] = Shifted(f.ntp, g) % 256 /\ d[2] = Shifted(f.ntp, g + 1) % 256
          /\ d[3] = Shifted(f.ntp, g + 2) % 256 /\ d[4] = Shifted(f.ntp, g + 3) % 256
      BY <1>11, <2>2, <2>3, <2>5
    <3>3. FourOf(d, f.ntp, g, c8) BY <3>1, <3>2 DEF FourOf
    <3>4. g \in Nat BY <2>5
    <3> QED BY <3>3, <3>4, LittleIs
  <2>8. LittleEndian(b) = c0 - Past32(c4) BY <1>13, <2>4, <2>6
  <2>9. LittleEndian(d) = c4
    <3>1. Past32(c8) = 0 BY <1>13, NothingPast
    <3>2. Shifted(f.ntp, g) = c4 BY <1>13, <2>5
    <3>3. LittleEndian(d) = c4 - 0 BY <2>7, <3>1, <3>2
    <3> QED BY <3>3
  <2>10. Ntp(h) = LittleEndian(b) + 65536 * (65536 * LittleEndian(d)) BY DEF Ntp, b, d
  <2>11. LittleEndian(b) + 65536 * (65536 * c4) = c0 BY <1>13, <2>8, SMT DEF Past32
  <2> QED BY <1>13, <2>9, <2>10, <2>11
<1> QED BY <1>6, <1>9, <1>12, <1>15, <1>16

\* A NAL unit behind its length.
LEMMA UnitIs ==
  ASSUME NEW nal \in Seq(Byte), NEW k \in Nat, NEW n \in Nat, n = Len(nal)
  PROVE  /\ Big(n, k) \in Seq(Byte) /\ Len(Big(n, k)) = k
         /\ Unit(nal, k) \in Seq(Byte) /\ Len(Unit(nal, k)) = k + n
         /\ Lies(Unit(nal, k), 0, Big(n, k)) /\ Lies(Unit(nal, k), k, nal)
<1>2. PICK b : b = Big(n, k) OBVIOUS
<1>3. b \in Seq(Byte) /\ k = Len(b) BY <1>2, BigIs
<1>4. b \o nal \in Seq(Byte) /\ Len(b \o nal) = k + Len(nal) /\ Lies(b \o nal, 0, b)
      /\ Lies(b \o nal, k, nal)
  BY <1>3, LiesIn
<1> QED BY <1>2, <1>3, <1>4 DEF Unit

\* Its length.
LEMMA UnitLen ==
  ASSUME NEW nal \in Seq(Byte), NEW k \in Nat
  PROVE  Len(Unit(nal, k)) = k + Len(nal)
<1>1. PICK n \in Nat : n = Len(nal) BY LenProperties
<1>2. Len(Big(n, k)) = k /\ Len(Unit(nal, k)) = k + n BY Zenon, <1>1, UnitIs
<1> QED BY <1>1, <1>2

\* Two sequences of one.
LEMMA PairIs ==
  ASSUME NEW T, NEW a \in T, NEW b \in T
  PROVE  <<a>> \o <<b>> = <<a, b>>
<1> DEFINE x == <<a>>
           y == <<b>>
           z == <<a, b>>
<1>1. x \in Seq(T) /\ Len(x) = 1 /\ x[1] = a OBVIOUS
<1>2. y \in Seq(T) /\ Len(y) = 1 /\ y[1] = b OBVIOUS
<1>3. z \in Seq(T) /\ Len(z) = 2 /\ z[1] = a /\ z[2] = b OBVIOUS
<1> HIDE DEF x, y, z
<1>4. x \in Seq(T) /\ y \in Seq(T) BY <1>1, <1>2
<1>5. x \o y \in Seq(T) /\ Len(x \o y) = Len(x) + Len(y) BY <1>4, ConcatProperties
<1>6. \A i \in 1..Len(x) + Len(y) : (x \o y)[i] = IF i <= Len(x) THEN x[i] ELSE y[i - Len(x)]
  BY <1>4, ConcatProperties
<1> DEFINE w == x \o y
<1>7. w[1] = a /\ w[2] = b
  <2>1. 1 \in 1..Len(x) + Len(y) /\ 1 <= Len(x) BY <1>1, <1>2
  <2>2. 2 \in 1..Len(x) + Len(y) /\ ~(2 <= Len(x)) /\ 2 - Len(x) = 1 BY <1>1, <1>2
  <2>3. w[1] = x[1] BY <1>6, <2>1
  <2>4. w[2] = y[1] BY <1>6, <2>2
  <2> QED BY <1>1, <1>2, <2>3, <2>4
<1>8. w \in Seq(T) /\ Len(w) = 2 BY <1>1, <1>2, <1>5
<1> HIDE DEF w
<1>9. \A i \in 1..2 : w[i] = z[i] BY <1>3, <1>7
<1>10. w = z BY <1>3, <1>8, <1>9, SeqEqual
<1> QED BY <1>10 DEF w, x, y, z

\* Both parameter sets come back out of their record.
LEMMA SetsReturn ==
  ASSUME NEW n1 \in Seq(Byte), NEW n2 \in Seq(Byte), Short(n1), Short(n2),
         NEW p, p = SetsText(n1, n2)
  PROVE  p \in Seq(Byte) /\ p # <<>> /\ ParameterSets(p) = <<n1, n2>>
<1> DEFINE E == <<1, 100, 0, 32, 255, 225>>
           F == <<1>>
           U == Unit(n1, 2)
           V == Unit(n2, 2)
<1>1. PICK a \in Nat : a = Len(n1) /\ a # 0 /\ a < 65536 BY LenProperties, EmptySeq DEF Short
<1>2. PICK b \in Nat : b = Len(n2) /\ b # 0 /\ b < 65536 BY LenProperties, EmptySeq DEF Short
<1>3. a < 65536 /\ b < 65536 BY <1>1, <1>2
<1>4. /\ Len(Big(a, 2)) = 2 /\ Big(a, 2) \in Seq(Byte) /\ BigEndian(Big(a, 2)) = a
      /\ U \in Seq(Byte) /\ Len(U) = 2 + a /\ Lies(U, 0, Big(a, 2)) /\ Lies(U, 2, n1)
  <2>2. PICK k \in Nat : k = 2 OBVIOUS
  <2>3. /\ Big(a, k) \in Seq(Byte)
        /\ Unit(n1, k) \in Seq(Byte) /\ Len(Unit(n1, k)) = k + a
        /\ Lies(Unit(n1, k), 0, Big(a, k)) /\ Lies(Unit(n1, k), k, n1)
    <3>1. a \in Nat /\ a = Len(n1) BY <1>1
    <3>2. Big(a, k) \in Seq(Byte) /\ Unit(n1, k) \in Seq(Byte) BY <3>1, UnitIs
    <3>3. Len(Unit(n1, k)) = k + a BY Zenon, <3>1, UnitIs
    <3>4. Lies(Unit(n1, k), 0, Big(a, k)) /\ Lies(Unit(n1, k), k, n1) BY Zenon, <3>1, UnitIs
    <3> QED BY <3>2, <3>3, <3>4
  <2>4. a \in Nat /\ a < 65536 BY <1>3
  <2>5. Len(Big(a, 2)) = 2 /\ BigEndian(Big(a, 2)) = a BY <2>4, BigReturns2
  <2> QED BY <1>1, <2>2, <2>3, <2>5
<1>5. /\ Len(Big(b, 2)) = 2 /\ Big(b, 2) \in Seq(Byte) /\ BigEndian(Big(b, 2)) = b
      /\ V \in Seq(Byte) /\ Len(V) = 2 + b /\ Lies(V, 0, Big(b, 2)) /\ Lies(V, 2, n2)
  <2>2. PICK k \in Nat : k = 2 OBVIOUS
  <2>3. /\ Big(b, k) \in Seq(Byte)
        /\ Unit(n2, k) \in Seq(Byte) /\ Len(Unit(n2, k)) = k + b
        /\ Lies(Unit(n2, k), 0, Big(b, k)) /\ Lies(Unit(n2, k), k, n2)
    <3>1. b \in Nat /\ b = Len(n2) BY <1>2
    <3>2. Big(b, k) \in Seq(Byte) /\ Unit(n2, k) \in Seq(Byte) BY Zenon, <3>1, UnitIs
    <3>3. Len(Unit(n2, k)) = k + b BY Zenon, <3>1, UnitIs
    <3>4. Lies(Unit(n2, k), 0, Big(b, k)) /\ Lies(Unit(n2, k), k, n2) BY Zenon, <3>1, UnitIs
    <3> QED BY <3>2, <3>3, <3>4
  <2>4. b \in Nat /\ b < 65536 BY <1>3
  <2>5. Len(Big(b, 2)) = 2 /\ BigEndian(Big(b, 2)) = b BY <2>4, BigReturns2
  <2> QED BY <1>2, <2>2, <2>3, <2>5
<1>6. E \in Seq(Byte) /\ Len(E) = 6 /\ F \in Seq(Byte) /\ Len(F) = 1
  <2>1. 1 \in Byte /\ 100 \in Byte /\ 0 \in Byte /\ 32 \in Byte /\ 255 \in Byte /\ 225 \in Byte
    BY DEF Byte
  <2> QED BY <2>1
<1>7. p = ((E \o U) \o F) \o V BY DEF SetsText
<1> HIDE DEF E, F, U, V
<1> DEFINE G == E \o U
           H == G \o F
<1>8. G \in Seq(Byte) /\ Len(G) = 8 + a /\ Lies(G, 6, U)
  <2>1. PICK n : n = Len(E) OBVIOUS
  <2>2. E \in Seq(Byte) /\ U \in Seq(Byte) BY <1>4, <1>6
  <2>3. E \o U \in Seq(Byte) /\ Len(E \o U) = n + Len(U) /\ Lies(E \o U, n, U) BY <2>1, <2>2, LiesIn
  <2>4. n = 6 /\ Len(U) = 2 + a BY <1>4, <1>6, <2>1
  <2> HIDE DEF G
  <2>5. 6 + (2 + a) = 8 + a OBVIOUS
  <2> QED BY <2>3, <2>4, <2>5 DEF G
<1> HIDE DEF G
<1>9. H \in Seq(Byte) /\ Len(H) = 9 + a /\ Lies(H, 0, G)
  <2>1. PICK n : n = Len(G) OBVIOUS
  <2>2. G \in Seq(Byte) /\ F \in Seq(Byte) BY <1>6, <1>8
  <2>3. G \o F \in Seq(Byte) /\ Len(G \o F) = n + Len(F) /\ Lies(G \o F, 0, G) BY <2>1, <2>2, LiesIn
  <2>4. n + Len(F) = 9 + a BY <1>6, <1>8, <2>1
  <2> QED BY <2>3, <2>4
<1> HIDE DEF H
<1>10. PICK at \in Nat : at = 9 + a OBVIOUS
<1>11. p \in Seq(Byte) /\ Len(p) = (at + 2) + b /\ Lies(p, 0, H) /\ Lies(p, at, V)
  <2>1. at = Len(H) BY <1>9, <1>10
  <2>2. H \in Seq(Byte) /\ V \in Seq(Byte) BY <1>5, <1>9
  <2>3. p = H \o V BY <1>7 DEF G, H
  <2>4. H \o V \in Seq(Byte) /\ Len(H \o V) = at + Len(V) /\ Lies(H \o V, 0, H)
        /\ Lies(H \o V, at, V)
    BY <2>1, <2>2, LiesIn
  <2>5. at + Len(V) = (at + 2) + b BY <1>5
  <2> QED BY <2>3, <2>4, <2>5
<1>12. Lies(p, 6, Big(a, 2)) /\ Lies(p, 8, n1)
  <2>1. p \in Seq(Byte) /\ H \in Seq(Byte) /\ G \in Seq(Byte) /\ U \in Seq(Byte)
        /\ Big(a, 2) \in Seq(Byte)
    BY <1>4, <1>8, <1>9, <1>11
  <2>2. Lies(p, 0, H) /\ Lies(H, 0, G) /\ Lies(G, 6, U) /\ Lies(U, 0, Big(a, 2)) /\ Lies(U, 2, n1)
    BY <1>4, <1>8, <1>9, <1>11
  <2>3. 0 = 0 + 0 /\ 6 = 0 + 6 /\ 6 = 6 + 0 /\ 8 = 6 + 2 OBVIOUS
  <2>4. Lies(p, 0, G) BY <2>1, <2>2, <2>3, LiesDeep
  <2>5. Lies(p, 6, U) BY <2>1, <2>2, <2>3, <2>4, LiesDeep
  <2>6. Lies(p, 6, Big(a, 2)) BY <2>1, <2>2, <2>3, <2>5, LiesDeep
  <2>7. Lies(p, 8, n1) BY <2>1, <2>2, <2>3, <2>5, LiesDeep
  <2> QED BY <2>6, <2>7
<1>13. PICK c \in Nat : c = at + 2 OBVIOUS
<1>14. Lies(p, at, Big(b, 2)) /\ Lies(p, c, n2)
  <2>1. p \in Seq(Byte) /\ V \in Seq(Byte) /\ Big(b, 2) \in Seq(Byte) BY <1>5, <1>11
  <2>2. Lies(p, at, V) /\ Lies(V, 0, Big(b, 2)) /\ Lies(V, 2, n2) BY <1>5, <1>11
  <2>3. at = at + 0 BY <1>10
  <2>4. Lies(p, at, Big(b, 2)) BY <2>1, <2>2, <2>3, LiesDeep
  <2>5. Lies(p, c, n2) BY <1>13, <2>1, <2>2, LiesDeep
  <2> QED BY <2>4, <2>5
<1> DEFINE w == SubSeq(p, 7, 8)
           x == SubSeq(p, 9, 8 + a)
           y == SubSeq(p, at + 1, at + 2)
           z == SubSeq(p, at + 3, at + 2 + b)
<1>15. w = Big(a, 2)
  <2>1. p \in Seq(Byte) /\ Big(a, 2) \in Seq(Byte) /\ Lies(p, 6, Big(a, 2)) BY <1>4, <1>11, <1>12
  <2>2. Len(Big(a, 2)) = 2 BY <1>4
  <2>3. 7 = 6 + 1 /\ 8 = 6 + 2 OBVIOUS
  <2>4. PICK t : t = Big(a, 2) OBVIOUS
  <2>5. PICK l : l = Len(t) OBVIOUS
  <2>6. 8 = 6 + l BY <2>2, <2>3, <2>4, <2>5
  <2>7. t \in Seq(Byte) /\ Lies(p, 6, t) BY <2>1, <2>4
  <2>8. SubSeq(p, 7, 8) = t BY <2>1, <2>3, <2>5, <2>6, <2>7, LiesCut
  <2> QED BY <2>4, <2>8
<1>16. x = n1
  <2>1. p \in Seq(Byte) /\ Lies(p, 8, n1) BY <1>11, <1>12
  <2>2. 9 = 8 + 1 OBVIOUS
  <2>3. PICK n : n = 8 + Len(n1) OBVIOUS
  <2>4. SubSeq(p, 9, n) = n1 BY <2>1, <2>2, <2>3, LiesCut
  <2> QED BY <1>1, <2>3, <2>4
<1>17. y = Big(b, 2)
  <2>1. p \in Seq(Byte) /\ Big(b, 2) \in Seq(Byte) /\ Lies(p, at, Big(b, 2)) BY <1>5, <1>11, <1>14
  <2>2. PICK m : m = at + 1 OBVIOUS
  <2>3. PICK n : n = at + 2 OBVIOUS
  <2>4. n = at + Len(Big(b, 2)) BY <1>5, <2>3
  <2>5. SubSeq(p, m, n) = Big(b, 2) BY <2>1, <2>2, <2>4, LiesCut
  <2> QED BY <2>2, <2>3, <2>5
<1>18. z = n2
  <2>1. p \in Seq(Byte) /\ Lies(p, c, n2) BY <1>11, <1>14
  <2>2. PICK m : m = c + 1 OBVIOUS
  <2>3. PICK n : n = c + Len(n2) OBVIOUS
  <2>4. SubSeq(p, m, n) = n2 BY <2>1, <2>2, <2>3, LiesCut
  <2>5. m = at + 3 /\ n = at + 2 + b BY <1>2, <1>13, <2>2, <2>3
  <2> QED BY <2>4, <2>5
<1> HIDE DEF w, x, y, z
<1> DEFINE sps == BigEndian(w)
           pps == IF at + 2 <= Len(p) THEN BigEndian(y) ELSE 0
<1>19. sps = a /\ pps = b
  <2>1. at + 2 <= Len(p) BY <1>11
  <2> QED BY <1>4, <1>5, <1>15, <1>17, <2>1
<1>20. ParameterSets(p) = <<x>> \o <<z>>
  <2>1. 9 + BigEndian(SubSeq(p, 7, 8)) = at BY <1>10, <1>19 DEF w
  <2>2. BigEndian(SubSeq(p, 7, 8)) = a BY <1>19 DEF w
  <2>3. (IF at + 2 <= Len(p) THEN BigEndian(SubSeq(p, at + 1, at + 2)) ELSE 0) = b BY <1>19 DEF y
  <2>4. ~(Len(p) < 8) /\ ~(a = 0 \/ 8 + a + 3 > Len(p)) /\ b > 0 /\ at + 2 + b <= Len(p)
    <3>1. Len(p) = (at + 2) + b BY <1>11
    <3>2. a # 0 /\ b # 0 BY <1>1, <1>2
    <3> QED BY <1>10, <3>1, <3>2
  <2>5. SubSeq(p, 9, 8 + a) = x /\ SubSeq(p, at + 3, at + 2 + b) = z BY DEF x, z
  <2> QED BY Zenon, <2>1, <2>2, <2>3, <2>4, <2>5 DEF ParameterSets
<1>21. <<x>> \o <<z>> = <<n1, n2>>
  <2>1. <<n1>> \o <<n2>> = <<n1, n2>> BY PairIs
  <2> QED BY <1>16, <1>18, <2>1
<1>22. p # <<>> BY <1>11, EmptySeq
<1> QED BY <1>11, <1>20, <1>21, <1>22

\* One turn of the loop over NAL units, with one of them at its place.
LEMMA NextUnitIs ==
  ASSUME NEW plain \in Seq(Byte), NEW o \in Nat, NEW nal \in Seq(Byte), NEW e \in Nat,
         UnitAt(plain, o, nal, e), NEW s, s.off = o
  PROVE  NextUnit(s, plain) = [off |-> e, nals |-> Append(s.nals, nal)]
<1>a. PICK len \in Nat : len = Len(nal) BY LenProperties
<1>b. Word32(len) /\ e = (o + 4) + len /\ nal # <<>> BY <1>a DEF UnitAt
<1>c. PICK u : u = Unit(nal, 4) OBVIOUS
<1>d. Lies(plain, o, u) BY <1>c DEF UnitAt
<1> USE <1>a, <1>b, <1>c, <1>d
<1>1. PICK k \in Nat : k = 4 OBVIOUS
<1>2. PICK b : b = Big(len, k) OBVIOUS
<1>3. b \in Seq(Byte) /\ Len(b) = 4 /\ BigEndian(b) = len
  <2>1. b = Big(len, 4) BY <1>1, <1>2
  <2>2. Len(Big(len, 4)) = 4 /\ BigEndian(Big(len, 4)) = len BY BigReturns4
  <2>3. Big(len, k) \in Seq(Byte) BY BigIs
  <2> QED BY <1>2, <2>1, <2>2, <2>3
<1>4. u \in Seq(Byte) /\ Len(u) = 4 + len /\ Lies(u, 0, b) /\ Lies(u, 4, nal)
  <2>1. u = Unit(nal, k) BY <1>1
  <2>2. Unit(nal, k) \in Seq(Byte) BY UnitIs
  <2>3. Len(Unit(nal, k)) = k + len BY UnitLen
  <2>4. Lies(Unit(nal, k), 0, Big(len, k)) /\ Lies(Unit(nal, k), k, nal) BY UnitIs
  <2> QED BY <1>1, <1>2, <2>1, <2>2, <2>3, <2>4
<1>5. PICK q \in Nat : q = o + 4 OBVIOUS
<1>6. Lies(plain, o, b)
  <2>1. 0 \in Nat /\ o = o + 0 OBVIOUS
  <2>2. u \in Seq(Byte) /\ b \in Seq(Byte) /\ Lies(u, 0, b) BY <1>3, <1>4
  <2> QED BY <2>1, <2>2, LiesDeep
<1>7. Lies(plain, q, nal)
  <2>1. PICK h \in Nat : h = 4 OBVIOUS
  <2>2. u \in Seq(Byte) /\ Lies(u, h, nal) /\ q = o + h BY <1>4, <1>5, <2>1
  <2> QED BY <2>2, LiesDeep
<1>8. e <= Len(plain)
  <2>1. q + Len(nal) <= Len(plain) BY <1>7 DEF Lies
  <2> QED BY <1>5, <2>1
<1>9. SubSeq(plain, o + 1, o + 4) = b
  <2>1. PICK x \in Nat : x = o + 1 OBVIOUS
  <2>2. q = o + Len(b) BY <1>3, <1>5
  <2>3. b \in Seq(Byte) BY <1>3
  <2>4. SubSeq(plain, x, q) = b BY <1>6, <2>1, <2>2, <2>3, LiesCut
  <2> QED BY <1>5, <2>1, <2>4
<1>10. SubSeq(plain, o + 5, o + 4 + len) = nal
  <2>1. PICK x \in Nat : x = q + 1 BY <1>5
  <2>2. PICK n \in Nat : n = q + len BY <1>5
  <2>3. n = q + Len(nal) BY <2>2
  <2>4. SubSeq(plain, x, n) = nal BY <1>7, <2>1, <2>3, LiesCut
  <2>5. x = o + 5 /\ n = o + 4 + len BY <1>5, <2>1, <2>2
  <2> QED BY <2>4, <2>5
<1>11. len # 0 BY EmptySeq
<1>12. ~(o + 4 > Len(plain)) /\ ~(len = 0 \/ o + 4 + len > Len(plain)) /\ o + 4 + len = e
  <2>1. Len(plain) \in Nat BY LenProperties
  <2> QED BY <1>8, <1>11, <2>1
<1>13. NextUnit(s, plain)
       = [off |-> o + 4 + len, nals |-> Append(s.nals, SubSeq(plain, o + 5, o + 4 + len))]
  <2>1. BigEndian(SubSeq(plain, o + 1, o + 4)) = len BY <1>3, <1>9
  <2> QED BY Zenon, <1>12, <2>1 DEF NextUnit
<1>14. NextUnit(s, plain) = [off |-> e, nals |-> Append(s.nals, nal)]
  <2>1. o + 4 + len = e BY <1>12
  <2> QED BY <1>10, <1>13, <2>1
<1> QED BY <1>14

\* All NAL units come back, in their order (the loop of deliver_payload_ in video_rtp.cpp).
LEMMA NalsReturn ==
  ASSUME NEW nals \in Seq(Seq(Byte)), \A i \in 1..Len(nals) : nals[i] # <<>>,
         NEW plain, plain = Joined(Units(nals), Len(nals)), Len(plain) <= MaxPayload
  PROVE  plain \in Seq(Byte) /\ NalUnits(plain) = nals /\ (nals # <<>> => plain # <<>>)
<1> DEFINE J(i) == Len(Joined(Units(nals), i))
<1>1. PICK n \in Nat : n = Len(nals) /\ DOMAIN nals = 1..n /\ \A i \in 1..n : nals[i] \in Seq(Byte)
  BY LenProperties
<1>2. ASSUME NEW i \in 1..n PROVE Units(nals)[i] = Unit(nals[i], 4) /\ Units(nals)[i] \in Seq(Byte)
  <2>1. Units(nals)[i] = Unit(nals[i], 4) BY <1>1 DEF Units
  <2>2. PICK k \in Nat : k = 4 OBVIOUS
  <2>3. nals[i] \in Seq(Byte) BY <1>1
  <2>4. PICK l \in Nat : l = Len(nals[i]) BY <2>3, LenProperties
  <2>5. Unit(nals[i], k) \in Seq(Byte) BY <2>3, <2>4, UnitIs
  <2> QED BY <2>1, <2>2, <2>5
<1>3. plain = Joined(Units(nals), n) /\ J(n) = Len(plain) BY <1>1
<1>4. ASSUME NEW i \in 1..n
      PROVE  /\ plain \in Seq(Byte) /\ Lies(plain, J(i - 1), Units(nals)[i])
             /\ J(i) = J(i - 1) + Len(Units(nals)[i]) /\ J(i) <= J(n)
  BY ZenonT(30), <1>2, <1>3, JoinedPart
<1>5. plain \in Seq(Byte)
  <2>1. PICK x \in 0..n : x = n OBVIOUS
  <2>2. Joined(Units(nals), x) \in Seq(Byte) BY Zenon, <1>2, JoinedIs
  <2> QED BY <1>3, <2>1, <2>2
<1>6. \A i \in 0..n : J(i) \in Nat
  <2> TAKE i \in 0..n
  <2>1. Joined(Units(nals), i) \in Seq(Byte) BY <1>2, JoinedIs
  <2> QED BY <2>1, LenProperties
<1>7. J(0) = 0
  <2>1. Joined(Units(nals), 0) = <<>> BY Zenon, JoinedLaw
  <2> QED BY <2>1, EmptySeq
<1> HIDE DEF J
<1>8. PICK N \in Nat : N = Len(plain) \div 5 BY <1>5, LenProperties
<1>9. PICK t : /\ t[0] = [off |-> 0, nals |-> <<>>]
               /\ \A i \in 1..N : t[i] = NextUnit(t[i - 1], plain)
               /\ NalUnits(plain) = t[N].nals
  <2>1. Len(plain) \div 5 \in Nat BY <1>8
  <2> QED BY <1>8, <2>1, NalTurns
<1>10. ASSUME NEW i \in Nat, NEW j \in Nat, j = i + 1, j \in 1..n, NEW s, s.off = J(i)
       PROVE  /\ J(j) >= J(i) + 5
              /\ NextUnit(s, plain) = [off |-> J(j), nals |-> Append(s.nals, nals[j])]
  <2>1. j - 1 = i BY <1>10
  <2>2. PICK o \in Nat : o = J(i)
    <3>1. i \in 0..n BY <1>10
    <3> QED BY <1>6, <3>1
  <2>3. PICK u : u = Units(nals)[j] OBVIOUS
  <2>4. u = Unit(nals[j], 4) /\ nals[j] \in Seq(Byte) /\ nals[j] # <<>> BY <1>1, <1>2, <1>10, <2>3
  <2>5. PICK len \in Nat : len = Len(nals[j]) BY <2>4, LenProperties
  <2>6. Lies(plain, o, u) /\ J(j) = o + Len(u) /\ J(j) <= J(n) BY <1>4, <1>10, <2>1, <2>2, <2>3
  <2>7. Len(u) = 4 + len
    <3>1. PICK k \in Nat : k = 4 OBVIOUS
    <3>2. Len(Unit(nals[j], k)) = k + len BY ZenonT(30), <2>4, <2>5, UnitIs
    <3> QED BY <2>4, <3>1, <3>2
  <2>8. PICK e \in Nat : e = (o + 4) + len OBVIOUS
  <2>9. J(j) = e BY <2>6, <2>7, <2>8
  <2>10. Word32(len)
    <3>1. J(n) <= 8 * 1024 * 1024 BY <1>3 DEF MaxPayload
    <3>2. n \in 0..n OBVIOUS
    <3>3. J(n) \in Nat BY <1>6, <3>2
    <3> QED BY <2>6, <2>8, <2>9, <3>1, <3>3, SMT DEF Word32
  <2>11. s.off = o BY <1>10, <2>2
  <2>12. e >= o + 5 /\ NextUnit(s, plain) = [off |-> e, nals |-> Append(s.nals, nals[j])]
    <3>1. PICK nal \in Seq(Byte) : nal = nals[j] /\ nal # <<>> /\ u = Unit(nal, 4) BY <2>4
    <3>2. len = Len(nal) BY <2>5, <3>1
    <3>3. Word32(Len(nal)) /\ Lies(plain, o, Unit(nal, 4)) BY <2>6, <2>10, <3>1, <3>2
    <3>4. NextUnit(s, plain) = [off |-> e, nals |-> Append(s.nals, nal)]
      <4>1. e = (o + 4) + Len(nal) BY <2>8, <3>2
      <4>2. UnitAt(plain, o, nal, e) BY <3>1, <3>3, <4>1 DEF UnitAt
      <4> QED BY <1>5, <2>11, <4>2, NextUnitIs
    <3>5. len # 0 BY <3>1, <3>2, EmptySeq
    <3>6. e >= o + 5 BY <2>8, <3>5
    <3> QED BY <3>1, <3>4, <3>6
  <2> QED BY <2>2, <2>9, <2>12
<1>11. n <= N
  <2> DEFINE S == {i \in Nat : i <= n => 5 * i <= J(i)}
  <2>1. 0 \in S BY <1>7
  <2>2. ASSUME NEW i \in Nat, i \in S PROVE i + 1 \in S
    <3> SUFFICES ASSUME i + 1 <= n PROVE 5 * (i + 1) <= J(i + 1) OBVIOUS
    <3>1. PICK j \in Nat : j = i + 1 OBVIOUS
    <3>2. PICK o \in Nat : o = J(i) /\ 5 * i <= o
      <4>1. i \in 0..n OBVIOUS
      <4> QED BY <1>6, <2>2, <4>1
    <3>3. PICK s : s = [off |-> J(i), nals |-> <<>>] OBVIOUS
    <3>4. s.off = J(i) BY <3>3
    <3>5. J(j) >= J(i) + 5 BY <1>10, <3>1, <3>4
    <3>6. J(j) \in Nat
      <4>1. j \in 0..n BY <3>1
      <4> QED BY <1>6, <4>1
    <3> QED BY <3>1, <3>2, <3>5, <3>6
  <2> HIDE DEF S
  <2>3. n \in S BY <2>1, <2>2, SetInduction
  <2>4. 5 * n <= J(n) BY <2>3 DEF S
  <2>5. PICK l \in Nat : l = Len(plain) BY <1>5, LenProperties
  <2>6. 5 * n <= l BY <1>3, <2>4, <2>5
  <2>7. n <= l \div 5 BY <2>6
  <2> QED BY <1>8, <2>5, <2>7
<1> DEFINE Good(i) == IF i <= n THEN t[i].off = J(i) /\ t[i].nals = SubSeq(nals, 1, i)
                      ELSE t[i].off = J(n) /\ t[i].nals = nals
           S == {i \in Nat : i <= N => Good(i)}
<1>12. SubSeq(nals, 1, n) = nals BY <1>1, SubSeqFull
<1>13. 0 \in S
  <2>1. SubSeq(nals, 1, 0) = <<>> BY SubSeqEmpty
  <2>2. t[0].off = 0 /\ t[0].nals = <<>> BY <1>9
  <2>3. 0 <= n OBVIOUS
  <2>4. Good(0) BY <1>7, <2>1, <2>2, <2>3
  <2> HIDE DEF Good
  <2> QED BY <2>4
<1>14. ASSUME NEW i \in Nat, i \in S PROVE i + 1 \in S
  <2> SUFFICES ASSUME i + 1 <= N PROVE Good(i + 1) OBVIOUS
  <2>1. PICK j \in Nat : j = i + 1 /\ j - 1 = i /\ j \in 1..N OBVIOUS
  <2>2. t[j] = NextUnit(t[i], plain) BY <1>9, <2>1
  <2>3. Good(i) BY <1>14
  <2>4. CASE j <= n
    <3>1. t[i].off = J(i) /\ t[i].nals = SubSeq(nals, 1, i) BY <2>1, <2>3, <2>4
    <3>2. j \in 1..n BY <2>1, <2>4
    <3>3. t[j] = [off |-> J(j), nals |-> Append(SubSeq(nals, 1, i), nals[j])]
      <4>1. PICK s : s = t[i] OBVIOUS
      <4>2. s.off = J(i) BY <3>1, <4>1
      <4>3. NextUnit(s, plain) = [off |-> J(j), nals |-> Append(s.nals, nals[j])]
        BY <1>10, <2>1, <3>2, <4>2
      <4> QED BY <2>2, <3>1, <4>1, <4>3
    <3>4. Append(SubSeq(nals, 1, i), nals[j]) = SubSeq(nals, 1, j)
      <4>1. 1 \in 1..Len(nals) + 1 /\ j \in 1..Len(nals) BY <1>1, <3>2
      <4>2. SubSeq(nals, 1, j) = Append(SubSeq(nals, 1, j - 1), nals[j])
        BY <4>1, SubSeqRecursiveSecond
      <4> QED BY <2>1, <4>2
    <3> HIDE DEF Good
    <3>5. t[j].off = J(j) /\ t[j].nals = SubSeq(nals, 1, j) BY <3>3, <3>4
    <3> QED BY <2>1, <2>4, <3>5 DEF Good
  <2>5. CASE ~(j <= n)
    <3>1. t[i].off = J(n) /\ t[i].nals = nals
      <4>1. CASE i <= n
        <5>1. i = n BY <2>1, <2>5, <4>1
        <5> QED BY <1>12, <2>3, <5>1
      <4>2. CASE ~(i <= n) BY <2>3, <4>2
      <4> QED BY <4>1, <4>2
    <3>2. t[i].off + 4 > Len(plain)
      <4>1. Len(plain) \in Nat BY <1>5, LenProperties
      <4>2. t[i].off = Len(plain) BY <1>3, <3>1
      <4>3. Len(plain) + 4 > Len(plain) BY <4>1
      <4> QED BY <4>2, <4>3
    <3>3. t[j] = t[i] BY <2>2, <3>2 DEF NextUnit
    <3> HIDE DEF Good
    <3>4. t[j].off = J(n) /\ t[j].nals = nals BY <3>1, <3>3
    <3> QED BY <2>1, <2>5, <3>4 DEF Good
  <2> QED BY <2>4, <2>5
<1> HIDE DEF S
<1>15. N \in S BY <1>13, <1>14, SetInduction
<1>16. Good(N) BY <1>15 DEF S
<1>17. t[N].nals = nals
  <2>1. CASE N = n BY <1>12, <1>16, <2>1
  <2>2. CASE N # n
    <3>1. ~(N <= n) BY <1>11, <2>2
    <3> QED BY <1>16, <3>1
  <2> QED BY <2>1, <2>2
<1>18. ASSUME nals # <<>> PROVE plain # <<>>
  <2>1. n # 0 BY <1>1, <1>18, EmptySeq
  <2>2. PICK i \in Nat : i + 1 = n
    <3>1. n - 1 \in Nat /\ (n - 1) + 1 = n BY <2>1
    <3> QED BY <3>1
  <2>3. PICK s : s = [off |-> J(i), nals |-> <<>>] OBVIOUS
  <2>4. s.off = J(i) BY <2>3
  <2>5. n \in 1..n /\ n = i + 1 /\ i \in 0..n BY <2>1, <2>2
  <2>6. J(n) >= J(i) + 5 BY <1>10, <2>4, <2>5
  <2>7. J(i) \in Nat BY <1>6, <2>5
  <2>8. Len(plain) # 0 BY <1>3, <2>6, <2>7
  <2> QED BY <2>8, EmptySeq
<1> QED BY <1>5, <1>9, <1>17, <1>18

-----------------------------------------------------------------------------
(* The frames of the screen. *)

\* What a frame is before its pictures are masked.
LEMMA PlainIs ==
  ASSUME NEW codec, NEW f, WellFormedFrame(codec, f)
  PROVE  /\ Plain(f) \in Seq(Byte) /\ Len(Plain(f)) <= MaxPayload
         /\ f.nals = <<>> => Plain(f) = <<>>
         /\ f.nals # <<>> => Plain(f) # <<>>
         /\ f.type # 1 => NalUnits(Plain(f)) = f.nals
         /\ f.type = 1 => ParameterSets(Plain(f)) = f.nals
<1> DEFINE nals == f.nals
           p == Plain(f)
<1>1. nals \in Seq(Seq(Byte)) /\ (\A i \in DOMAIN nals : nals[i] # <<>>) /\ Len(p) <= MaxPayload
  BY DEF WellFormedFrame
<1>2. DOMAIN nals = 1..Len(nals) /\ Len(nals) \in Nat
      /\ \A i \in 1..Len(nals) : nals[i] \in Seq(Byte)
  BY <1>1, LenProperties, ElementOfSeq
<1>3. CASE f.type = 1
  <2>1. Len(nals) = 2 /\ \A i \in 1..2 : Len(nals[i]) < 65536 BY <1>3 DEF WellFormedFrame
  <2>2. 1 \in 1..2 /\ 2 \in 1..2 OBVIOUS
  <2> DEFINE a == nals[1]
             b == nals[2]
  <2>3. a \in Seq(Byte) /\ b \in Seq(Byte) /\ a # <<>> /\ b # <<>> /\ Len(a) < 65536
        /\ Len(b) < 65536
    BY <1>1, <1>2, <2>1, <2>2
  <2>4. p = SetsText(a, b) BY <1>3 DEF Plain, SetsText
  <2>5. nals = <<a, b>>
    <3>1. <<a, b>> \in Seq(Seq(Byte)) /\ Len(<<a, b>>) = 2 BY <2>3
    <3>2. <<a, b>>[1] = a /\ <<a, b>>[2] = b OBVIOUS
    <3>3. \A i \in 1..2 : i = 1 \/ i = 2 OBVIOUS
    <3>4. \A i \in 1..2 : nals[i] = <<a, b>>[i] BY <3>2, <3>3
    <3> QED BY <1>1, <2>1, <3>1, <3>4, SeqEqual
  <2> HIDE DEF nals, p, a, b
  <2>6. Short(a) /\ Short(b) BY <2>3 DEF Short
  <2>7. p \in Seq(Byte) /\ p # <<>> /\ ParameterSets(p) = <<a, b>> BY <2>3, <2>4, <2>6, SetsReturn
  <2>8. nals # <<>> BY <2>1, EmptySeq
  <2> QED BY <1>1, <1>3, <2>5, <2>7, <2>8 DEF nals, p
<1>4. CASE f.type # 1
  <2>1. p = Joined(Units(nals), Len(nals)) BY <1>4 DEF Plain, Units
  <2> HIDE DEF nals, p
  <2>2. \A i \in 1..Len(nals) : nals[i] # <<>> BY <1>1, <1>2
  <2>3. p \in Seq(Byte) /\ NalUnits(p) = nals /\ (nals # <<>> => p # <<>>)
    BY <1>1, <2>1, <2>2, NalsReturn
  <2>4. nals = <<>> => p = <<>>
    <3> HAVE nals = <<>>
    <3>1. Len(nals) = 0 BY EmptySeq
    <3>2. Joined(Units(nals), 0) = <<>> BY JoinedLaw
    <3> QED BY <2>1, <3>1, <3>2
  <2> QED BY <1>1, <1>4, <2>3, <2>4 DEF nals, p
<1> QED BY <1>3, <1>4

\* With start codes they are bytes.
LEMMA AnnexBIs ==
  ASSUME NEW nals \in Seq(Seq(Byte))
  PROVE  AnnexB(nals) \in Seq(Byte)
<1>1. DOMAIN nals = 1..Len(nals) /\ Len(nals) \in Nat
      /\ \A i \in 1..Len(nals) : nals[i] \in Seq(Byte)
  BY LenProperties, ElementOfSeq
<1>2. StartCode \in Seq(Byte) BY DEF StartCode, Byte
<1> DEFINE parts == [i \in DOMAIN nals |-> StartCode \o nals[i]]
           n == Len(nals)
<1>3. \A i \in 1..n : parts[i] \in Seq(Byte) BY <1>1, <1>2, ConcatProperties
<1>4. n \in Nat /\ n \in 0..n BY <1>1
<1>5. AnnexB(nals) = Joined(parts, n) BY DEF AnnexB
<1> HIDE DEF parts, n
<1> QED BY Zenon, <1>3, <1>4, <1>5, JoinedIs

-----------------------------------------------------------------------------
(* The frames called back. *)

\* Nothing was called back.
LEMMA SeenNothing ==
  ASSUME NEW j
  PROVE  Seen(j, 0, <<>>, 0, 0)
<1>1. Shown(j.frames, 0) = <<>> BY ShownLaw
<1>2. <<>> \in Seq(1..0) /\ <<>> \in Seq(CallBacks(j.codec)) /\ Len(<<>>) = 0 BY EmptySeq
<1>3. 1..0 = {} OBVIOUS
<1> QED BY <1>1, <1>2, <1>3 DEF Seen

\* A frame that is not for the screen.
LEMMA SeenSame ==
  ASSUME NEW j, NEW n \in Nat \ {0}, j.frames[n].type \notin {0, 1},
         NEW frames, NEW base, NEW first, Seen(j, n - 1, frames, base, first)
  PROVE  Seen(j, n, frames, base, first)
<1> DEFINE s == Shown(j.frames, n)
<1>1. s = Shown(j.frames, n - 1) BY ShownLaw
<1>2. s \in Seq(1..(n - 1)) BY <1>1 DEF Seen
<1>3. 1..(n - 1) \subseteq 1..n OBVIOUS
<1>4. s \in Seq(1..n) BY <1>2, <1>3, SeqMonotonic
<1> QED BY <1>1, <1>4 DEF Seen

\* One frame called back more.  The first picture sets the clock.
LEMMA SeenMore ==
  ASSUME NEW j, NEW n \in Nat \ {0}, j.frames[n].type \in {0, 1}, j.frames[n].ntp \in Nat,
         NEW frames, NEW base, NEW first, Seen(j, n - 1, frames, base, first),
         NEW base2 \in Nat, NEW first2 \in Nat, NEW e \in CallBacks(j.codec),
         Told(e, j.frames[n], base2, first2),
         \/ base2 = base /\ first2 = first /\ (base = 0 => j.frames[n].type # 0)
         \/ base = 0 /\ base2 # 0 /\ j.frames[n].type = 0 /\ first2 = j.frames[n].ntp
  PROVE  Seen(j, n, Append(frames, e), base2, first2)
<1> DEFINE fs == j.frames
           s == Shown(fs, n - 1)
           t == Shown(fs, n)
           g == Append(frames, e)
           L == Len(s)
<1>1. t = Append(s, n) BY ShownLaw
<1>2. /\ s \in Seq(1..(n - 1)) /\ frames \in Seq(CallBacks(j.codec)) /\ Len(frames) = Len(s)
      /\ base \in Nat /\ first \in Nat
      /\ \A k \in 1..Len(s) : Told(frames[k], j.frames[s[k]], base, first)
      /\ base = 0 => \A k \in 1..Len(s) : fs[s[k]].type # 0
      /\ base # 0 => \E q \in 1..Len(s) : FirstPicture(fs, s, q, first)
  BY DEF Seen
<1>3. s \in Seq(1..n) /\ n \in 1..n
  <2>1. 1..(n - 1) \subseteq 1..n /\ n \in 1..n OBVIOUS
  <2> QED BY <1>2, <2>1, SeqMonotonic
<1> HIDE DEF s, t, g
<1>4. L \in Nat BY <1>3, LenProperties
<1>5. /\ t \in Seq(1..n) /\ Len(t) = L + 1 /\ t[L + 1] = n
      /\ \A k \in 1..L : t[k] = s[k]
  <2>1. \A k \in 1..Len(s) : Append(s, n)[k] = s[k] BY <1>3, AppendProperties
  <2>2. Append(s, n) \in Seq(1..n) /\ Len(Append(s, n)) = Len(s) + 1 /\ Append(s, n)[Len(s) + 1] = n
    BY <1>3, AppendProperties
  <2> QED BY <1>1, <2>1, <2>2
<1>6. /\ g \in Seq(CallBacks(j.codec)) /\ Len(g) = L + 1 /\ g[L + 1] = e
      /\ \A k \in 1..L : g[k] = frames[k]
  <2> DEFINE C == CallBacks(j.codec)
  <2>0. frames \in Seq(C) /\ e \in C BY <1>2
  <2> HIDE DEF C
  <2>1. \A k \in 1..Len(frames) : Append(frames, e)[k] = frames[k] BY <2>0, AppendProperties
  <2>2. Append(frames, e) \in Seq(C) /\ Len(Append(frames, e)) = Len(frames) + 1
        /\ Append(frames, e)[Len(frames) + 1] = e
    BY <2>0, AppendProperties
  <2> QED BY <1>2, <2>1, <2>2 DEF g, C
<1> HIDE DEF L
<1>7. \A k \in 1..(L + 1) : k \in 1..L \/ k = L + 1 BY <1>4
<1>8. ASSUME NEW k \in 1..(L + 1) PROVE Told(g[k], fs[t[k]], base2, first2)
  <2>1. CASE k = L + 1
    <3>1. g[k] = e /\ t[k] = n BY <1>5, <1>6, <2>1
    <3> QED BY <3>1
  <2>2. CASE k \in 1..L
    <3>1. g[k] = frames[k] /\ t[k] = s[k] BY <1>5, <1>6, <2>2
    <3>2. Told(frames[k], fs[s[k]], base, first) BY <1>2, <2>2 DEF L
    <3>3. CASE base2 = base /\ first2 = first BY <3>1, <3>2, <3>3
    <3>4. CASE base = 0
      <4>1. fs[s[k]].type # 0 BY <1>2, <2>2, <3>4 DEF L
      <4>2. FrameAgrees(frames[k], fs[s[k]]) BY <3>2 DEF Told
      <4>3. FrameAgrees(g[k], fs[t[k]]) /\ fs[t[k]].type # 0 BY <3>1, <4>1, <4>2
      <4> QED BY <4>3 DEF Told
    <3> QED BY <3>3, <3>4
  <2> QED BY <1>7, <2>1, <2>2
<1>9. ASSUME base2 = 0, NEW k \in 1..(L + 1) PROVE fs[t[k]].type # 0
  <2>1. base = 0 /\ fs[n].type # 0 BY <1>9
  <2>2. CASE k = L + 1 BY <1>5, <2>1, <2>2
  <2>3. CASE k \in 1..L BY Zenon, <1>2, <1>5, <2>1, <2>3 DEF L
  <2> QED BY <1>7, <2>2, <2>3
<1>10. ASSUME base2 # 0 PROVE \E q \in 1..(L + 1) : FirstPicture(fs, t, q, first2)
  <2>1. CASE base2 = base /\ first2 = first
    <3>1. PICK q \in 1..L : FirstPicture(fs, s, q, first) BY <1>2, <1>10, <2>1 DEF L
    <3>2. q \in 1..(L + 1) /\ t[q] = s[q] BY <1>4, <1>5
    <3>3. \A m \in 1..(q - 1) : t[m] = s[m] BY <1>4, <1>5
    <3>4. FirstPicture(fs, t, q, first2) BY <2>1, <3>1, <3>2, <3>3 DEF FirstPicture
    <3> QED BY <3>2, <3>4
  <2>2. CASE base = 0 /\ fs[n].type = 0 /\ first2 = fs[n].ntp
    <3>1. PICK q \in Nat : q = L + 1 BY <1>4
    <3>2. q \in 1..(L + 1) /\ (q - 1) = L BY <1>4, <3>1
    <3>3. \A m \in 1..L : fs[t[m]].type # 0 BY Zenon, <1>2, <1>5, <2>2 DEF L
    <3>4. t[q] = n BY <1>5, <3>1
    <3>5. FirstPicture(fs, t, q, first2) BY <2>2, <3>2, <3>3, <3>4 DEF FirstPicture
    <3> QED BY <3>2, <3>5
  <2> QED BY <2>1, <2>2
<1>11. Len(g) = Len(t) /\ Len(t) = L + 1 BY <1>5, <1>6
<1> QED BY Zenon, <1>5, <1>6, <1>8, <1>9, <1>10, <1>11 DEF Seen, t, g

-----------------------------------------------------------------------------
(* A frame that is complete. *)

\* How many bytes were masked is a number.
LEMMA MaskedIs ==
  ASSUME NEW j, WellFormedScreen(j), NEW n \in Nat, n <= Len(j.frames)
  PROVE  MaskedFirst(j.frames, n) \in Nat
<1> DEFINE fs == j.frames
           N == Len(fs)
           M(k) == MaskedFirst(fs, k)
           S == {k \in Nat : k <= N => M(k) \in Nat}
<1>1. M(0) = 0
      /\ \A k \in Nat \ {0} : M(k) = M(k - 1) + (IF fs[k].type = 0 THEN Len(Plain(fs[k])) ELSE 0)
  BY MaskedLaw
<1>2. \A k \in 1..N : Len(Plain(fs[k])) \in Nat
  <2> TAKE k \in 1..N
  <2>1. WellFormedFrame(j.codec, fs[k]) BY DEF WellFormedScreen
  <2>2. Plain(fs[k]) \in Seq(Byte) BY <2>1, PlainIs
  <2> QED BY <2>2, LenProperties
<1> HIDE DEF M, fs, N
<1>3. 0 \in S BY <1>1
<1>4. ASSUME NEW k \in Nat, k \in S PROVE k + 1 \in S
  <2> SUFFICES ASSUME k + 1 <= N PROVE M(k + 1) \in Nat OBVIOUS
  <2>0. N \in Nat BY DEF WellFormedScreen, N, fs
  <2>1. k + 1 \in 1..N /\ k <= N /\ k + 1 \in Nat \ {0} /\ (k + 1) - 1 = k BY <2>0
  <2>2. M(k) \in Nat BY <1>4, <2>1
  <2>3. M(k + 1) = M(k) + (IF fs[k + 1].type = 0 THEN Len(Plain(fs[k + 1])) ELSE 0) BY <1>1, <2>1
  <2>4. Len(Plain(fs[k + 1])) \in Nat BY <1>2, <2>1
  <2> QED BY <2>2, <2>3, <2>4
<1> HIDE DEF S
<1>5. n \in S BY <1>3, <1>4, SetInduction
<1> QED BY <1>5 DEF S, M, N, fs

\* What is known of a frame.
LEMMA FrameFacts ==
  ASSUME NEW j, WellFormedScreen(j), NEW n \in 1..Len(j.frames), NEW f, f = j.frames[n]
  PROVE  /\ WellFormedFrame(j.codec, f)
         /\ f.type \in Byte /\ f.type2 \in Byte /\ f.ntp \in Nat /\ Shifted(f.ntp, 8) = 0
         /\ f.nals \in Seq(Seq(Byte))
         /\ f.nals = <<>> => f.type \in {2, 5}
<1>1. WellFormedFrame(j.codec, f) BY DEF WellFormedScreen
<1> QED BY <1>1 DEF WellFormedFrame

\* A picture comes after the first one, also by the sender's clock.
LEMMA LaterThanFirst ==
  ASSUME NEW j, WellFormedScreen(j), NEW n \in 1..Len(j.frames), j.frames[n].type = 0,
         NEW frames, NEW base, NEW first, Seen(j, n - 1, frames, base, first), base # 0
  PROVE  j.frames[n].ntp >= first
<1> DEFINE fs == j.frames
           s == Shown(fs, n - 1)
<1>1. s \in Seq(1..(n - 1)) /\ \E q \in 1..Len(s) : FirstPicture(fs, s, q, first) BY DEF Seen
<1>2. DOMAIN fs = 1..Len(fs)
      /\ \A i, k \in DOMAIN fs : i <= k /\ {fs[i].type, fs[k].type} = {0} => fs[i].ntp <= fs[k].ntp
  BY DEF WellFormedScreen
<1>3. n \in DOMAIN fs BY <1>2
<1> HIDE DEF s
<1>4. PICK q \in 1..Len(s) : FirstPicture(fs, s, q, first) BY <1>1
<1>5. PICK m : m = s[q] OBVIOUS
<1>6. m \in 1..(n - 1) BY <1>1, <1>4, <1>5, ElementOfSeq
<1>7. fs[m].type = 0 /\ fs[m].ntp = first BY <1>4, <1>5 DEF FirstPicture
<1>8. m \in DOMAIN fs /\ m <= n BY <1>2, <1>3, <1>6
<1>9. {fs[m].type, fs[n].type} = {0} BY <1>7
<1>10. fs[m].ntp <= fs[n].ntp BY <1>2, <1>3, <1>8, <1>9
<1>11. fs[m].ntp \in Nat /\ fs[n].ntp \in Nat
  <2>1. WellFormedFrame(j.codec, fs[m]) /\ WellFormedFrame(j.codec, fs[n])
    BY <1>3, <1>8 DEF WellFormedScreen
  <2> QED BY <2>1 DEF WellFormedFrame
<1> QED BY <1>7, <1>10, <1>11

\* Parameter sets are called back with the time they arrived at.
LEMMA SetsDelivered ==
  ASSUME NEW j, WellFormedScreen(j), NEW n \in 1..Len(j.frames), NEW f, f = j.frames[n],
         f.type = 1, NEW r, Behind(j, n - 1, r), NEW time \in Nat,
         NEW nals, nals = f.nals, NEW x, x = SetsBack(r, nals, time)
  PROVE  Behind(j, n, x) /\ x.open = r.open
<1>0. f.ntp \in Nat /\ f.nals \in Seq(Seq(Byte)) /\ (f.nals = <<>> => f.type \in {2, 5})
  BY FrameFacts
<1>1. f.ntp \in Nat /\ f.nals \in Seq(Seq(Byte)) /\ f.nals # <<>> BY <1>0
<1>2. r \in PushRx(j, n - 1) /\ Seen(j, n - 1, r.frames, r.base_clk, r.first_ntp) BY DEF Behind
<1> DEFINE b == AnnexB(f.nals)
           e == [codec |-> r.codec, pts_us |-> time, annex_b |-> b, is_key |-> FALSE]
<1>3. n \in Nat \ {0} OBVIOUS
<1>4. r.base_clk \in Nat /\ r.first_ntp \in Nat /\ r.codec = j.codec BY <1>2 DEF PushRx
<1>6. b \in Seq(Byte) BY <1>1, AnnexBIs
<1>7. b = Joined([i \in DOMAIN f.nals |-> <<0, 0, 0, 1>> \o f.nals[i]], Len(f.nals))
  BY DEF AnnexB, StartCode
<1>8. x = [r EXCEPT !.frames = Append(r.frames, e)] BY <1>1 DEF CallBack, SetsBack
<1> HIDE DEF b
<1>9. e \in CallBacks(j.codec) BY <1>4, <1>6 DEF CallBacks
<1>10. Told(e, f, r.base_clk, r.first_ntp)
  <2>0. e.annex_b = b /\ e.is_key = FALSE OBVIOUS
  <2>1. FrameAgrees(e, f)
    <3> HIDE DEF e
    <3>1. (f.type = 0 /\ f.key) = FALSE OBVIOUS
    <3> QED BY <1>7, <2>0, <3>1 DEF FrameAgrees
  <2> QED BY <2>1 DEF Told
<1>11. Seen(j, n, Append(r.frames, e), r.base_clk, r.first_ntp)
  <2>1. j.frames[n].type \in {0, 1} /\ j.frames[n].type # 0 /\ j.frames[n].ntp \in Nat BY <1>1
  <2> HIDE DEF e
  <2> QED BY <1>2, <1>3, <1>4, <1>9, <1>10, <2>1, SeenMore
<1>12. MaskedFirst(j.frames, n) = MaskedFirst(j.frames, n - 1)
  <2>1. MaskedFirst(j.frames, n) = MaskedFirst(j.frames, n - 1) + 0 BY <1>3, MaskedLaw
  <2>2. MaskedFirst(j.frames, n - 1) \in Nat
    <3>1. n - 1 \in Nat /\ n - 1 <= Len(j.frames) OBVIOUS
    <3> QED BY <3>1, MaskedIs
  <2> QED BY <2>1, <2>2
<1> DEFINE g == Append(r.frames, e)
<1>13. g \in Seq(CallBacks(j.codec))
  <2> DEFINE C == CallBacks(j.codec)
  <2>1. r.frames \in Seq(C) /\ e \in C BY <1>2, <1>9 DEF PushRx
  <2> HIDE DEF C, e
  <2>2. Append(r.frames, e) \in Seq(C) BY <2>1, AppendProperties
  <2> QED BY <2>2 DEF C
<1> HIDE DEF e, g
<1>14. x = [r EXCEPT !.frames = g] BY <1>8 DEF g
<1>15. x \in PushRx(j, n) /\ x.open = r.open /\ x.frames = g /\ x.base_clk = r.base_clk
       /\ x.first_ntp = r.first_ntp
  BY Zenon, <1>2, <1>12, <1>13, <1>14 DEF PushRx
<1> QED BY <1>11, <1>15 DEF Behind, g

\* A picture is called back with its time by the sender's clock.
LEMMA PictureDelivered ==
  ASSUME NEW j, WellFormedScreen(j), NEW n \in 1..Len(j.frames), NEW f, f = j.frames[n],
         f.type = 0, NEW r, Behind(j, n - 1, r), NEW now \in Nat \ {0},
         NEW a, a \in CtrState(KeyExpansion(j.key), j.iv, MaskedFirst(j.frames, n)),
         NEW key, key = (f.type2 = 16), NEW ntp, ntp = f.ntp,
         NEW y, y = WithCtr(r, a), NEW u, u = Based(y, ntp, now),
         NEW nals, nals = f.nals, NEW x, x = CallBackAt(u, nals, ntp, key)
  PROVE  Behind(j, n, x) /\ x.open = r.open
<1> DEFINE idr == key \/ \E i \in DOMAIN f.nals : IsIdr(j.codec, f.nals[i])
<1>0. f.ntp \in Nat /\ f.nals \in Seq(Seq(Byte)) /\ (f.nals = <<>> => f.type \in {2, 5})
  BY Zenon, FrameFacts
<1>key. f.key = idr
  <2>1. WellFormedFrame(j.codec, f) BY DEF WellFormedScreen
  <2>2. f.key = (f.type = 0 /\ (\/ f.type2 = 16
                                \/ \E i \in DOMAIN f.nals : IsIdr(j.codec, f.nals[i])))
    BY <2>1 DEF WellFormedFrame
  <2> QED BY <2>2
<1>1. ntp \in Nat /\ f.nals \in Seq(Seq(Byte)) /\ f.nals # <<>> BY <1>0
<1>2. r \in PushRx(j, n - 1) /\ Seen(j, n - 1, r.frames, r.base_clk, r.first_ntp) BY DEF Behind
<1>3. n \in Nat \ {0} OBVIOUS
<1>4. r.base_clk \in Nat /\ r.first_ntp \in Nat /\ r.codec = j.codec BY <1>2 DEF PushRx
<1> USE DEF WithCtr
<1> DEFINE base == IF r.base_clk = 0 THEN now ELSE r.base_clk
           first == IF r.base_clk = 0 THEN ntp ELSE r.first_ntp
           q == Based([r EXCEPT !.aes = a], ntp, now)
           q0 == [r EXCEPT !.aes = a, !.base_clk = base, !.first_ntp = first]
           pts == base + ((ntp - first) \div 1000)
           b == AnnexB(f.nals)
           e == [codec |-> j.codec, pts_us |-> pts, annex_b |-> b, is_key |-> idr]
<1>5. q = q0
  <2>1. CASE r.base_clk = 0 BY <1>2, <2>1 DEF Based, PushRx
  <2>2. CASE r.base_clk # 0 BY <1>2, <2>2 DEF Based, PushRx
  <2> QED BY <2>1, <2>2
<1>6. /\ q.base_clk = base /\ q.first_ntp = first /\ q.codec = j.codec /\ q.frames = r.frames
      /\ q.open = r.open
  <2> HIDE DEF base, first, q
  <2> QED BY <1>2, <1>5 DEF PushRx
<1>7. base \in Nat /\ base # 0 /\ first \in Nat BY <1>1, <1>4
<1>8. ntp >= first
  <2>1. CASE r.base_clk = 0 BY <1>1, <2>1
  <2>2. CASE r.base_clk # 0 BY <1>2, <2>2, LaterThanFirst
  <2> QED BY <2>1, <2>2
<1>9. \/ base = r.base_clk /\ first = r.first_ntp /\ (r.base_clk = 0 => j.frames[n].type # 0)
      \/ r.base_clk = 0 /\ base # 0 /\ j.frames[n].type = 0 /\ first = j.frames[n].ntp
  BY <1>7
<1> HIDE DEF base, first
<1>10. pts \in Nat BY <1>1, <1>7, <1>8
<1>11. x = CallBackAt(q, f.nals, ntp, key) OBVIOUS
<1> HIDE DEF q
<1>12. x = CallBack(q, f.nals, base + ((ntp - first) \div 1000), idr)
  <2>1. (IF ntp >= first THEN (ntp - first) \div 1000 ELSE 0) = (ntp - first) \div 1000 BY <1>8
  <2> QED BY ONLY <1>6, <1>11, <2>1 DEF CallBackAt, idr
<1> HIDE DEF idr, pts
<1>13. x = CallBack(q, f.nals, pts, idr) BY <1>12 DEF pts
<1>14. b = Joined([i \in DOMAIN f.nals |-> <<0, 0, 0, 1>> \o f.nals[i]], Len(f.nals))
  BY DEF AnnexB, StartCode
<1>15. b \in Seq(Byte) BY <1>1, AnnexBIs
<1>16. idr \in BOOLEAN BY DEF idr
<1>17. x = [q EXCEPT !.frames = Append(r.frames, e)] BY <1>1, <1>6, <1>13 DEF CallBack
<1> HIDE DEF b
<1>18. e \in CallBacks(j.codec) BY <1>10, <1>15, <1>16 DEF CallBacks
<1>19. e.annex_b = b /\ e.is_key = idr /\ e.pts_us = pts OBVIOUS
<1> HIDE DEF e
<1>20. FrameAgrees(e, f)
  <2>2. (f.type = 0 /\ f.key) = idr BY <1>key, <1>16
  <2> QED BY <1>14, <1>19, <2>2 DEF FrameAgrees
<1>21. Told(e, f, base, first)
  <2>1. e.pts_us = base + ((f.ntp - first) \div 1000) BY <1>19 DEF pts
  <2> QED BY <1>20, <2>1 DEF Told
<1>22. Seen(j, n, Append(r.frames, e), base, first)
  <2>1. j.frames[n].type \in {0, 1} /\ j.frames[n].ntp \in Nat BY <1>1
  <2> QED BY <1>2, <1>3, <1>7, <1>9, <1>18, <1>21, <2>1, SeenMore
<1> DEFINE g == Append(r.frames, e)
<1>23. g \in Seq(CallBacks(j.codec))
  <2> DEFINE C == CallBacks(j.codec)
  <2>1. r.frames \in Seq(C) /\ e \in C BY <1>2, <1>18 DEF PushRx
  <2> HIDE DEF C
  <2>2. Append(r.frames, e) \in Seq(C) BY <2>1, AppendProperties
  <2> QED BY <2>2 DEF C
<1> HIDE DEF g
<1>24. x = [[r EXCEPT !.aes = a, !.base_clk = base, !.first_ntp = first] EXCEPT !.frames = g]
  BY <1>5, <1>17 DEF g
<1>25. /\ x \in PushRx(j, n) /\ x.open = r.open /\ x.frames = g
       /\ x.base_clk = base /\ x.first_ntp = first
  BY Zenon, <1>2, <1>7, <1>23, <1>24 DEF PushRx
<1> QED BY <1>22, <1>25 DEF Behind, g

\* What a frame is on the wire, and what the receiver makes of it.
LEMMA FrameIs ==
  ASSUME NEW j, WellFormedScreen(j), NEW n \in 1..Len(j.frames), NEW f, f = j.frames[n],
         NEW p, p = Plain(f), NEW size, size = Len(p)
  PROVE  /\ p \in Seq(Byte) /\ size \in Nat /\ size <= MaxPayload
         /\ f.nals = <<>> => p = <<>> /\ f.type \in {2, 5}
         /\ f.nals # <<>> => p # <<>>
         /\ FrameHeader(f, size) \in Seq(Byte) /\ Len(FrameHeader(f, size)) = HeaderLen
         /\ PayloadSize(FrameHeader(f, size)) = size
         /\ Type(FrameHeader(f, size)) = f.type /\ Type2(FrameHeader(f, size)) = f.type2
         /\ Ntp(FrameHeader(f, size)) = f.ntp
<1>1. /\ WellFormedFrame(j.codec, f)
      /\ f.type \in Byte /\ f.type2 \in Byte /\ f.ntp \in Nat /\ Shifted(f.ntp, 8) = 0
      /\ f.nals = <<>> => f.type \in {2, 5}
  BY FrameFacts
<1>2. /\ p \in Seq(Byte) /\ Len(p) <= MaxPayload
      /\ f.nals = <<>> => p = <<>>
      /\ f.nals # <<>> => p # <<>>
  BY <1>1, PlainIs
<1>3. size \in Nat /\ size <= MaxPayload BY <1>2, LenProperties
<1>4. Word32(size) BY <1>3, SMT DEF MaxPayload, Word32
<1>5. /\ FrameHeader(f, size) \in Seq(Byte) /\ Len(FrameHeader(f, size)) = HeaderLen
      /\ PayloadSize(FrameHeader(f, size)) = size
      /\ Type(FrameHeader(f, size)) = f.type /\ Type2(FrameHeader(f, size)) = f.type2
      /\ Ntp(FrameHeader(f, size)) = f.ntp
  BY <1>1, <1>3, <1>4, HeaderIs
<1> QED BY <1>1, <1>2, <1>3, <1>5

\* The payload on the wire, and that the cipher of the receiver takes the mask away.
LEMMA PayloadIs ==
  ASSUME NEW j, WellFormedScreen(j), NEW n \in 1..Len(j.frames)
  PROVE  /\ Payload(j, n) \in Seq(Byte) /\ Len(Payload(j, n)) = Len(Plain(j.frames[n]))
         /\ j.frames[n].type # 0 => Payload(j, n) = Plain(j.frames[n])
         /\ j.frames[n].type = 0 =>
              \A a \in CtrState(KeyExpansion(j.key), j.iv, MaskedFirst(j.frames, n - 1)) :
                 /\ Process(a, Payload(j, n)).ctr
                       \in CtrState(KeyExpansion(j.key), j.iv, MaskedFirst(j.frames, n))
                 /\ Process(a, Payload(j, n)).out = Plain(j.frames[n])
<1> DEFINE p == Plain(j.frames[n])
           w == KeyExpansion(j.key)
           k == MaskedFirst(j.frames, n - 1)
<1>1. p \in Seq(Byte) BY FrameIs
<1>2. j.key \in Block /\ j.iv \in Block BY DEF WellFormedScreen, WellFormedKeys, Block
<1>3. w \in Schedule BY <1>2, KeyExpansionIs
<1>4. n \in Nat \ {0} /\ n - 1 \in Nat /\ n - 1 <= Len(j.frames) OBVIOUS
<1>5. k \in Nat BY <1>4, MaskedIs
<1>6. j.frames[n].type # 0 => Payload(j, n) = p BY DEF Payload
<1>7. j.frames[n].type = 0 => Payload(j, n) = Masked(w, j.iv, k, p)
  BY DEF Payload, MaskedBefore, MaskedFirst
<1>8. j.frames[n].type = 0 => MaskedFirst(j.frames, n) = k + Len(p) BY <1>4, MaskedLaw
<1> HIDE DEF p, w, k
<1>9. CASE j.frames[n].type # 0 BY <1>1, <1>6, <1>9 DEF p
<1>10. CASE j.frames[n].type = 0
  <2>1. \A a \in CtrState(w, j.iv, k) :
           /\ Masked(w, j.iv, k, p) \in Seq(Byte) /\ Len(Masked(w, j.iv, k, p)) = Len(p)
           /\ Process(a, Masked(w, j.iv, k, p)).ctr \in CtrState(w, j.iv, k + Len(p))
           /\ Process(a, Masked(w, j.iv, k, p)).out = p
    BY <1>1, <1>2, <1>3, <1>5, MaskReturns
  <2>2. Masked(w, j.iv, k, p) \in Seq(Byte) /\ Len(Masked(w, j.iv, k, p)) = Len(p)
    BY <1>1, <1>2, <1>3, <1>5, MaskedSeq
  <2> QED BY <1>7, <1>8, <1>10, <2>1, <2>2 DEF p, w, k
<1> QED BY <1>9, <1>10

\* A frame of another type changes nothing.
LEMMA IgnoredIs ==
  ASSUME NEW j, WellFormedScreen(j), NEW n \in 1..Len(j.frames),
         j.frames[n].type \notin {0, 1}, NEW r, Behind(j, n - 1, r)
  PROVE  Behind(j, n, r)
<1>1. r \in PushRx(j, n - 1) /\ Seen(j, n - 1, r.frames, r.base_clk, r.first_ntp) BY DEF Behind
<1>2. n \in Nat \ {0} OBVIOUS
<1>3. Seen(j, n, r.frames, r.base_clk, r.first_ntp) BY <1>1, <1>2, SeenSame
<1>4. MaskedFirst(j.frames, n) = MaskedFirst(j.frames, n - 1)
  <2>1. MaskedFirst(j.frames, n) = MaskedFirst(j.frames, n - 1) + 0 BY <1>2, MaskedLaw
  <2>2. MaskedFirst(j.frames, n - 1) \in Nat
    <3>1. n - 1 \in Nat /\ n - 1 <= Len(j.frames) OBVIOUS
    <3> QED BY <3>1, MaskedIs
  <2> QED BY <2>1, <2>2
<1> QED BY <1>1, <1>3, <1>4 DEF Behind, PushRx

\* A payload that is complete is delivered.
LEMMA DeliverIs ==
  ASSUME NEW j, WellFormedScreen(j), NEW n \in 1..Len(j.frames), NEW f, f = j.frames[n],
         f.nals # <<>>, NEW r, Behind(j, n - 1, r), NEW now \in Nat \ {0},
         NEW h, h = FrameHeader(f, Len(Plain(f))),
         NEW x, x = Deliver(r, h, Payload(j, n), now)
  PROVE  Behind(j, n, x) /\ x.open = r.open
<1>1. PICK p : p = Plain(f) OBVIOUS
<1>2. PICK size : size = Len(p) OBVIOUS
<1>3. Type(h) = f.type /\ Type2(h) = f.type2 /\ Ntp(h) = f.ntp
  <2>1. h = FrameHeader(f, size) BY <1>1, <1>2
  <2> QED BY <1>1, <1>2, <2>1, FrameIs
<1>4. WellFormedFrame(j.codec, f) BY FrameFacts
<1>5. r \in PushRx(j, n - 1) /\ Seen(j, n - 1, r.frames, r.base_clk, r.first_ntp) BY DEF Behind
<1>6. CASE f.type = 0
  <2> DEFINE d == Process(r.aes, Payload(j, n))
             a == d.ctr
  <2>1. r.aes \in CtrState(KeyExpansion(j.key), j.iv, MaskedFirst(j.frames, n - 1))
    BY <1>5 DEF PushRx
  <2>2. d.ctr \in CtrState(KeyExpansion(j.key), j.iv, MaskedFirst(j.frames, n)) /\ d.out = p
    BY <1>1, <1>6, <2>1, PayloadIs
  <2>3. NalUnits(p) = f.nals BY <1>1, <1>4, <1>6, PlainIs
  <2>4. x = CallBackAt(Based([r EXCEPT !.aes = a], f.ntp, now), NalUnits(d.out), f.ntp, f.type2
        = 16)
    BY <1>3, <1>6 DEF Deliver, Picture, Decrypted
  <2> HIDE DEF d
  <2>5. x = CallBackAt(Based([r EXCEPT !.aes = a], f.ntp, now), f.nals, f.ntp, f.type2 = 16)
    BY <2>2, <2>3, <2>4
  <2>6. PICK key : key = (f.type2 = 16) OBVIOUS
  <2>7. PICK ntp : ntp = f.ntp OBVIOUS
  <2>8. PICK y : y = WithCtr(r, a) OBVIOUS
  <2>10. PICK u : u = Based(y, ntp, now) OBVIOUS
  <2>11. PICK nals : nals = f.nals OBVIOUS
  <2>12. x = CallBackAt(u, nals, ntp, key) BY <2>5, <2>6, <2>7, <2>8, <2>10, <2>11 DEF WithCtr
  <2> HIDE DEF a
  <2>9. a \in CtrState(KeyExpansion(j.key), j.iv, MaskedFirst(j.frames, n)) BY <2>2 DEF a
  <2> QED BY SMTT(30), <1>6, <2>6, <2>7, <2>8, <2>9, <2>10, <2>11, <2>12, PictureDelivered
<1>7. CASE f.type = 1
  <2>1. Payload(j, n) = p BY <1>1, <1>7, PayloadIs
  <2>2. ParameterSets(p) = f.nals BY <1>1, <1>4, <1>7, PlainIs
  <2>3. x = CallBack(r, f.nals, IF r.base_clk # 0 THEN r.base_clk ELSE now, FALSE)
    BY <1>3, <1>7, <2>1, <2>2 DEF Deliver
  <2>4. r.base_clk \in Nat /\ now \in Nat BY <1>5 DEF PushRx
  <2>5. PICK time \in Nat : time = (IF r.base_clk # 0 THEN r.base_clk ELSE now) BY <2>4
  <2>6. PICK nals : nals = f.nals OBVIOUS
  <2>7. x = SetsBack(r, nals, time) BY <2>3, <2>5, <2>6 DEF SetsBack
  <2> QED BY <1>7, <2>6, <2>7, SetsDelivered
<1>8. CASE f.type \notin {0, 1}
  <2>1. x = r BY <1>3, <1>8 DEF Deliver
  <2>2. Behind(j, n, r) BY <1>8, IgnoredIs
  <2> QED BY <2>1, <2>2
<1> QED BY <1>6, <1>7, <1>8

-----------------------------------------------------------------------------
(* A frame that arrives in pieces. *)

\* The header that is being received is no part of what was seen,
LEMMA HeaderKept ==
  ASSUME NEW j, NEW n, NEW r, Behind(j, n, r), NEW v \in Seq(Byte), NEW x, x = SetHdr(r, v)
  PROVE  Behind(j, n, x) /\ x.hdr = v /\ x.payload = r.payload /\ x.open = r.open
BY DEF Behind, PushRx, SetHdr, SetPayload, SetOpen

\* nor is the payload,
LEMMA PayloadKept ==
  ASSUME NEW j, NEW n, NEW r, Behind(j, n, r), NEW v \in Seq(Byte), NEW x, x = SetPayload(r, v)
  PROVE  Behind(j, n, x) /\ x.payload = v /\ x.hdr = r.hdr /\ x.open = r.open
BY DEF Behind, PushRx, SetHdr, SetPayload, SetOpen

\* nor the connection.
LEMMA OpenKept ==
  ASSUME NEW j, NEW n, NEW r, Behind(j, n, r), NEW v \in BOOLEAN, NEW x, x = SetOpen(r, v)
  PROVE  Behind(j, n, x) /\ x.open = v /\ x.hdr = r.hdr /\ x.payload = r.payload
BY DEF Behind, PushRx, SetHdr, SetPayload, SetOpen

\* Behind a frame the receiver is in front of the next.
LEMMA NextFrameIs ==
  ASSUME NEW j, NEW n, NEW r, Behind(j, n, r)
  PROVE  Behind(j, n, NextFrame(r)) /\ Cut(j, n + 1, 0, NextFrame(r)) /\ NextFrame(r).open = r.open
<1>1. ASSUME NEW e \in Seq(Byte), NEW y, y = SetHdr(r, e), NEW x, x = SetPayload(y, e)
      PROVE  Behind(j, n, x) /\ x.hdr = e /\ x.payload = e /\ x.open = r.open
  <2>1. Behind(j, n, y) /\ y.hdr = e /\ y.open = r.open BY <1>1, HeaderKept
  <2>2. Behind(j, n, x) /\ x.hdr = y.hdr /\ x.payload = e /\ x.open = y.open
    BY <1>1, <2>1, PayloadKept
  <2> QED BY <2>1, <2>2
<1> DEFINE x == NextFrame(r)
<1>2. x = SetPayload(SetHdr(r, <<>>), <<>>) BY DEF NextFrame, SetHdr, SetPayload
<1>3. <<>> \in Seq(Byte) BY EmptySeq
<1> HIDE DEF x
<1>4. Behind(j, n, x) /\ x.hdr = <<>> /\ x.payload = <<>> /\ x.open = r.open
  BY <1>1, <1>2, <1>3, ZenonT(30)
<1> QED BY <1>4 DEF Cut, x

\* A frame on the wire is its header and its payload, as long as the header says.
LEMMA WireFrame ==
  ASSUME NEW j, WellFormedScreen(j), NEW i \in 1..Len(j.frames),
         NEW h, h = Header(j, i), NEW q, q = Payload(j, i), NEW b, b = FrameBytes(j, i)
  PROVE  /\ h \in Seq(Byte) /\ Len(h) = HeaderLen /\ q \in Seq(Byte) /\ b \in Seq(Byte)
         /\ b = h \o q /\ Len(b) = HeaderLen + Len(q) /\ Len(q) \in Nat
         /\ Lies(b, 0, h) /\ Lies(b, HeaderLen, q)
         /\ PayloadSize(h) = Len(q) /\ Len(q) <= MaxPayload
         /\ Type(h) = j.frames[i].type
         /\ Len(q) = 0 => j.frames[i].type \in {2, 5}
         /\ Len(q) # 0 => j.frames[i].nals # <<>>
<1>1. PICK f : f = j.frames[i] OBVIOUS
<1>2. PICK p : p = Plain(f) OBVIOUS
<1>3. PICK size : size = Len(p) OBVIOUS
<1>4. h = FrameHeader(f, size) BY <1>1, <1>2, <1>3 DEF Header
<1>5. /\ p \in Seq(Byte) /\ size \in Nat /\ size <= MaxPayload
      /\ f.nals = <<>> => p = <<>> /\ f.type \in {2, 5}
      /\ f.nals # <<>> => p # <<>>
      /\ h \in Seq(Byte) /\ Len(h) = HeaderLen /\ PayloadSize(h) = size /\ Type(h) = f.type
  BY <1>1, <1>2, <1>3, <1>4, FrameIs
<1>6. q \in Seq(Byte) /\ Len(q) = size BY <1>1, <1>2, <1>3, PayloadIs
<1>7. b = h \o q BY DEF FrameBytes, Header
<1>8. PICK m \in Nat : m = HeaderLen BY HeaderHoldsItsFields
<1>9. m = Len(h) BY <1>5, <1>8
<1>10. b \in Seq(Byte) /\ Len(b) = m + Len(q) /\ Lies(b, 0, h) /\ Lies(b, m, q)
  BY ZenonT(30), <1>5, <1>6, <1>7, <1>9, LiesIn
<1>11. (Len(q) = 0 => f.type \in {2, 5}) /\ (Len(q) # 0 => f.nals # <<>>)
  <2>1. Len(q) = Len(p) /\ (p = <<>> <=> Len(p) = 0) BY <1>3, <1>5, <1>6, EmptySeq
  <2>2. (p = <<>> => f.type \in {2, 5}) /\ (p # <<>> => f.nals # <<>>) BY <1>5
  <2> QED BY <2>1, <2>2
<1> QED BY <1>1, <1>5, <1>6, <1>7, <1>8, <1>10, <1>11

\* What has arrived of a part of a text grows by the next piece of the text.
LEMMA GrowsIn ==
  ASSUME NEW T, NEW b \in Seq(T), NEW t \in Seq(T), NEW k \in Nat, Lies(b, k, t),
         NEW m1 \in Nat, NEW m2 \in Nat, m1 <= m2, m2 <= Len(t),
         NEW y \in Nat, y = (k + m1) + 1, NEW e \in Nat, e = k + m2
  PROVE  Grown(t, m1, b, y, e, m2)
<1>1. k + Len(t) <= Len(b) /\ Len(t) \in Nat /\ Len(b) \in Nat BY LenProperties DEF Lies
<1>2. m1 <= Len(t) /\ m2 <= Len(t) /\ e <= Len(b) /\ m1 <= m2 BY <1>1
<1> DEFINE u == SubSeq(t, 1, m1)
           v == SubSeq(b, y, e)
           z == SubSeq(t, 1, m2)
           c == u \o v
<1>3. u \in Seq(T) /\ Len(u) = m1 /\ \A i \in 1..m1 : u[i] = t[i] BY <1>2, PrefixIs
<1>4. z \in Seq(T) /\ Len(z) = m2 /\ \A i \in 1..m2 : z[i] = t[i] BY <1>2, PrefixIs
<1>5. v \in Seq(T) /\ Len(v) = (e + 1) - y /\ \A i \in 1..(e + 1) - y : v[i] = b[(y - 1) + i]
  <2>1. 1 <= y /\ y <= e + 1 OBVIOUS
  <2> QED BY <1>2, <2>1, PieceIs
<1> HIDE DEF u, v, z
<1>6. /\ c \in Seq(T) /\ Len(c) = Len(u) + Len(v)
      /\ \A i \in 1..Len(u) + Len(v) : c[i] = IF i <= Len(u) THEN u[i] ELSE v[i - Len(u)]
  <2>1. u \in Seq(T) /\ v \in Seq(T) BY <1>3, <1>5
  <2>2. u \o v \in Seq(T) /\ Len(u \o v) = Len(u) + Len(v) BY <2>1, ConcatProperties
  <2>3. \A i \in 1..Len(u) + Len(v) :
           (u \o v)[i] = IF i <= Len(u) THEN u[i] ELSE v[i - Len(u)]
    BY <2>1, ConcatProperties
  <2> QED BY <2>2, <2>3
<1> HIDE DEF c
<1>7. Len(c) = m2 BY <1>3, <1>5, <1>6
<1>8. ASSUME NEW i \in 1..m2 PROVE c[i] = z[i]
  <2>1. CASE i <= m1
    <3>1. i \in 1..m1 /\ i \in 1..Len(u) + Len(v) BY <1>3, <1>5, <2>1
    <3> QED BY <1>3, <1>4, <1>6, <2>1, <3>1
  <2>2. CASE ~(i <= m1)
    <3>1. PICK g \in Nat : g = i - m1 BY <2>2
    <3>2. g \in 1..(e + 1) - y /\ i \in 1..Len(u) + Len(v) /\ (y - 1) + g = k + i /\ i \in 1..Len(t)
      BY <1>1, <1>2, <1>3, <1>5, <2>2, <3>1
    <3>3. c[i] = v[g] BY <1>3, <1>6, <2>2, <3>1, <3>2
    <3>4. v[g] = b[k + i] BY <1>5, <3>2
    <3>5. b[k + i] = t[i] BY <3>2 DEF Lies
    <3> QED BY <1>4, <3>3, <3>4, <3>5
  <2> QED BY <2>1, <2>2
<1>9. c = z BY <1>4, <1>6, <1>7, <1>8, SeqEqual
<1> QED BY <1>9 DEF u, v, z, c, Grown

\* One recv() in the header of frame i.
LEMMA HeaderPiece ==
  ASSUME NEW j, WellFormedScreen(j), NEW i \in 1..Len(j.frames),
         NEW r, Behind(j, i - 1, r), NEW now \in Nat \ {0},
         NEW h, h = Header(j, i), NEW b, b = FrameBytes(j, i),
         NEW at \in Nat, NEW e \in Nat, at < e, e <= HeaderLen, NEW y \in Nat, y = at + 1,
         r.hdr = SubSeq(h, 1, at), NoPayload(r),
         NEW x, x = Receive(r, SubSeq(b, y, e), now)
  PROVE  Goes(j, i, r, x, now, h, at, b, y, e)
<1> SUFFICES Reached(j, i, e, x) /\ x.open = r.open BY DEF Goes
<1>1. PICK q : q = Payload(j, i) OBVIOUS
<1>2. /\ h \in Seq(Byte) /\ Len(h) = HeaderLen /\ q \in Seq(Byte) /\ b \in Seq(Byte)
      /\ Len(b) = HeaderLen + Len(q) /\ Len(q) \in Nat /\ Lies(b, 0, h)
      /\ PayloadSize(h) = Len(q) /\ Len(q) <= MaxPayload
      /\ Type(h) = j.frames[i].type
      /\ Len(q) = 0 => j.frames[i].type \in {2, 5}
  BY SMTT(30), <1>1, WireFrame
<1>3. HeaderLen \in Nat /\ HeaderLen >= 16 BY HeaderHoldsItsFields
<1> DEFINE g == SubSeq(h, 1, e)
           s == SubSeq(h, 1, at)
<1>4. s \o SubSeq(b, y, e) = g /\ g \in Seq(Byte) /\ Len(g) = e /\ (e = Len(h) => g = h)
  <2>1. PICK k \in Nat : k = 0 OBVIOUS
  <2>2. at <= e /\ e <= Len(h) /\ y = (k + at) + 1 /\ e = k + e BY <1>2, <2>1
  <2>3. Lies(b, k, h) /\ b \in Seq(Byte) /\ h \in Seq(Byte) BY <1>2, <2>1
  <2>8. at \in Nat /\ e \in Nat /\ y \in Nat /\ e \in Nat OBVIOUS
  <2>9. Grown(h, at, b, y, e, e) BY <2>2, <2>3, <2>8, GrowsIn
  <2>4. SubSeq(h, 1, at) \o SubSeq(b, y, e) = SubSeq(h, 1, e) BY <2>9 DEF Grown
  <2>5. e <= Len(h) BY <2>2, <1>2
  <2>6. SubSeq(h, 1, e) \in Seq(Byte) /\ Len(SubSeq(h, 1, e)) = e BY <2>3, <2>5, PrefixIs
  <2>7. e = Len(h) => SubSeq(h, 1, e) = h BY <2>3, SubSeqFull
  <2> QED BY Zenon, <2>4, <2>6, <2>7
<1>5. Len(s) = at
  <2>1. at <= Len(h) BY <1>2
  <2> QED BY <1>2, <2>1, PrefixIs
<1> HIDE DEF g, s
<1>6. r.hdr = s /\ Len(r.hdr) < HeaderLen BY <1>3, <1>5 DEF s
<1>7. PICK r2 : r2 = SetHdr(r, g) OBVIOUS
<1>8. Behind(j, i - 1, r2) /\ r2.hdr = g /\ r2.payload = r.payload /\ r2.open = r.open
  BY <1>4, <1>7, HeaderKept
<1>12. r.payload = <<>> BY DEF NoPayload
<1>9. x = WithHeader(r2, now)
  <2>1. x = WithHeader([r EXCEPT !.hdr = @ \o SubSeq(b, y, e)], now) BY <1>6 DEF Receive
  <2>2. [r EXCEPT !.hdr = @ \o SubSeq(b, y, e)] = [r EXCEPT !.hdr = s \o SubSeq(b, y, e)] BY <1>6
  <2> QED BY <1>4, <1>7, <2>1, <2>2 DEF SetHdr
<1>10. CASE e < HeaderLen
  <2>1. x = r2 BY <1>4, <1>8, <1>9, <1>10 DEF WithHeader
  <2>2. e < Len(b) BY <1>2, <1>3, <1>10
  <2>3. Cut(j, i, e, x) BY <1>8, <1>10, <1>12, <2>1 DEF Cut, g
  <2> QED BY <1>8, <2>1, <2>2, <2>3 DEF Reached
<1>11. CASE e = HeaderLen
  <2>1. g = h BY <1>2, <1>4, <1>11
  <2>2. x = Arrived(r2, Len(q), now)
    <3>1. ~(Len(r2.hdr) < HeaderLen) BY <1>2, <1>3, <1>8, <2>1
    <3> QED BY <1>2, <1>8, <1>9, <2>1, <3>1 DEF WithHeader
  <2>3. CASE Len(q) = 0
    <3>1. Len(q) = 0 /\ j.frames[i].type \in {2, 5} BY <1>2, <2>3
    <3>2. Type(r2.hdr) \in {2, 5} BY <1>2, <1>8, <2>1, <3>1
    <3>3. x = NextFrame(r2) BY <2>2, <3>1, <3>2 DEF Arrived
    <3>4. Behind(j, i, r2) BY <1>8, <3>1, IgnoredIs
    <3>5. Behind(j, i, x) /\ Cut(j, i + 1, 0, x) /\ x.open = r2.open BY <3>3, <3>4, NextFrameIs
    <3>6. ~(e < Len(b)) BY <1>2, <1>3, <1>11, <3>1
    <3> QED BY <1>8, <3>5, <3>6 DEF Reached
  <2>4. CASE Len(q) # 0
    <3>1. Len(q) > 0 BY <1>2, <2>4
    <3>2. Len(r2.payload) = 0 BY <1>8, <1>12
    <3>3. x = r2
      <4>1. ~(Len(q) = 0 \/ Len(q) > MaxPayload) BY <1>2, <3>1 DEF MaxPayload
      <4>2. Len(r2.payload) < Len(q) BY <1>2, <3>1, <3>2
      <4> QED BY <2>2, <4>1, <4>2 DEF Arrived
    <3>4. e < Len(b) BY <1>2, <1>3, <1>11, <3>1
    <3>5. SubSeq(q, 1, 0) = <<>> OBVIOUS
    <3>6. e >= HeaderLen /\ e - HeaderLen = 0 /\ 0 < Len(q) BY <1>2, <1>3, <1>11, <3>1
    <3>7. Cut(j, i, e, x) BY <1>1, <1>8, <1>12, <2>1, <3>3, <3>5, <3>6 DEF Cut
    <3> QED BY <1>8, <3>3, <3>4, <3>7 DEF Reached
  <2> QED BY <2>3, <2>4
<1> QED BY <1>3, <1>10, <1>11

\* One recv() in the payload of frame i, whose header is there.
LEMMA PayloadPiece ==
  ASSUME NEW j, WellFormedScreen(j), NEW i \in 1..Len(j.frames),
         NEW r, Behind(j, i - 1, r), NEW now \in Nat \ {0},
         NEW h, h = Header(j, i), NEW q, q = Payload(j, i), NEW b, b = FrameBytes(j, i),
         NEW m1 \in Nat, NEW m2 \in Nat, m1 < m2, m2 <= Len(q),
         NEW y \in Nat, y = (HeaderLen + m1) + 1, NEW e \in Nat, e = HeaderLen + m2,
         r.hdr = h, r.payload = SubSeq(q, 1, m1),
         NEW x, x = Receive(r, SubSeq(b, y, e), now)
  PROVE  Goes(j, i, r, x, now, h, m1, b, y, e)
<1> SUFFICES Reached(j, i, e, x) /\ x.open = r.open BY DEF Goes
<1>2. /\ h \in Seq(Byte) /\ Len(h) = HeaderLen /\ q \in Seq(Byte) /\ b \in Seq(Byte)
      /\ Len(b) = HeaderLen + Len(q) /\ Len(q) \in Nat /\ Lies(b, HeaderLen, q)
      /\ PayloadSize(h) = Len(q) /\ Len(q) <= MaxPayload
  BY WireFrame
<1>3. HeaderLen \in Nat /\ HeaderLen >= 16 BY HeaderHoldsItsFields
<1> DEFINE g == SubSeq(q, 1, m2)
           s == SubSeq(q, 1, m1)
<1>4. s \o SubSeq(b, y, e) = g /\ g \in Seq(Byte) /\ Len(g) = m2 /\ (m2 = Len(q) => g = q)
  <2>1. PICK k \in Nat : k = HeaderLen BY <1>3
  <2>2. m1 <= m2 /\ y = (k + m1) + 1 /\ e = k + m2 BY <1>3, <2>1
  <2>3. Lies(b, k, q) /\ b \in Seq(Byte) /\ q \in Seq(Byte) BY <1>2, <2>1
  <2>8. m1 \in Nat /\ m2 \in Nat /\ y \in Nat /\ e \in Nat OBVIOUS
  <2>9. Grown(q, m1, b, y, e, m2) BY <2>2, <2>3, <2>8, GrowsIn
  <2>4. SubSeq(q, 1, m1) \o SubSeq(b, y, e) = SubSeq(q, 1, m2) BY <2>9 DEF Grown
  <2>5. m2 <= Len(q) BY <2>2, <1>2
  <2>6. SubSeq(q, 1, m2) \in Seq(Byte) /\ Len(SubSeq(q, 1, m2)) = m2 BY <2>3, <2>5, PrefixIs
  <2>7. m2 = Len(q) => SubSeq(q, 1, m2) = q BY <2>3, SubSeqFull
  <2> QED BY <2>4, <2>6, <2>7
<1> HIDE DEF g, s
<1>5. m2 > m1 /\ Len(q) > 0 /\ Len(q) # 0 BY <1>2, <1>3
<1>6. r.payload = s /\ ~(Len(r.hdr) < HeaderLen) BY <1>2, <1>3 DEF s
<1>7. PICK r2 : r2 = SetPayload(r, g) OBVIOUS
<1>8. Behind(j, i - 1, r2) /\ r2.hdr = h /\ r2.payload = g /\ r2.open = r.open
  BY <1>4, <1>7, PayloadKept
<1>9. x = WithHeader(r2, now)
  <2>1. x = WithHeader([r EXCEPT !.payload = @ \o SubSeq(b, y, e)], now) BY <1>6 DEF Receive
  <2>2. [r EXCEPT !.payload = @ \o SubSeq(b, y, e)] = [r EXCEPT !.payload = s \o SubSeq(b, y, e)]
    BY <1>6
  <2> QED BY Zenon, <1>4, <1>7, <2>1, <2>2 DEF SetPayload
<1>10. x = Arrived(r2, Len(q), now)
  <2>1. ~(Len(r2.hdr) < HeaderLen) BY <1>2, <1>3, <1>8
  <2> QED BY <1>2, <1>8, <1>9, <2>1 DEF WithHeader
<1>11. ~(Len(q) = 0 \/ Len(q) > MaxPayload) BY <1>2, <1>5 DEF MaxPayload
<1>12. CASE m2 < Len(q)
  <2>1. x = r2 BY <1>4, <1>8, <1>10, <1>11, <1>12 DEF Arrived
  <2>2. e < Len(b) BY <1>2, <1>3, <1>12
  <2>3. e >= HeaderLen /\ e - HeaderLen = m2 BY <1>3
  <2>4. Cut(j, i, e, x) BY <1>8, <1>12, <2>1, <2>3 DEF Cut, g
  <2> QED BY <1>8, <2>1, <2>2, <2>4 DEF Reached
<1>13. CASE m2 = Len(q)
  <2>1. r2.payload = q /\ ~(Len(r2.payload) < Len(q)) BY <1>2, <1>4, <1>8, <1>13
  <2> DEFINE d == Deliver(r2, h, q, now)
  <2>2. x = NextFrame(d) BY <1>8, <1>10, <1>11, <2>1 DEF Arrived
  <2>3. Behind(j, i, d) /\ d.open = r2.open
    <3>1. PICK f : f = j.frames[i] OBVIOUS
    <3>2. h = FrameHeader(f, Len(Plain(f))) BY <3>1 DEF Header
    <3>3. f.nals # <<>>
      <4>1. Len(q) # 0 => j.frames[i].nals # <<>> BY WireFrame
      <4> QED BY <1>5, <3>1, <4>1
    <3>4. d = Deliver(r2, h, Payload(j, i), now) OBVIOUS
    <3> HIDE DEF d
    <3> QED BY <1>8, <3>1, <3>2, <3>3, <3>4, DeliverIs
  <2> HIDE DEF d
  <2>4. Behind(j, i, x) /\ Cut(j, i + 1, 0, x) /\ x.open = d.open BY <2>2, <2>3, NextFrameIs
  <2>5. ~(e < Len(b)) BY <1>2, <1>3, <1>13
  <2> QED BY <1>8, <2>3, <2>4, <2>5 DEF Reached
<1> QED BY <1>2, <1>12, <1>13

\* No frame yet.
LEMMA PushInit == StreamInit => PushInv
<1> SUFFICES ASSUME StreamInit, job.kind = "push" PROVE PushInv
  BY DEF PushInv
<1>1. /\ WellFormed(job) /\ bytes = OnWire(job) /\ sent = Start(job).sent /\ rx = Start(job).rx
  BY JobsWellFormed DEF StreamInit
<1>2. WellFormedScreen(job) BY <1>1 DEF WellFormed
<1>3. bytes = [i \in DOMAIN job.frames |-> FrameBytes(job, i)] BY <1>1 DEF OnWire
<1> DEFINE a == SetCtrKey(NewCtr, job.key, job.iv)
<1>4. sent = [frame |-> 1, at |-> 0, hangups |-> 1] /\ rx = NewPush(job.codec, a) BY <1>1 DEF Start
<1>5. job.key \in Block /\ job.iv \in Block BY <1>2 DEF WellFormedScreen, WellFormedKeys, Block
<1>6. a \in CtrState(KeyExpansion(job.key), job.iv, MaskedFirst(job.frames, 0))
  <2>1. MaskedFirst(job.frames, 0) = 0 BY MaskedLaw
  <2> QED BY <1>5, <2>1, CtrStarts
<1> HIDE DEF a
<1>7. <<>> \in Seq(Byte) /\ <<>> \in Seq(CallBacks(job.codec)) BY EmptySeq
<1>8. /\ rx \in PushRx(job, 0) /\ rx.frames = <<>> /\ rx.base_clk = 0 /\ rx.first_ntp = 0
      /\ rx.hdr = <<>> /\ rx.payload = <<>> /\ rx.open
  BY <1>4, <1>6, <1>7 DEF NewPush, PushRx
<1>9. Behind(job, 0, rx) BY <1>8, SeenNothing DEF Behind
<1>10. Cut(job, 1, 0, rx) BY <1>8 DEF Cut
<1>11. Len(job.frames) \in Nat BY <1>2 DEF WellFormedScreen
<1>12. sent \in [frame : 1..(Len(job.frames) + 1), at : Nat, hangups : Nat] BY <1>4, <1>11
<1>13. sent.frame = 1 /\ sent.frame - 1 = 0 /\ sent.at = 0 BY <1>4
<1> QED BY <1>2, <1>3, <1>8, <1>9, <1>10, <1>12, <1>13 DEF PushInv

\* One recv().
LEMMA PushedStep ==
  ASSUME PushInv, Pushed PROVE PushInv'
<1>1. /\ job.kind = "push" /\ rx.open /\ sent.frame <= Len(job.frames)
      /\ WellFormedScreen(job)
      /\ bytes = [i \in DOMAIN job.frames |-> FrameBytes(job, i)]
      /\ sent \in [frame : 1..(Len(job.frames) + 1), at : Nat, hangups : Nat]
      /\ Behind(job, sent.frame - 1, rx) /\ Cut(job, sent.frame, sent.at, rx)
      /\ job' = job /\ bytes' = bytes
  BY DEF Pushed, PushInv
<1>2. PICK i : i = sent.frame OBVIOUS
<1>3. PICK at : at = sent.at OBVIOUS
<1>4. at \in Nat /\ i \in 1..Len(job.frames) /\ Len(job.frames) \in Nat
  <2>1. sent.frame \in 1..(Len(job.frames) + 1) /\ sent.at \in Nat BY <1>1
  <2>2. Len(job.frames) \in Nat BY <1>1 DEF WellFormedScreen
  <2> QED BY <1>1, <1>2, <1>3, <2>1, <2>2
<1>5. PICK b : b = FrameBytes(job, i) OBVIOUS
<1>6. bytes[sent.frame] = b
  <2>1. i \in DOMAIN job.frames BY <1>1, <1>4 DEF WellFormedScreen
  <2> QED BY <1>1, <1>2, <1>5, <2>1
<1>7. PICK now : now = 1000 * sent.frame OBVIOUS
<1>8. now \in Nat \ {0} BY <1>2, <1>4, <1>7
<1>9. PICK n \in 1..Wanted(rx) :
         /\ at + n <= Len(b)
         /\ rx' = Receive(rx, SubSeq(b, at + 1, at + n), now)
         /\ sent' = IF at + n = Len(b) THEN [sent EXCEPT !.frame = sent.frame + 1, !.at = 0]
                    ELSE [sent EXCEPT !.at = at + n]
  BY <1>3, <1>6, <1>7 DEF Pushed
<1>10. PICK h : h = Header(job, i) OBVIOUS
<1>11. PICK q : q = Payload(job, i) OBVIOUS
<1>12. /\ h \in Seq(Byte) /\ Len(h) = HeaderLen /\ q \in Seq(Byte) /\ b \in Seq(Byte)
       /\ Len(b) = HeaderLen + Len(q) /\ Len(q) \in Nat /\ PayloadSize(h) = Len(q)
  BY <1>1, <1>4, <1>5, <1>10, <1>11, WireFrame
<1>13. HeaderLen \in Nat /\ HeaderLen >= 16 BY HeaderHoldsItsFields
<1>14. Behind(job, i - 1, rx) /\ Cut(job, i, at, rx) BY <1>1, <1>2, <1>3
<1>15. \/ at < HeaderLen /\ rx.hdr = SubSeq(h, 1, at) /\ rx.payload = <<>>
       \/ /\ at >= HeaderLen /\ at - HeaderLen < Len(q) /\ rx.hdr = h
          /\ rx.payload = SubSeq(q, 1, at - HeaderLen)
  <2>1. CASE at = 0 /\ rx.hdr = <<>> /\ rx.payload = <<>>
    <3>1. SubSeq(h, 1, 0) = <<>> OBVIOUS
    <3> QED BY <1>13, <2>1, <3>1
  <2> QED BY <1>10, <1>11, <1>14, <2>1 DEF Cut
<1>16. PICK e : e = at + n OBVIOUS
<1>17. PICK y : y = at + 1 OBVIOUS
<1>18. rx' = Receive(rx, SubSeq(b, y, e), now) BY <1>9, <1>16, <1>17
<1>19. y \in Nat /\ (n \in Nat => e \in Nat) BY <1>4, <1>16, <1>17
<1>20. Reached(job, i, e, rx') /\ rx'.open = rx.open /\ n \in Nat /\ n >= 1
  <2>1. CASE at < HeaderLen /\ rx.hdr = SubSeq(h, 1, at) /\ rx.payload = <<>>
    <3>1. Len(rx.hdr) = at
      <4>1. at <= Len(h) BY <1>4, <1>12, <1>13, <2>1
      <4> QED BY <1>4, <1>12, <2>1, <4>1, PrefixIs
    <3>2. Wanted(rx) = HeaderLen - at BY <2>1, <3>1 DEF Wanted
    <3>3. n \in Nat /\ n >= 1 /\ at < e /\ e <= HeaderLen BY <1>4, <1>9, <1>13, <1>16, <3>2
    <3>4. e \in Nat BY <1>19, <3>3
    <3>5. NoPayload(rx) /\ rx.hdr = SubSeq(h, 1, at) BY <2>1 DEF NoPayload
    <3>6. y \in Nat /\ y = at + 1 BY <1>17, <1>19
    <3>7. PICK x : x = rx' OBVIOUS
    <3>8. x = Receive(rx, SubSeq(b, y, e), now) BY <1>18, <3>7
    <3>9. Goes(job, i, rx, x, now, h, at, b, y, e)
      BY <1>1, <1>4, <1>5, <1>8, <1>10, <1>14, <3>3, <3>4, <3>5, <3>6, <3>8, HeaderPiece
    <3> QED BY <3>3, <3>7, <3>9 DEF Goes
  <2>2. CASE /\ at >= HeaderLen /\ at - HeaderLen < Len(q) /\ rx.hdr = h
             /\ rx.payload = SubSeq(q, 1, at - HeaderLen)
    <3>1. PICK m1 \in Nat : m1 = at - HeaderLen BY <1>4, <1>13, <2>2
    <3>2. rx.payload = SubSeq(q, 1, m1) /\ at = HeaderLen + m1 /\ m1 <= Len(q)
      BY <1>4, <1>12, <1>13, <2>2, <3>1
    <3>3. Len(rx.payload) = m1 BY <1>12, <3>2, PrefixIs
    <3>4. Wanted(rx) = Len(q) - m1
      <4>1. rx.hdr = h /\ Len(rx.hdr) = HeaderLen /\ PayloadSize(rx.hdr) = Len(q) BY <1>12, <2>2
      <4>2. ~(Len(rx.hdr) < HeaderLen) BY <1>13, <4>1
      <4> QED BY <3>3, <4>1, <4>2 DEF Wanted
    <3>5. n \in Nat /\ n >= 1 /\ n <= Len(q) - m1 BY <1>9, <1>12, <3>1, <3>4
    <3>6. PICK m2 \in Nat : m2 = m1 + n BY <3>5
    <3>7. m1 < m2 /\ m2 <= Len(q) BY <1>12, <3>5, <3>6
    <3>8. e = HeaderLen + m2 /\ e \in Nat BY <1>4, <1>13, <1>16, <3>2, <3>5, <3>6
    <3>9. y \in Nat /\ y = (HeaderLen + m1) + 1 BY <1>13, <1>17, <3>2
    <3>10. PICK x : x = rx' OBVIOUS
    <3>11. rx.hdr = h /\ rx.payload = SubSeq(q, 1, m1) BY <2>2, <3>2
    <3>12. x = Receive(rx, SubSeq(b, y, e), now) BY <1>18, <3>10
    <3>13. Goes(job, i, rx, x, now, h, m1, b, y, e)
      BY <1>1, <1>4, <1>5, <1>8, <1>10, <1>11, <1>14, <3>7, <3>8, <3>9, <3>11, <3>12, PayloadPiece
    <3> QED BY <3>5, <3>10, <3>13 DEF Goes
  <2> QED BY <1>15, <2>1, <2>2
<1>21. e \in Nat /\ e <= Len(b) BY <1>4, <1>9, <1>16, <1>20
<1>22. CASE e = Len(b)
  <2>1. Behind(job, i, rx') /\ Cut(job, i + 1, 0, rx')
    BY <1>5, <1>12, <1>13, <1>20, <1>21, <1>22 DEF Reached
  <2>5. PICK k : k = i + 1 OBVIOUS
  <2>6. k \in 1..(Len(job.frames) + 1) /\ k - 1 = i /\ 0 \in Nat BY <1>4, <2>5
  <2>2. sent' = [sent EXCEPT !.frame = k, !.at = 0] BY <1>2, <1>9, <1>16, <1>22, <2>5
  <2>7. /\ sent'.frame = k /\ sent'.at = 0
        /\ sent' \in [frame : 1..(Len(job.frames) + 1), at : Nat, hangups : Nat]
    <3> DEFINE F == 1..(Len(job.frames) + 1)
    <3>1. sent \in [frame : F, at : Nat, hangups : Nat] /\ k \in F BY <1>1, <2>6
    <3> HIDE DEF F
    <3>2. /\ sent'.frame = k /\ sent'.at = 0 /\ sent' \in [frame : F, at : Nat, hangups : Nat]
      BY <2>2, <2>6, <3>1
    <3> QED BY <3>2 DEF F
  <2>3. sent'.frame = i + 1 /\ sent'.frame - 1 = i /\ sent'.at = 0
        /\ sent' \in [frame : 1..(Len(job.frames) + 1), at : Nat, hangups : Nat]
    BY <2>5, <2>6, <2>7
  <2> QED BY <1>1, <2>1, <2>3 DEF PushInv
<1>23. CASE e # Len(b)
  <2>1. e < Len(b) BY <1>12, <1>13, <1>21, <1>23
  <2>2. Behind(job, i - 1, rx') /\ Cut(job, i, e, rx') BY <1>5, <1>20, <2>1 DEF Reached
  <2>3. sent' = [sent EXCEPT !.at = e] BY <1>9, <1>16, <1>23
  <2>4. sent'.frame = i /\ sent'.at = e
        /\ sent' \in [frame : 1..(Len(job.frames) + 1), at : Nat, hangups : Nat]
    BY <1>1, <1>2, <1>21, <2>3
  <2> QED BY <1>1, <1>20, <2>2, <2>4 DEF PushInv
<1> QED BY <1>22, <1>23

\* The connection is lost; the frame that was cut is dropped.
LEMMA HangUpStep ==
  ASSUME PushInv, HangUp PROVE PushInv'
<1>1. /\ job.kind = "push" /\ sent.hangups > 0
      /\ WellFormedScreen(job)
      /\ bytes = [i \in DOMAIN job.frames |-> FrameBytes(job, i)]
      /\ sent \in [frame : 1..(Len(job.frames) + 1), at : Nat, hangups : Nat]
      /\ Behind(job, sent.frame - 1, rx)
      /\ job' = job /\ bytes' = bytes
      /\ rx' = Disconnect(rx) /\ sent' = [sent EXCEPT !.hangups = sent.hangups - 1, !.at = 0]
  BY DEF HangUp, PushInv
<1>2. PICK i : i = sent.frame OBVIOUS
<1>3. i \in 1..(Len(job.frames) + 1) /\ sent.hangups \in Nat BY <1>1, <1>2
<1>4. PICK m \in Nat : m = i - 1 BY <1>3
<1>5. m + 1 = i BY <1>3, <1>4
<1> DEFINE x == NextFrame(rx)
<1>6. Behind(job, m, x) /\ Cut(job, i, 0, x)
  <2>1. Behind(job, m, rx) BY <1>1, <1>2, <1>4
  <2>2. Behind(job, m, x) /\ Cut(job, m + 1, 0, x) BY <2>1, NextFrameIs
  <2> QED BY <1>5, <2>2
<1>7. rx' = SetOpen(x, FALSE) BY <1>1 DEF Disconnect, SetOpen
<1> HIDE DEF x
<1>8. Behind(job, m, rx') /\ rx'.hdr = x.hdr /\ rx'.payload = x.payload
  <2>1. ASSUME NEW o \in BOOLEAN, NEW z, z = SetOpen(x, o)
        PROVE  Behind(job, m, z) /\ z.hdr = x.hdr /\ z.payload = x.payload
    BY <1>6, <2>1, OpenKept
  <2> QED BY <1>7, <2>1, Zenon
<1>9. Cut(job, i, 0, rx') BY <1>6, <1>8 DEF Cut
<1>10. /\ sent' \in [frame : 1..(Len(job.frames) + 1), at : Nat, hangups : Nat]
       /\ sent'.frame = i /\ sent'.at = 0
  <2> DEFINE F == 1..(Len(job.frames) + 1)
  <2>1. PICK g : g = sent.hangups - 1 OBVIOUS
  <2>2. g \in Nat /\ 0 \in Nat BY <1>1, <1>3, <2>1
  <2>3. sent' = [sent EXCEPT !.hangups = g, !.at = 0] BY <1>1, <2>1
  <2>4. sent \in [frame : F, at : Nat, hangups : Nat] /\ sent.frame = i BY <1>1, <1>2
  <2> HIDE DEF F
  <2>5. sent' \in [frame : F, at : Nat, hangups : Nat] /\ sent'.frame = i /\ sent'.at = 0
    BY <2>2, <2>3, <2>4
  <2> QED BY <2>5 DEF F
<1> QED BY <1>1, <1>4, <1>8, <1>9, <1>10 DEF PushInv

\* The next connection starts in front of a frame.
LEMMA ConnectStep ==
  ASSUME PushInv, ConnectAgain PROVE PushInv'
<1>1. /\ job.kind = "push"
      /\ WellFormedScreen(job)
      /\ bytes = [i \in DOMAIN job.frames |-> FrameBytes(job, i)]
      /\ sent \in [frame : 1..(Len(job.frames) + 1), at : Nat, hangups : Nat]
      /\ Behind(job, sent.frame - 1, rx) /\ Cut(job, sent.frame, sent.at, rx)
      /\ rx.open \/ sent.at = 0
      /\ ~rx.open
      /\ job' = job /\ bytes' = bytes /\ sent' = sent /\ rx' = Accept(rx)
  BY DEF ConnectAgain, PushInv
<1>2. PICK m : m = sent.frame - 1 OBVIOUS
<1>3. rx' = SetOpen(rx, TRUE) BY <1>1 DEF Accept, SetOpen
<1>4. Behind(job, m, rx') /\ rx'.hdr = rx.hdr /\ rx'.payload = rx.payload
  <2>0. Behind(job, m, rx) BY <1>1, <1>2
  <2>1. ASSUME NEW o \in BOOLEAN, NEW z, z = SetOpen(rx, o)
        PROVE  Behind(job, m, z) /\ z.hdr = rx.hdr /\ z.payload = rx.payload
    BY <2>0, <2>1, OpenKept
  <2> QED BY <1>3, <2>1, Zenon
<1>5. Cut(job, sent.frame, sent.at, rx') BY <1>1, <1>4 DEF Cut
<1> QED BY <1>1, <1>2, <1>4, <1>5 DEF PushInv

\* What the screen shows is what was seen.
LEMMA PushShows == PushInv => (job.kind = "push" => ScreenShown)
<1> SUFFICES ASSUME PushInv, job.kind = "push" PROVE ScreenShown OBVIOUS
<1> DEFINE fs == job.frames
           n == sent.frame - 1
           s == Shown(fs, n)
           frame(k) == fs[s[k]]
<1>1. Seen(job, n, rx.frames, rx.base_clk, rx.first_ntp) BY DEF PushInv, Behind
<1>2. WellFormedScreen(job) /\ sent.frame \in 1..(Len(fs) + 1) BY DEF PushInv
<1>3. /\ s \in Seq(1..n) /\ Len(rx.frames) = Len(s)
      /\ rx.base_clk \in Nat /\ rx.first_ntp \in Nat
      /\ \A k \in 1..Len(s) : Told(rx.frames[k], fs[s[k]], rx.base_clk, rx.first_ntp)
      /\ rx.base_clk = 0 => \A k \in 1..Len(s) : fs[s[k]].type # 0
      /\ rx.base_clk # 0 => \E q \in 1..Len(s) : FirstPicture(fs, s, q, rx.first_ntp)
  BY <1>1 DEF Seen
<1> HIDE DEF n, s
<1>4. DOMAIN s = 1..Len(s) /\ Len(s) \in Nat BY <1>3, LenProperties
<1>5. ASSUME NEW k \in 1..Len(s)
      PROVE  FrameAgrees(rx.frames[k], frame(k)) /\ (frame(k).type = 0 =>
               rx.frames[k].pts_us = rx.base_clk + ((frame(k).ntp - rx.first_ntp) \div 1000))
             /\ frame(k).ntp \in Nat
  <2>1. s[k] \in 1..n BY <1>3, ElementOfSeq
  <2>2. s[k] \in DOMAIN fs BY <1>2, <2>1 DEF WellFormedScreen, n
  <2>3. WellFormedFrame(job.codec, fs[s[k]]) BY <1>2, <2>2 DEF WellFormedScreen
  <2>4. Told(rx.frames[k], frame(k), rx.base_clk, rx.first_ntp) BY <1>3
  <2>5. frame(k).ntp \in Nat BY <2>3 DEF WellFormedFrame
  <2> HIDE DEF frame
  <2> QED BY <2>4, <2>5 DEF Told
<1> DEFINE Spaced(i, k) ==
             rx.frames[k].pts_us - rx.frames[i].pts_us = (frame(k).ntp - frame(i).ntp) \div 1000
<1>6. ASSUME NEW i \in 1..Len(s), NEW k \in 1..Len(s), frame(i).type = 0, frame(k).type = 0,
             \A m \in 1..(i - 1) : frame(m).type # 0
      PROVE  Spaced(i, k)
  <2>1. rx.base_clk # 0 BY <1>3, <1>6
  <2>2. PICK q \in 1..Len(s) : FirstPicture(fs, s, q, rx.first_ntp) BY <1>3, <2>1
  <2>3. q = i
    <3>1. frame(q).type = 0 /\ \A m \in 1..(q - 1) : frame(m).type # 0 BY <2>2 DEF FirstPicture
    <3> HIDE DEF frame
    <3>2. ~(i < q)
      <4>1. i < q => i \in 1..(q - 1) BY <1>4
      <4> QED BY <1>6, <3>1, <4>1
    <3>3. ~(q < i)
      <4>1. q < i => q \in 1..(i - 1) BY <1>4
      <4> QED BY <1>6, <3>1, <4>1
    <3> QED BY <1>4, <3>2, <3>3
  <2>4. frame(i).ntp = rx.first_ntp BY <2>2, <2>3 DEF FirstPicture
  <2> HIDE DEF frame
  <2>5. rx.frames[i].pts_us = rx.base_clk + ((frame(i).ntp - rx.first_ntp) \div 1000) BY <1>5, <1>6
  <2>6. (frame(i).ntp - rx.first_ntp) \div 1000 = 0 BY <1>3, <2>4
  <2>7. rx.frames[i].pts_us = rx.base_clk BY <1>3, <2>5, <2>6
  <2>8. PICK d : d = (frame(k).ntp - frame(i).ntp) \div 1000 OBVIOUS
  <2>9. rx.frames[k].pts_us = rx.base_clk + d BY <1>5, <1>6, <2>4, <2>8
  <2>10. d \in Int BY <1>5, <2>8
  <2> QED BY <1>3, <2>7, <2>8, <2>9, <2>10
<1> HIDE DEF frame, Spaced
<1>7. \A k \in DOMAIN s : FrameAgrees(rx.frames[k], frame(k)) BY <1>4, <1>5
<1>8. \A i, k \in DOMAIN s :
         /\ frame(i).type = 0 /\ frame(k).type = 0
         /\ \A m \in 1..(i - 1) : frame(m).type # 0
         => Spaced(i, k)
  BY <1>4, <1>6
<1> QED BY <1>3, <1>7, <1>8 DEF ScreenShown, frame, s, n, Spaced

\* The hash has always taken what was given to it.
LEMMA HashInvariant == StreamSpec => []HashInv
<1>1. StreamInit => HashInv BY HashInit
<1>2. HashInv /\ [StreamNext]_vars => HashInv'
  <2> SUFFICES ASSUME HashInv, [StreamNext]_vars PROVE HashInv' OBVIOUS
  <2>1. CASE HashPiece BY <2>1, HashStep
  <2>2. CASE Segment \/ Pushed \/ HangUp \/ ConnectAgain \/ AudioPacket
    <3>1. job' = job /\ job.kind # "digest"
      BY <2>2 DEF Segment, Pushed, HangUp, ConnectAgain, AudioPacket
    <3> QED BY <3>1 DEF HashInv
  <2>3. CASE UNCHANGED vars
    <3>1. job' = job /\ bytes' = bytes /\ sent' = sent /\ rx' = rx BY <2>3 DEF vars
    <3> QED BY <3>1 DEF HashInv
  <2> QED BY <2>1, <2>2, <2>3 DEF StreamNext
<1> QED BY <1>1, <1>2, PTL DEF StreamSpec

\* Whatever pieces a message is given in, its digest is that of FIPS 180-4 (update
\* and final of sha512.cpp, whose padding the standard describes).
THEOREM DigestInPieces == StreamSpec => [](job.kind = "digest" => DigestAgrees)
<1>1. HashInv => (job.kind = "digest" => DigestAgrees) BY HashShows
<1> QED BY <1>1, HashInvariant, PTL

\* The receiver is always behind the frames that were complete and in the one that is not.
LEMMA PushInvariant == StreamSpec => []PushInv
<1>1. StreamInit => PushInv BY PushInit
<1>2. PushInv /\ [StreamNext]_vars => PushInv'
  <2> SUFFICES ASSUME PushInv, [StreamNext]_vars PROVE PushInv' OBVIOUS
  <2>1. CASE Pushed BY <2>1, PushedStep
  <2>2. CASE HangUp BY <2>2, HangUpStep
  <2>3. CASE ConnectAgain BY <2>3, ConnectStep
  <2>4. CASE Segment \/ AudioPacket \/ HashPiece
    <3>1. job' = job /\ job.kind # "push" BY <2>4 DEF Segment, AudioPacket, HashPiece
    <3> QED BY <3>1 DEF PushInv
  <2>5. CASE UNCHANGED vars
    <3>1. job' = job /\ bytes' = bytes /\ sent' = sent /\ rx' = rx BY <2>5 DEF vars
    <3> QED BY <3>1 DEF PushInv
  <2> QED BY <2>1, <2>2, <2>3, <2>4, <2>5 DEF StreamNext
<1> QED BY <1>1, <1>2, PTL DEF StreamSpec

\* Whatever segments the frames of the screen arrive in, and however often the
\* connection was lost in the middle of one, exactly the complete frames are shown,
\* at the distances in time the sender gave them (tcp_push_worker of video_rtp.cpp).
THEOREM ScreenInPieces == StreamSpec => [](job.kind = "push" => ScreenShown)
<1>1. PushInv => (job.kind = "push" => ScreenShown) BY PushShows
<1> QED BY <1>1, PushInvariant, PTL


-----------------------------------------------------------------------------
(* The parser of requests: what a segment is, and where a word in it ends. *)

\* The least element of a set of positions.
LEMMA MinIs ==
  ASSUME NEW S, S # {}, S \subseteq Nat
  PROVE  Http!Min(S) \in S /\ \A y \in S : Http!Min(S) <= y
<1>1. PICK m \in S : \A y \in S : ~(y < m) BY LeastElement
<1>2. \A y \in S : m <= y BY <1>1
<1> QED BY Zenon, <1>2 DEF Http!Min

\* The first stop from a position on.
LEMMA EndOfIs ==
  ASSUME NEW seg \in Seq(Token), NEW at \in Nat, 1 <= at, at <= Len(seg) + 1, NEW stops,
         NEW e, e = Http!EndOf(seg, at, stops)
  PROVE  /\ e \in Nat /\ at <= e /\ e <= Len(seg) + 1
         /\ e <= Len(seg) => seg[e] \in stops
         /\ \A i \in Nat : at <= i /\ i < e => seg[i] \notin stops
<1> DEFINE L == Len(seg)
           S == {x \in at..L : seg[x] \in stops} \cup {L + 1}
<1>1. L \in Nat BY LenProperties
<1>2. e = Http!Min(S) BY DEF Http!EndOf
<1> HIDE DEF L
<1>3. L + 1 \in S /\ S \subseteq Nat BY <1>1
<1>4. S # {} BY <1>3
<1> DEFINE R == S
<1>5. R # {} /\ R \subseteq Nat /\ e = Http!Min(R) BY <1>2, <1>3, <1>4
<1> HIDE DEF R
<1>6. e \in R /\ \A y \in R : e <= y BY Zenon, <1>5, MinIs
<1>7. e \in S /\ e <= L + 1 BY <1>3, <1>6 DEF R
<1>8. e \in Nat /\ at <= e /\ e <= L + 1 BY <1>1, <1>3, <1>7, at <= L + 1 DEF L
<1>9. e <= L => seg[e] \in stops BY <1>1, <1>7
<1>10. ASSUME NEW i \in Nat, at <= i, i < e, seg[i] \in stops PROVE FALSE
  <2>1. i \in at..L BY <1>1, <1>8, <1>10
  <2>2. i \in R BY <1>10, <2>1 DEF R
  <2> QED BY <1>6, <1>8, <1>10, <2>2
<1> QED BY <1>8, <1>9, <1>10 DEF L

\* The tokens of a segment.
LEMMA SegIs ==
  ASSUME NEW T \in Seq(Token), NEW a, NEW n, NEW seg, SegOf(T, a, n, seg)
  PROVE  /\ seg \in Seq(Token) /\ Len(seg) = n - a /\ Len(T) \in Nat
         /\ \A i \in 1..Len(seg) : seg[i] = T[a + i]
<1>1. a \in Nat /\ n \in Nat /\ a < n /\ n <= Len(T) BY DEF SegOf
<1>9. seg = SubSeq(T, a + 1, n) BY DEF SegOf
<1>2. Len(T) \in Nat BY LenProperties
<1>3. PICK x \in Nat : x = a + 1 BY <1>1
<1>4. x \in Nat /\ n \in Nat /\ n <= Len(T) /\ 1 <= x /\ x <= n + 1 /\ (n + 1) - x = n - a
      /\ x - 1 = a
  BY <1>1, <1>3
<1>5. seg = SubSeq(T, x, n) BY <1>3, <1>9
<1>6. /\ SubSeq(T, x, n) \in Seq(Token) /\ Len(SubSeq(T, x, n)) = (n + 1) - x
      /\ \A i \in 1..(n + 1) - x : SubSeq(T, x, n)[i] = T[(x - 1) + i]
  BY <1>4, PieceIs
<1>7. seg \in Seq(Token) /\ Len(seg) = n - a BY <1>4, <1>5, <1>6
<1>8. \A i \in 1..Len(seg) : seg[i] = T[a + i] BY <1>4, <1>5, <1>6, <1>7
<1> QED BY <1>2, <1>7, <1>8

\* A piece of the segment is a piece of the text.
LEMMA SegPiece ==
  ASSUME NEW T \in Seq(Token), NEW a, NEW n, NEW seg, SegOf(T, a, n, seg),
         NEW x \in Nat, NEW m \in Nat, 1 <= x, x <= m + 1, m <= Len(seg),
         NEW y \in Nat, y = a + x, NEW k \in Nat, k = a + m
  PROVE  SamePiece(seg, x, m, T, y, k)
<1>1. /\ seg \in Seq(Token) /\ Len(seg) = n - a /\ Len(T) \in Nat
      /\ \A i \in 1..Len(seg) : seg[i] = T[a + i]
  BY SegIs
<1>2. a \in Nat /\ n \in Nat /\ a < n /\ n <= Len(T) BY DEF SegOf
<1> DEFINE u == SubSeq(seg, x, m)
           v == SubSeq(T, y, k)
<1>3. u \in Seq(Token) /\ Len(u) = (m + 1) - x /\ \A i \in 1..(m + 1) - x : u[i] = seg[(x - 1) + i]
  BY <1>1, PieceIs
<1>4. v \in Seq(Token) /\ Len(v) = (k + 1) - y /\ \A i \in 1..(k + 1) - y : v[i] = T[(y - 1) + i]
  <2>1. 1 <= y /\ y <= k + 1 /\ k <= Len(T) BY <1>1, <1>2
  <2> QED BY <2>1, PieceIs
<1> HIDE DEF u, v
<1>5. (k + 1) - y = (m + 1) - x BY <1>2
<1>6. ASSUME NEW i \in 1..(m + 1) - x PROVE u[i] = v[i]
  <2>1. PICK g \in Nat : g = (x - 1) + i OBVIOUS
  <2>2. g \in 1..Len(seg) /\ (y - 1) + i = a + g BY <1>1, <1>2, <2>1
  <2>3. u[i] = seg[g] BY <1>3, <2>1
  <2>4. seg[g] = T[a + g] BY <1>1, <2>2
  <2>5. v[i] = T[a + g] BY Zenon, <1>4, <1>5, <2>2
  <2> QED BY <2>3, <2>4, <2>5
<1>7. u = v BY <1>3, <1>4, <1>5, <1>6, SeqEqual
<1> QED BY <1>7 DEF u, v, SamePiece

\* From inside a word on, a search finds its end or the end of the segment.
LEMMA ScanIs ==
  ASSUME NEW T \in Seq(Token), NEW a, NEW n, NEW seg, SegOf(T, a, n, seg),
         NEW at \in Nat, 1 <= at, at <= Len(seg),
         NEW s \in Nat, NEW w \in Seq(Token), NEW stops, WordEnds(T, s, w, stops),
         NEW k \in Nat, k <= Len(w), s + k = a + at - 1,
         NEW e, e = Http!EndOf(seg, at, stops)
  PROVE  Scanned(T, a, n, seg, at, s, w, k, stops, e)
<1>1. /\ seg \in Seq(Token) /\ Len(seg) = n - a /\ Len(T) \in Nat
      /\ \A i \in 1..Len(seg) : seg[i] = T[a + i]
  BY SegIs
<1>2. a \in Nat /\ n \in Nat /\ a < n /\ n <= Len(T) BY DEF SegOf
<1>3. Len(w) \in Nat /\ Len(seg) \in Nat BY <1>1, LenProperties
<1>4. /\ Lies(T, s, w) /\ s + Len(w) + 1 <= Len(T) /\ T[s + Len(w) + 1] \in stops
      /\ \A i \in 1..Len(w) : w[i] \notin stops
  BY DEF WordEnds
<1>5. /\ e \in Nat /\ at <= e /\ e <= Len(seg) + 1
      /\ e <= Len(seg) => seg[e] \in stops
      /\ \A i \in Nat : at <= i /\ i < e => seg[i] \notin stops
  <2>1. at <= Len(seg) + 1 BY <1>3
  <2> QED BY <1>1, <2>1, EndOfIs
<1>6. PICK z \in Nat : z = (s + Len(w) + 1) - a
  <2>1. (s + Len(w) + 1) - a \in Nat
    <3>1. s + Len(w) >= s + k BY <1>3
    <3>2. s + Len(w) >= a + at - 1 BY <3>1
    <3> QED BY <1>2, <1>3, <3>2
  <2> QED BY <2>1
<1>7. at <= z /\ a + z = s + Len(w) + 1 BY <1>2, <1>3, <1>6
<1>8. ASSUME NEW i \in Nat, at <= i, i < z, i <= Len(seg) PROVE seg[i] \notin stops
  <2>1. PICK g \in Nat : g = (a + i) - s BY <1>2, <1>3, <1>8
  <2>2. g \in 1..Len(w) /\ s + g = a + i /\ i \in 1..Len(seg) BY <1>2, <1>3, <1>6, <1>8, <2>1
  <2>3. T[s + g] = w[g] BY <1>4, <2>2 DEF Lies
  <2>4. seg[i] = T[a + i] BY <1>1, <2>2
  <2> QED BY <1>4, <2>2, <2>3, <2>4
<1>9. z <= Len(seg) => seg[z] = T[s + Len(w) + 1] /\ seg[z] \in stops
  <2> HAVE z <= Len(seg)
  <2>1. z \in 1..Len(seg) BY <1>6, <1>7
  <2> QED BY <1>1, <1>4, <1>7, <2>1
<1> DEFINE b == Len(seg)
<1> HIDE DEF b
<1>10. CASE e <= Len(seg)
  <2>1. ~(e < z) BY <1>5, <1>8, <1>10
  <2>2. ~(z < e)
    <3> SUFFICES ASSUME z < e PROVE FALSE OBVIOUS
    <3>1. z <= Len(seg) BY <1>3, <1>5, <1>10
    <3> QED BY <1>5, <1>7, <1>9, <3>1
  <2>3. e = z BY <1>5, <2>1, <2>2
  <2>4. PICK m \in Nat : m = e - 1 BY <1>5
  <2>5. PICK y \in Nat : y = a + at BY <1>2
  <2>6. PICK g \in Nat : g = a + m BY <1>2, <2>4
  <2>7. SamePiece(seg, at, m, T, y, g)
    <3>1. at <= m + 1 /\ m <= Len(seg) BY <1>3, <1>5, <1>10, <2>4
    <3> QED BY Zenon, <2>5, <2>6, <3>1, SegPiece
  <2>8. PICK k2 \in Nat : k2 = Len(w) BY <1>3
  <2>9. Grown(w, k, T, y, g, k2)
    <3>1. k <= k2 /\ k2 <= Len(w) /\ y = (s + k) + 1 /\ g = s + k2
      BY <1>2, <1>3, <1>7, <2>3, <2>4, <2>5, <2>6, <2>8
    <3> QED BY <1>4, <3>1, GrowsIn
  <2>10. SubSeq(w, 1, k2) = w BY <2>8, SubSeqFull
  <2>11. SubSeq(w, 1, k) \o SubSeq(seg, at, m) = w BY <2>7, <2>9, <2>10 DEF Grown, SamePiece
  <2> QED BY Zenon, <1>5, <1>7, <1>9, <1>10, <2>3, <2>4, <2>11 DEF Scanned
<1>11. CASE e > Len(seg)
  <2>1. e = Len(seg) + 1 BY <1>3, <1>5, <1>11
  <2>2. z > Len(seg) BY <1>3, <1>5, <1>7, <1>9, <2>1
  <2>3. n <= s + Len(w) BY <1>1, <1>2, <1>3, <1>6, <2>2
  <2>4. PICK m \in Nat : m = e - 1 BY <1>5, <2>1, <1>3
  <2>5. PICK y \in Nat : y = a + at BY <1>2
  <2>6. n = a + m BY <1>1, <1>2, <2>1, <2>4
  <2>7. SamePiece(seg, at, m, T, y, n)
    <3>1. at <= m + 1 /\ m <= Len(seg) BY <1>3, <2>1, <2>4
    <3> QED BY <1>2, <2>5, <2>6, <3>1, SegPiece
  <2>8. PICK k2 \in Nat : k2 = n - s BY <1>1, <1>2, <1>3
  <2>9. Grown(w, k, T, y, n, k2)
    <3>1. k <= k2 /\ k2 <= Len(w) /\ y = (s + k) + 1 /\ n = s + k2
      BY <1>1, <1>2, <1>3, <2>3, <2>5, <2>8
    <3> QED BY <1>2, <1>4, <3>1, GrowsIn
  <2>10. SubSeq(w, 1, k) \o SubSeq(seg, at, m) = SubSeq(w, 1, k2) BY <2>7, <2>9 DEF Grown, SamePiece
  <2>11. at < e BY <1>3, <2>1
  <2> QED BY <1>5, <1>11, <2>1, <2>3, <2>4, <2>8, <2>10, <2>11 DEF Scanned
<1> QED BY <1>3, <1>5, <1>10, <1>11

-----------------------------------------------------------------------------
(* Where the words of a request are. *)

\* The marks of the syntax.
LEMMA Marks ==
  /\ CrLf \in Seq(Token) /\ Len(CrLf) = 2 /\ CrLf[1] = "CR" /\ CrLf[2] = "LF"
  /\ Space \in Seq(Token) /\ Len(Space) = 1 /\ Space[1] = "SP"
  /\ Colon \in Seq(Token) /\ Len(Colon) = 2 /\ Colon[1] = ":" /\ Colon[2] = "SP"
<1>1. "CR" \in Token /\ "LF" \in Token /\ "SP" \in Token /\ ":" \in Token BY DEF Token
<1> HIDE DEF Token
<1>2. CrLf \in Seq(Token) /\ Len(CrLf) = 2 /\ CrLf[1] = "CR" /\ CrLf[2] = "LF" BY <1>1 DEF CrLf
<1>3. Space \in Seq(Token) /\ Len(Space) = 1 /\ Space[1] = "SP" BY <1>1 DEF Space
<1>4. Colon \in Seq(Token) /\ Len(Colon) = 2 /\ Colon[1] = ":" /\ Colon[2] = "SP" BY <1>1 DEF Colon
<1> QED BY <1>2, <1>3, <1>4

\* Strings are tokens.
LEMMA Tokens ==
  ASSUME NEW s \in Seq(STRING)
  PROVE  s \in Seq(Token)
<1>1. STRING \subseteq Token BY DEF Token
<1> QED BY <1>1, SeqMonotonic

\* What stands at one place.
LEMMA LiesOne ==
  ASSUME NEW T \in Seq(Token), NEW c \in Seq(Token), NEW k \in Nat, Lies(T, k, c),
         NEW i \in Nat, i >= 1, i <= Len(c), NEW x \in Nat, x = k + i
  PROVE  x <= Len(T) /\ T[x] = c[i]
<1>1. Len(c) \in Nat /\ Len(T) \in Nat BY LenProperties
<1>2. i \in 1..Len(c) BY <1>1
<1>3. k + Len(c) <= Len(T) /\ T[k + i] = c[i] BY <1>2 DEF Lies
<1>4. k + i <= Len(T) BY <1>1, <1>3
<1> QED BY <1>3, <1>4

\* A word with a space behind it.
LEMMA WordSpace ==
  ASSUME NEW T \in Seq(Token), NEW w \in Seq(Token), NEW k \in Nat, Lies(T, k, w),
         NEW n \in Nat, n = k + Len(w), Lies(T, n, Space)
  PROVE  EndsWith(T, k, w, "SP")
<1>1. PICK i \in Nat : i = 1 OBVIOUS
<1>2. PICK x \in Nat : x = n + i BY <1>1
<1>3. i >= 1 /\ i <= Len(Space) /\ Space \in Seq(Token) /\ Space[i] = "SP" BY <1>1, Marks
<1>4. x <= Len(T) /\ T[x] = Space[i] BY <1>1, <1>2, <1>3, LiesOne
<1>5. x = k + Len(w) + 1 /\ Len(w) \in Nat BY <1>1, <1>2, LenProperties
<1> QED BY <1>3, <1>4, <1>5 DEF EndsWith

\* A word that ends a line.
LEMMA WordLine ==
  ASSUME NEW T \in Seq(Token), NEW w \in Seq(Token), NEW k \in Nat, Lies(T, k, w),
         NEW n \in Nat, n = k + Len(w), Lies(T, n, CrLf)
  PROVE  EndsLine(T, k, w)
<1>1. PICK i \in Nat : i = 1 OBVIOUS
<1>2. PICK j \in Nat : j = 2 OBVIOUS
<1>3. PICK x \in Nat : x = n + i BY <1>1
<1>4. PICK y \in Nat : y = n + j BY <1>2
<1>5. i >= 1 /\ i <= Len(CrLf) /\ j >= 1 /\ j <= Len(CrLf) /\ CrLf \in Seq(Token)
      /\ CrLf[i] = "CR" /\ CrLf[j] = "LF"
  BY <1>1, <1>2, Marks
<1>6. x <= Len(T) /\ T[x] = CrLf[i] BY <1>1, <1>3, <1>5, LiesOne
<1>7. y <= Len(T) /\ T[y] = CrLf[j] BY <1>2, <1>4, <1>5, LiesOne
<1>8. x = k + Len(w) + 1 /\ y = k + Len(w) + 2 /\ Len(w) \in Nat
  BY <1>1, <1>2, <1>3, <1>4, LenProperties
<1> QED BY <1>5, <1>6, <1>7, <1>8 DEF EndsWith, EndsLine

\* Two texts that are one behind the other are one text.
LEMMA LiesJoin ==
  ASSUME NEW T, NEW s \in Seq(T), NEW a \in Seq(T), NEW b \in Seq(T),
         NEW k \in Nat, Lies(s, k, a), NEW n \in Nat, n = k + Len(a), Lies(s, n, b)
  PROVE  Lies(s, k, a \o b)
<1> DEFINE c == a \o b
<1>1. c \in Seq(T) /\ Len(c) = Len(a) + Len(b) BY ConcatProperties
<1>2. \A i \in 1..Len(a) + Len(b) : c[i] = IF i <= Len(a) THEN a[i] ELSE b[i - Len(a)]
  BY ConcatProperties
<1>3. Len(a) \in Nat /\ Len(b) \in Nat /\ Len(s) \in Nat BY LenProperties
<1> HIDE DEF c
<1>4. k + Len(c) <= Len(s) BY <1>1, <1>3 DEF Lies
<1>5. ASSUME NEW h \in 1..Len(c) PROVE s[k + h] = c[h]
  <2>0. h \in 1..Len(a) + Len(b) BY <1>1
  <2>1. CASE h <= Len(a)
    <3>1. h \in 1..Len(a) BY <1>3, <2>0, <2>1
    <3>2. c[h] = a[h] BY <1>2, <2>0, <2>1
    <3>3. s[k + h] = a[h] BY <3>1 DEF Lies
    <3> QED BY <3>2, <3>3
  <2>2. CASE ~(h <= Len(a))
    <3>1. PICK g \in Nat : g = h - Len(a) BY <1>3, <2>0, <2>2
    <3>2. g \in 1..Len(b) /\ n + g = k + h BY <1>3, <2>0, <2>2, <3>1
    <3>3. c[h] = b[g] BY <1>2, <2>0, <2>2, <3>1
    <3>4. s[n + g] = b[g] BY <3>2 DEF Lies
    <3> QED BY <3>2, <3>3, <3>4
  <2> QED BY <2>1, <2>2
<1> QED BY <1>4, <1>5 DEF Lies

\* The length of two texts, and where they are if they are somewhere together.
LEMMA TwoOf ==
  ASSUME NEW T \in Seq(Token), NEW a \in Seq(Token), NEW b \in Seq(Token), NEW c, c = a \o b,
         NEW k \in Nat, NEW n \in Nat, n = k + Len(a), NEW m \in Nat, m = n + Len(b)
  PROVE  Both(T, a, b, c, k, n, m)
<1>1. c \in Seq(Token) /\ Len(c) = Len(a) + Len(b) BY ConcatProperties
<1>2. Len(a) \in Nat /\ Len(b) \in Nat BY LenProperties
<1>3. Lies(T, k, c) => Lies(T, k, a) /\ Lies(T, n, b)
  <2> HAVE Lies(T, k, c)
  <2>1. Lies(T, k, a \o b) OBVIOUS
  <2> QED BY <2>1, LiesPart
<1> QED BY <1>1, <1>2, <1>3 DEF Both

\* Where the three words of the request line are.
LEMMA RequestLineIs ==
  ASSUME NEW T \in Seq(Token), NEW r, r.method \in Seq(Token), r.uri \in Seq(Token),
         r.protocol \in Seq(Token), NEW k \in Nat, Lies(T, k, RequestLine(r)),
         NEW su \in Nat, su = k + Len(r.method) + 1,
         NEW sv \in Nat, sv = su + Len(r.uri) + 1,
         NEW sh \in Nat, sh = sv + Len(r.protocol) + 2
  PROVE  FirstLineIn(T, r, k, su, sv, sh)
<1>1. PICK m : m = r.method OBVIOUS
<1>2. PICK u : u = r.uri OBVIOUS
<1>3. PICK v : v = r.protocol OBVIOUS
<1> DEFINE A == m \o Space
           B == A \o u
           C == B \o Space
           D == C \o v
           E == D \o CrLf
<1>4. RequestLine(r) = E BY <1>1, <1>2, <1>3 DEF RequestLine, Space, CrLf
<1>5. /\ CrLf \in Seq(Token) /\ Len(CrLf) = 2 /\ Space \in Seq(Token) /\ Len(Space) = 1 BY Marks
<1>6. m \in Seq(Token) /\ u \in Seq(Token) /\ v \in Seq(Token) BY <1>1, <1>2, <1>3
<1>7. Len(m) \in Nat /\ Len(u) \in Nat /\ Len(v) \in Nat BY <1>6, LenProperties
<1>8. PICK k1 \in Nat : k1 = k + Len(m) BY <1>7
<1>9. su = k1 + Len(Space) BY <1>1, <1>5, <1>7, <1>8
<1>10. PICK k2 \in Nat : k2 = su + Len(u) BY <1>7
<1>11. sv = k2 + Len(Space) BY <1>2, <1>5, <1>7, <1>10
<1>12. PICK k3 \in Nat : k3 = sv + Len(v)
  <2>1. \A x, y \in Nat : \E z \in Nat : z = x + y OBVIOUS
  <2> QED BY <1>7, <2>1, Zenon
<1>13. sh = k3 + Len(CrLf) BY <1>3, <1>5, <1>7, <1>12
<1> HIDE DEF A, B, C, D, E
<1>14. A \in Seq(Token) /\ k + Len(A) = su /\ (Lies(T, k, A) => Lies(T, k, m) /\ Lies(T, k1, Space))
  <2>1. A = m \o Space BY DEF A
  <2>2. k1 = k + Len(m) /\ m \in Seq(Token) /\ Space \in Seq(Token) BY <1>5, <1>6, <1>8, <1>9
  <2>3. Both(T, m, Space, A, k, k1, su) BY <1>5, <1>6, <1>8, <1>9, <2>1, <2>2, TwoOf
  <2> QED BY <2>3 DEF Both
<1>15. B \in Seq(Token) /\ k + Len(B) = k2 /\ (Lies(T, k, B) => Lies(T, k, A) /\ Lies(T, su, u))
  <2>1. B = A \o u BY DEF B
  <2>2. su = k + Len(A) /\ A \in Seq(Token) /\ u \in Seq(Token) BY <1>6, <1>10, <1>14
  <2>3. Both(T, A, u, B, k, su, k2) BY Zenon, <1>6, <1>10, <1>14, <2>1, <2>2, TwoOf
  <2> QED BY <2>3 DEF Both
<1>16. C \in Seq(Token) /\ k + Len(C) = sv /\ (Lies(T, k, C) => Lies(T, k, B) /\ Lies(T, k2, Space))
  <2>1. C = B \o Space BY DEF C
  <2>2. k2 = k + Len(B) /\ B \in Seq(Token) /\ Space \in Seq(Token) BY <1>5, <1>11, <1>15
  <2>3. Both(T, B, Space, C, k, k2, sv) BY Zenon, <1>5, <1>11, <1>15, <2>1, <2>2, TwoOf
  <2> QED BY <2>3 DEF Both
<1>17. D \in Seq(Token) /\ k + Len(D) = k3 /\ (Lies(T, k, D) => Lies(T, k, C) /\ Lies(T, sv, v))
  <2>1. D = C \o v BY DEF D
  <2>2. sv = k + Len(C) /\ C \in Seq(Token) /\ v \in Seq(Token) BY <1>6, <1>12, <1>16
  <2>3. Both(T, C, v, D, k, sv, k3) BY <1>6, <1>12, <1>16, <2>1, <2>2, TwoOf
  <2> QED BY <2>3 DEF Both
<1>18. E \in Seq(Token) /\ k + Len(E) = sh /\ (Lies(T, k, E) => Lies(T, k, D) /\ Lies(T, k3, CrLf))
  <2>1. E = D \o CrLf BY DEF E
  <2>2. k3 = k + Len(D) /\ D \in Seq(Token) /\ CrLf \in Seq(Token) BY <1>5, <1>13, <1>17
  <2>3. Both(T, D, CrLf, E, k, k3, sh) BY <1>5, <1>13, <1>17, <2>1, <2>2, TwoOf
  <2> QED BY <2>3 DEF Both
<1>19. /\ Lies(T, k, m) /\ Lies(T, k1, Space) /\ Lies(T, su, u) /\ Lies(T, k2, Space)
       /\ Lies(T, sv, v) /\ Lies(T, k3, CrLf)
  BY <1>4, <1>14, <1>15, <1>16, <1>17, <1>18
<1>20. EndsWith(T, k, m, "SP") BY <1>6, <1>8, <1>19, WordSpace
<1>21. EndsWith(T, su, u, "SP") BY <1>6, <1>10, <1>19, WordSpace
<1>22. EndsLine(T, sv, v) BY <1>6, <1>12, <1>19, WordLine
<1> QED BY <1>1, <1>2, <1>3, <1>4, <1>18, <1>20, <1>21, <1>22 DEF FirstLineIn

\* Sums in another order.
LEMMA OneMore ==
  ASSUME NEW x \in Nat, NEW y \in Nat, NEW z \in Nat, NEW n \in Nat, NEW d,
         y = x + 1, z = y + n, d = n + 1
  PROVE  Apart(x, y, n, z, d)
BY DEF Apart

\* An element of a text that is somewhere.
LEMMA OneIs ==
  ASSUME NEW T \in Seq(Token), NEW c \in Seq(Token), NEW k \in Nat, Lies(T, k, c),
         NEW i \in Nat, i >= 1, i <= Len(c), NEW x \in Nat, x = k + i
  PROVE  OneAt(T, k, c, i, x)
BY LiesOne DEF OneAt

\* Where the name and the value of a header are; the value has a space before it.
LEMMA HeaderLineIs ==
  ASSUME NEW T \in Seq(Token), NEW h, NEW m \in Seq(Token), m = h.name,
         NEW v \in Seq(Token), v = h.value,
         NEW k \in Nat, Lies(T, k, HeaderLine(h)),
         NEW k1 \in Nat, k1 = k + Len(m), NEW sv \in Nat, sv = k1 + 1,
         NEW k2 \in Nat, k2 = sv + 1, NEW k3 \in Nat, k3 = k2 + Len(v),
         NEW sh \in Nat, sh = k3 + 2
  PROVE  HeaderIn(T, h, m, v, k, k1, sv, k2, k3, sh)
<1> DEFINE A == m \o Colon
           B == A \o v
           C == B \o CrLf
           D == Space \o v
<1>3. HeaderLine(h) = C BY DEF HeaderLine, Colon, CrLf
<1>4. /\ CrLf \in Seq(Token) /\ Len(CrLf) = 2 /\ Space \in Seq(Token) /\ Len(Space) = 1
      /\ Space[1] = "SP"
      /\ Colon \in Seq(Token) /\ Len(Colon) = 2 /\ Colon[1] = ":" /\ Colon[2] = "SP"
  BY Marks
<1>6. Len(m) \in Nat /\ Len(v) \in Nat BY LenProperties
<1> HIDE DEF A, B, C, D
<1>10. k2 = k1 + Len(Colon) /\ sh = k3 + Len(CrLf) /\ k2 = sv + Len(Space) BY <1>4
<1>11. /\ A \in Seq(Token) /\ k + Len(A) = k2
       /\ (Lies(T, k, A) => Lies(T, k, m) /\ Lies(T, k1, Colon))
  <2>1. A = m \o Colon BY DEF A
  <2>2. Both(T, m, Colon, A, k, k1, k2) BY Zenon, <1>4, <1>10, <2>1, TwoOf
  <2> QED BY <2>2 DEF Both
<1>12. B \in Seq(Token) /\ k + Len(B) = k3 /\ (Lies(T, k, B) => Lies(T, k, A) /\ Lies(T, k2, v))
  <2>1. B = A \o v BY DEF B
  <2>2. k2 = k + Len(A) BY <1>11
  <2>3. Both(T, A, v, B, k, k2, k3) BY Zenon, <1>11, <2>1, <2>2, TwoOf
  <2> QED BY <2>3 DEF Both
<1>13. C \in Seq(Token) /\ k + Len(C) = sh /\ (Lies(T, k, C) => Lies(T, k, B) /\ Lies(T, k3, CrLf))
  <2>1. C = B \o CrLf BY DEF C
  <2>2. k3 = k + Len(B) BY Zenon, <1>12
  <2>3. Both(T, B, CrLf, C, k, k3, sh) BY <1>4, <1>10, <1>12, <2>1, <2>2, TwoOf
  <2> QED BY <2>3 DEF Both
<1>14. Lies(T, k, m) /\ Lies(T, k1, Colon) /\ Lies(T, k2, v) /\ Lies(T, k3, CrLf)
  BY <1>3, <1>11, <1>12, <1>13
<1>15. sv <= Len(T) /\ T[sv] = ":" /\ k2 <= Len(T) /\ T[k2] = "SP"
  <2>1. PICK i \in Nat : i = 1 OBVIOUS
  <2>2. PICK j \in Nat : j = 2 OBVIOUS
  <2>5. i >= 1 /\ i <= Len(Colon) /\ j >= 1 /\ j <= Len(Colon) /\ Colon[i] = ":" /\ Colon[j] = "SP"
    BY <1>4, <2>1, <2>2
  <2>6. sv = k1 + i /\ k2 = k1 + j BY <2>1, <2>2
  <2>7. OneAt(T, k1, Colon, i, sv) BY Zenon, <1>4, <1>14, <2>1, <2>5, <2>6, OneIs
  <2>8. OneAt(T, k1, Colon, j, k2) BY <1>4, <1>14, <2>2, <2>5, <2>6, OneIs
  <2> QED BY <2>5, <2>7, <2>8 DEF OneAt
<1>16. EndsWith(T, k, m, ":")
  <2>1. sv = k + Len(m) + 1 BY <1>6
  <2> QED BY <1>14, <1>15, <2>1 DEF EndsWith
<1>18. Lies(T, sv, Space)
  <2>1. sv + 1 <= Len(T) /\ T[sv + 1] = Space[1] BY <1>4, <1>15
  <2> QED BY <1>4, <2>1 DEF Lies
<1>19. D \in Seq(Token) /\ Len(D) = Len(v) + 1
  <2>1. D \in Seq(Token) /\ Len(D) = Len(Space) + Len(v) BY <1>4, ConcatProperties DEF D
  <2> QED BY <1>4, <1>6, <2>1
<1>20. Lies(T, sv, D) BY Zenon, <1>4, <1>10, <1>14, <1>18, LiesJoin DEF D
<1>21. k3 = sv + Len(D)
  <2>2. k2 = sv + 1 /\ k3 = k2 + Len(v) OBVIOUS
  <2>3. PICK n \in Nat : n = Len(v) BY <1>6
  <2>4. PICK d : d = Len(D) OBVIOUS
  <2>5. Apart(sv, k2, n, k3, d) BY <1>19, <2>2, <2>3, <2>4, OneMore
  <2> QED BY <2>4, <2>5 DEF Apart
<1>22. EndsLine(T, sv, D) BY <1>14, <1>19, <1>20, <1>21, WordLine
<1> QED BY <1>3, <1>13, <1>16, <1>19, <1>22 DEF D, HeaderIn

\* Where the size and the data of a chunk are.
LEMMA ChunkIs ==
  ASSUME NEW T \in Seq(Token), NEW c, NEW m \in Seq(Token), m = c.size,
         NEW v \in Seq(Token), v = c.data,
         NEW k \in Nat, Lies(T, k, Chunk(c)),
         NEW k1 \in Nat, k1 = k + Len(m), NEW sd \in Nat, sd = k1 + 2,
         NEW k3 \in Nat, k3 = sd + Len(v), NEW se \in Nat, se = k3 + 2
  PROVE  ChunkIn(T, c, m, v, k, k1, sd, k3, se)
<1> DEFINE A == m \o CrLf
           B == A \o v
           C == B \o CrLf
<1>3. Chunk(c) = C BY DEF Chunk, CrLf
<1>4. CrLf \in Seq(Token) /\ Len(CrLf) = 2 BY Marks
<1> HIDE DEF A, B, C
<1>10. sd = k1 + Len(CrLf) /\ se = k3 + Len(CrLf) BY <1>4
<1>11. A \in Seq(Token) /\ k + Len(A) = sd /\ (Lies(T, k, A) => Lies(T, k, m) /\ Lies(T, k1, CrLf))
  <2>1. A = m \o CrLf BY DEF A
  <2>2. Both(T, m, CrLf, A, k, k1, sd) BY Zenon, <1>4, <1>10, <2>1, TwoOf
  <2> QED BY <2>2 DEF Both
<1>12. B \in Seq(Token) /\ k + Len(B) = k3 /\ (Lies(T, k, B) => Lies(T, k, A) /\ Lies(T, sd, v))
  <2>1. B = A \o v BY DEF B
  <2>2. sd = k + Len(A) BY <1>11
  <2>3. Both(T, A, v, B, k, sd, k3) BY Zenon, <1>11, <2>1, <2>2, TwoOf
  <2> QED BY <2>3 DEF Both
<1>13. C \in Seq(Token) /\ k + Len(C) = se /\ (Lies(T, k, C) => Lies(T, k, B) /\ Lies(T, k3, CrLf))
  <2>1. C = B \o CrLf BY DEF C
  <2>2. k3 = k + Len(B) BY Zenon, <1>12
  <2>3. Both(T, B, CrLf, C, k, k3, se) BY <1>4, <1>10, <1>12, <2>1, <2>2, TwoOf
  <2> QED BY <2>3 DEF Both
<1>14. Lies(T, k, m) /\ Lies(T, k1, CrLf) /\ Lies(T, sd, v) /\ Lies(T, k3, CrLf)
  BY Zenon, <1>3, <1>11, <1>12, <1>13
<1>15. EndsLine(T, k, m) BY <1>14, WordLine
<1>16. EndsLine(T, sd, v) BY <1>14, WordLine
<1> QED BY <1>3, <1>13, <1>15, <1>16 DEF ChunkIn

\* What is joined of tokens is of tokens.
LEMMA TokensJoin ==
  ASSUME NEW a \in Seq(Token), NEW b \in Seq(Token)
  PROVE  a \o b \in Seq(Token) /\ Len(a \o b) = Len(a) + Len(b)
BY ConcatProperties

\* What is known of the parts of a request.
LEMMA RequestIs ==
  ASSUME NEW r, WellFormedRequest(r)
  PROVE  /\ r.method \in Seq(Token) /\ r.uri \in Seq(Token) /\ r.protocol \in Seq(Token)
         /\ r.body \in Seq(Token)
         /\ Without(r.method, {"SP", "CR", "LF"}) /\ Without(r.uri, {"SP", "CR", "LF"})
         /\ Without(r.protocol, {"SP", "CR", "LF"})
         /\ Len(r.headers) \in Nat /\ DOMAIN r.headers = 1..Len(r.headers)
         /\ \A i \in 1..Len(r.headers) :
               /\ WellFormedHeader(r.headers[i])
               /\ r.headers[i].name \in Seq(Token) /\ r.headers[i].value \in Seq(Token)
         /\ Len(r.chunks) \in Nat /\ DOMAIN r.chunks = 1..Len(r.chunks)
         /\ r.chunks # <<>> => Len(r.chunks) # 0
         /\ r.chunks # <<>> =>
              \A i \in 1..Len(r.chunks) :
                 /\ WellFormedChunk(r.chunks[i])
                 /\ r.chunks[i].size \in Seq(Token) /\ r.chunks[i].data \in Seq(Token)
<1>1. /\ \A w \in {r.method, r.uri} : w \in Seq(STRING) /\ Without(w, {"SP", "CR", "LF"})
      /\ r.protocol \in Seq(STRING) /\ Without(r.protocol, {"SP", "CR", "LF"})
      /\ r.body \in Seq(STRING)
      /\ r.headers \in Seq([name : Seq(STRING), value : Seq(STRING)])
      /\ r.chunks \in Seq([size : Seq(STRING), data : Seq(STRING)])
      /\ \A i \in DOMAIN r.headers : WellFormedHeader(r.headers[i])
      /\ WellFormedBody(r)
  BY DEF WellFormedRequest
<1>7. /\ DOMAIN r.headers = 1..Len(r.headers) /\ Len(r.headers) \in Nat
      /\ \A i \in 1..Len(r.headers) : r.headers[i] \in [name : Seq(STRING), value : Seq(STRING)]
  BY Zenon, <1>1, LenProperties
<1>8. /\ DOMAIN r.chunks = 1..Len(r.chunks) /\ Len(r.chunks) \in Nat
      /\ \A i \in 1..Len(r.chunks) : r.chunks[i] \in [size : Seq(STRING), data : Seq(STRING)]
      /\ r.chunks # <<>> => Len(r.chunks) # 0
  BY <1>1, LenProperties, EmptySeq
<1>2. r.method \in Seq(STRING) /\ r.uri \in Seq(STRING) BY <1>1
<1>3. /\ r.method \in Seq(Token) /\ r.uri \in Seq(Token) /\ r.protocol \in Seq(Token)
      /\ r.body \in Seq(Token)
  BY <1>1, <1>2, Tokens
<1>4. Len(r.headers) \in Nat /\ Len(r.chunks) \in Nat BY <1>7, <1>8
<1>5. ASSUME NEW i \in 1..Len(r.headers)
      PROVE  /\ WellFormedHeader(r.headers[i])
             /\ r.headers[i].name \in Seq(Token) /\ r.headers[i].value \in Seq(Token)
  <2>1. WellFormedHeader(r.headers[i]) BY <1>1, <1>7
  <2>2. r.headers[i].name \in Seq(STRING) /\ r.headers[i].value \in Seq(STRING)
    BY <1>7
  <2> QED BY <2>1, <2>2, Tokens
<1>6. ASSUME r.chunks # <<>>, NEW i \in 1..Len(r.chunks)
      PROVE  /\ WellFormedChunk(r.chunks[i])
             /\ r.chunks[i].size \in Seq(Token) /\ r.chunks[i].data \in Seq(Token)
  <2>1. WellFormedChunk(r.chunks[i]) BY <1>1, <1>6, <1>8 DEF WellFormedBody
  <2>2. r.chunks[i].size \in Seq(STRING) /\ r.chunks[i].data \in Seq(STRING)
    BY <1>8
  <2> QED BY <2>1, <2>2, Tokens
<1> QED BY <1>1, <1>3, <1>4, <1>5, <1>6, <1>7, <1>8

\* A part of what is joined behind R lies behind R and the parts before it.
LEMMA PartLies ==
  ASSUME NEW R \in Seq(Token), NEW n \in Nat, NEW parts, \A k \in 1..n : parts[k] \in Seq(Token),
         NEW i \in 1..n, NEW x, x = Len(R) + Len(Joined(parts, i - 1)),
         NEW y, y = Len(R) + Len(Joined(parts, i)), NEW h, h = parts[i]
  PROVE  PartIn(R, parts, n, i, x, y, h)
<1>1. PICK J : J = Joined(parts, n) OBVIOUS
<1>2. PICK P : P = Joined(parts, i - 1) OBVIOUS
<1>3. PICK Q : Q = Joined(parts, i) OBVIOUS
<1>4. Lies(J, Len(P), h) /\ Len(Q) = Len(P) + Len(h)
  <2>1. /\ Lies(Joined(parts, n), Len(Joined(parts, i - 1)), parts[i])
        /\ Len(Joined(parts, i)) = Len(Joined(parts, i - 1)) + Len(parts[i])
    BY JoinedPart
  <2> QED BY <1>1, <1>2, <1>3, <2>1
<1>5. J \in Seq(Token) /\ P \in Seq(Token) /\ h \in Seq(Token)
  <2>1. i - 1 \in 0..n /\ n \in 0..n OBVIOUS
  <2> QED BY Zenon, <1>1, <1>2, <2>1, JoinedIs
<1>6. PICK p \in Nat : p = Len(P) BY <1>5, LenProperties
<1>7. PICK l \in Nat : l = Len(h) BY <1>5, LenProperties
<1>8. PICK m \in Nat : m = Len(R) BY LenProperties
<1>9. x = m + p /\ x \in Nat BY <1>2, <1>6, <1>8
<1>10. y = x + l
  <2>1. PICK q \in Nat : q = Len(Q) BY <1>4, <1>6, <1>7
  <2>2. y = m + q /\ q = p + l BY <1>3, <1>4, <1>6, <1>7, <1>8, <2>1
  <2> QED BY <1>9, <2>2
<1>11. R \o J \in Seq(Token) /\ Lies(R \o J, m, J) BY <1>5, <1>8, LiesIn
<1>12. Lies(R \o J, x, h) BY <1>4, <1>5, <1>6, <1>9, <1>11, LiesDeep
<1> QED BY <1>1, <1>7, <1>9, <1>10, <1>12 DEF PartIn

\* The lines of the headers.
LEMMA LinesAre ==
  ASSUME NEW r, WellFormedRequest(r)
  PROVE  /\ RequestLine(r) \in Seq(Token) /\ Len(RequestLine(r)) \in Nat
         /\ HeaderLines(r, Len(r.headers)) \in Seq(Token)
         /\ LineAt(r, 1) = Len(RequestLine(r))
         /\ \A i \in 1..Len(r.headers) :
              /\ LineAt(r, i) \in Nat /\ HeaderLine(r.headers[i]) \in Seq(Token)
              /\ LineAt(r, i + 1) = LineAt(r, i) + Len(HeaderLine(r.headers[i]))
              /\ Lies(RequestLine(r) \o HeaderLines(r, Len(r.headers)),
                      LineAt(r, i), HeaderLine(r.headers[i]))
<1>1. /\ r.method \in Seq(Token) /\ r.uri \in Seq(Token) /\ r.protocol \in Seq(Token)
      /\ Len(r.headers) \in Nat /\ DOMAIN r.headers = 1..Len(r.headers)
      /\ \A i \in 1..Len(r.headers) :
            r.headers[i].name \in Seq(Token) /\ r.headers[i].value \in Seq(Token)
  BY RequestIs
<1>2. PICK N \in Nat : N = Len(r.headers) BY <1>1
<1>3. PICK R : R = RequestLine(r) OBVIOUS
<1>4. CrLf \in Seq(Token) /\ Space \in Seq(Token) /\ Colon \in Seq(Token) BY Marks
<1>5. R \in Seq(Token)
  <2>1. R = ((((r.method \o Space) \o r.uri) \o Space) \o r.protocol) \o CrLf
    BY <1>3 DEF RequestLine, Space, CrLf
  <2>2. r.method \o Space \in Seq(Token) BY <1>1, <1>4, TokensJoin
  <2>3. (r.method \o Space) \o r.uri \in Seq(Token) BY <1>1, <2>2, TokensJoin
  <2>4. ((r.method \o Space) \o r.uri) \o Space \in Seq(Token) BY <1>4, <2>3, TokensJoin
  <2>5. (((r.method \o Space) \o r.uri) \o Space) \o r.protocol \in Seq(Token)
    BY <1>1, <2>4, TokensJoin
  <2> QED BY <1>4, <2>1, <2>5, TokensJoin
<1>6. Len(R) \in Nat BY <1>5, LenProperties
<1> DEFINE parts == [i \in DOMAIN r.headers |-> HeaderLine(r.headers[i])]
<1>7. \A n : HeaderLines(r, n) = Joined(parts, n) BY DEF HeaderLines
<1>8. ASSUME NEW i \in 1..N PROVE parts[i] = HeaderLine(r.headers[i]) /\ parts[i] \in Seq(Token)
  <2>1. PICK m : m = r.headers[i].name OBVIOUS
  <2>2. PICK v : v = r.headers[i].value OBVIOUS
  <2>3. m \in Seq(Token) /\ v \in Seq(Token) BY <1>1, <1>2, <2>1, <2>2
  <2>4. HeaderLine(r.headers[i]) = ((m \o Colon) \o v) \o CrLf
    BY <2>1, <2>2 DEF HeaderLine, Colon, CrLf
  <2>5. m \o Colon \in Seq(Token) BY <1>4, <2>3, TokensJoin
  <2>6. (m \o Colon) \o v \in Seq(Token) BY <2>3, <2>5, TokensJoin
  <2>7. ((m \o Colon) \o v) \o CrLf \in Seq(Token) BY <1>4, <2>6, TokensJoin
  <2>8. parts[i] = HeaderLine(r.headers[i]) BY <1>1, <1>2
  <2> QED BY <2>4, <2>7, <2>8
<1> HIDE DEF parts
<1>9. PICK J : J = Joined(parts, N) OBVIOUS
<1>10. J \in Seq(Token) /\ HeaderLines(r, Len(r.headers)) = J
  <2>1. N \in 0..N BY <1>2
  <2>2. J \in Seq(Token) BY <1>8, <1>9, <2>1, JoinedIs
  <2> QED BY <1>2, <1>7, <1>9, <2>2
<1>11. LineAt(r, 1) = Len(R)
  <2>1. Joined(parts, 0) = <<>> BY JoinedLaw
  <2>2. 1 - 1 = 0 /\ Len(<<>>) = 0 OBVIOUS
  <2>3. HeaderLines(r, 0) = <<>> BY <1>7, <2>1
  <2> QED BY <1>3, <1>6, <2>2, <2>3 DEF LineAt
<1>12. ASSUME NEW i \in 1..N
       PROVE  /\ LineAt(r, i) \in Nat /\ HeaderLine(r.headers[i]) \in Seq(Token)
              /\ LineAt(r, i + 1) = LineAt(r, i) + Len(HeaderLine(r.headers[i]))
              /\ Lies(R \o J, LineAt(r, i), HeaderLine(r.headers[i]))
  <2>1. PICK h : h = HeaderLine(r.headers[i]) OBVIOUS
  <2>2. h \in Seq(Token) /\ parts[i] = h BY <1>8, <2>1
  <2>3. LineAt(r, i) = Len(R) + Len(Joined(parts, i - 1)) BY <1>3, <1>7 DEF LineAt
  <2>4. LineAt(r, i + 1) = Len(R) + Len(Joined(parts, i))
    <3>1. (i + 1) - 1 = i BY <1>2
    <3> QED BY <1>3, <1>7, <3>1 DEF LineAt
  <2>5. PartIn(R, parts, N, i, LineAt(r, i), LineAt(r, i + 1), h)
    BY <1>5, <1>8, <2>2, <2>3, <2>4, PartLies
  <2> QED BY <1>9, <2>1, <2>2, <2>5 DEF PartIn
<1> QED BY <1>2, <1>3, <1>5, <1>6, <1>10, <1>11, <1>12

\* The text of the chunks.
LEMMA ChunksAre ==
  ASSUME NEW r, WellFormedRequest(r), r.chunks # <<>>, NEW H \in Seq(Token), H = HeadText(r),
         NEW J, J = Chunks(r, Len(r.chunks))
  PROVE  /\ J \in Seq(Token) /\ ChunkAt(r, 1) = Len(H)
         /\ ChunkAt(r, Len(r.chunks) + 1) = Len(H \o J)
         /\ \A i \in 1..Len(r.chunks) :
              /\ ChunkAt(r, i) \in Nat /\ Chunk(r.chunks[i]) \in Seq(Token)
              /\ ChunkAt(r, i + 1) = ChunkAt(r, i) + Len(Chunk(r.chunks[i]))
              /\ Lies(H \o J, ChunkAt(r, i), Chunk(r.chunks[i]))
<1>1. /\ Len(r.chunks) \in Nat /\ DOMAIN r.chunks = 1..Len(r.chunks)
      /\ \A i \in 1..Len(r.chunks) :
            r.chunks[i].size \in Seq(Token) /\ r.chunks[i].data \in Seq(Token)
  BY RequestIs
<1>2. PICK N \in Nat : N = Len(r.chunks) BY <1>1
<1>4. CrLf \in Seq(Token) BY Marks
<1>6. Len(H) \in Nat BY LenProperties
<1> DEFINE parts == [i \in DOMAIN r.chunks |-> Chunk(r.chunks[i])]
<1>7. \A n : Chunks(r, n) = Joined(parts, n) BY DEF Chunks
<1>8. ASSUME NEW i \in 1..N PROVE parts[i] = Chunk(r.chunks[i]) /\ parts[i] \in Seq(Token)
  <2>1. PICK m : m = r.chunks[i].size OBVIOUS
  <2>2. PICK v : v = r.chunks[i].data OBVIOUS
  <2>3. m \in Seq(Token) /\ v \in Seq(Token) BY <1>1, <1>2, <2>1, <2>2
  <2>4. Chunk(r.chunks[i]) = ((m \o CrLf) \o v) \o CrLf BY <2>1, <2>2 DEF Chunk, CrLf
  <2>5. m \o CrLf \in Seq(Token) BY <1>4, <2>3, TokensJoin
  <2>6. (m \o CrLf) \o v \in Seq(Token) BY <2>3, <2>5, TokensJoin
  <2>7. ((m \o CrLf) \o v) \o CrLf \in Seq(Token) BY <1>4, <2>6, TokensJoin
  <2>8. parts[i] = Chunk(r.chunks[i]) BY <1>1, <1>2
  <2> QED BY <2>4, <2>7, <2>8
<1> HIDE DEF parts
<1>9. J = Joined(parts, N) BY <1>2, <1>7
<1>10. J \in Seq(Token)
  <2>1. N \in 0..N BY <1>2
  <2> QED BY Zenon, <1>8, <1>9, <2>1, JoinedIs
<1>11. ChunkAt(r, 1) = Len(H)
  <2>1. Joined(parts, 0) = <<>> BY Zenon, JoinedLaw
  <2>2. 1 - 1 = 0 /\ Len(<<>>) = 0 OBVIOUS
  <2>3. Chunks(r, 0) = <<>> BY <1>7, <2>1
  <2> QED BY <1>6, <2>2, <2>3 DEF ChunkAt
<1>12. ASSUME NEW i \in 1..N
       PROVE  /\ ChunkAt(r, i) \in Nat /\ Chunk(r.chunks[i]) \in Seq(Token)
              /\ ChunkAt(r, i + 1) = ChunkAt(r, i) + Len(Chunk(r.chunks[i]))
              /\ Lies(H \o J, ChunkAt(r, i), Chunk(r.chunks[i]))
  <2>1. PICK h : h = Chunk(r.chunks[i]) OBVIOUS
  <2>2. h \in Seq(Token) /\ parts[i] = h BY <1>8, <2>1
  <2>3. ChunkAt(r, i) = Len(H) + Len(Joined(parts, i - 1)) BY <1>7 DEF ChunkAt
  <2>4. ChunkAt(r, i + 1) = Len(H) + Len(Joined(parts, i))
    <3>1. (i + 1) - 1 = i BY <1>2
    <3> QED BY <1>7, <3>1 DEF ChunkAt
  <2>5. PartIn(H, parts, N, i, ChunkAt(r, i), ChunkAt(r, i + 1), h)
    BY <1>8, <2>2, <2>3, <2>4, PartLies
  <2> QED BY <1>9, <2>1, <2>2, <2>5 DEF PartIn
<1>13. ChunkAt(r, N + 1) = Len(H \o J)
  <2>1. (N + 1) - 1 = N OBVIOUS
  <2>2. ChunkAt(r, N + 1) = Len(H) + Len(J) BY <1>7, <1>9, <2>1 DEF ChunkAt
  <2> QED BY <1>10, <2>2, TokensJoin
<1> QED BY <1>2, <1>10, <1>11, <1>12, <1>13

\* Where everything is in the text of a request.
LEMMA TextIs ==
  ASSUME NEW r, WellFormedRequest(r), NEW T, T = RequestText(r)
  PROVE  TextFound(r, T)
<1> DEFINE R == RequestLine(r)
           N == Len(r.headers)
           J == HeaderLines(r, N)
           G == R \o J
           H == G \o CrLf
           X == IF r.chunks = <<>> THEN r.body ELSE Chunks(r, Len(r.chunks))
<1>1. N \in Nat /\ r.body \in Seq(Token) BY RequestIs
<1>2. /\ R \in Seq(Token) /\ Len(R) \in Nat /\ J \in Seq(Token) /\ LineAt(r, 1) = Len(R)
      /\ \A i \in 1..N :
           /\ LineAt(r, i) \in Nat /\ HeaderLine(r.headers[i]) \in Seq(Token)
           /\ LineAt(r, i + 1) = LineAt(r, i) + Len(HeaderLine(r.headers[i]))
           /\ Lies(G, LineAt(r, i), HeaderLine(r.headers[i]))
  BY LinesAre
<1>3. HeadText(r) = H BY DEF HeadText, CrLf
<1>4. T = H \o X BY <1>3 DEF RequestText
<1>5. LineAt(r, N + 1) = Len(R) + Len(J)
  <2>1. (N + 1) - 1 = N BY <1>1
  <2> QED BY <2>1 DEF LineAt
<1> HIDE DEF R, N, J
<1>6. CrLf \in Seq(Token) /\ Len(CrLf) = 2 BY Marks
<1>7. G \in Seq(Token) /\ Len(G) = Len(R) + Len(J) /\ Lies(G, 0, R) BY <1>2, LiesIn
<1>8. PICK g \in Nat : g = Len(G) BY <1>7, LenProperties
<1> HIDE DEF G
<1>9. H \in Seq(Token) /\ Len(H) = g + 2 /\ Lies(H, 0, G) /\ Lies(H, g, CrLf)
  <2>1. /\ H \in Seq(Token) /\ Len(H) = g + Len(CrLf) /\ Lies(H, 0, G) /\ Lies(H, g, CrLf)
    BY Zenon, <1>6, <1>7, <1>8, LiesIn
  <2> QED BY <1>6, <1>8, <2>1
<1>10. PICK e \in Nat : e = Len(H) BY <1>9, LenProperties
<1>11. HeadEnd(r) = e BY <1>3, <1>10 DEF HeadEnd
<1>12. r.chunks # <<>> =>
         /\ X \in Seq(Token) /\ ChunkAt(r, 1) = Len(H)
         /\ ChunkAt(r, Len(r.chunks) + 1) = Len(H \o X)
         /\ \A i \in 1..Len(r.chunks) :
              /\ ChunkAt(r, i) \in Nat /\ Chunk(r.chunks[i]) \in Seq(Token)
              /\ ChunkAt(r, i + 1) = ChunkAt(r, i) + Len(Chunk(r.chunks[i]))
              /\ Lies(H \o X, ChunkAt(r, i), Chunk(r.chunks[i]))
  <2> HAVE r.chunks # <<>>
  <2> HIDE DEF H
  <2>1. X = Chunks(r, Len(r.chunks)) OBVIOUS
  <2> HIDE DEF X
  <2> QED BY Zenon, <1>3, <1>9, <2>1, ChunksAre
<1>13. X \in Seq(Token) BY Zenon, <1>1, <1>12
<1>14. r.chunks = <<>> => X = r.body OBVIOUS
<1> HIDE DEF H, X
<1>15. /\ T \in Seq(Token) /\ Len(T) = e + Len(X) /\ Lies(T, 0, H) /\ Lies(T, e, X)
  BY <1>4, <1>9, <1>10, <1>13, LiesIn
<1>16. Lies(T, 0, G)
  <2>1. 0 = 0 + 0 /\ 0 \in Nat OBVIOUS
  <2> QED BY <1>7, <1>9, <1>15, <2>1, LiesDeep
<1>17. Lies(T, 0, R)
  <2>1. 0 = 0 + 0 /\ 0 \in Nat OBVIOUS
  <2> QED BY <1>2, <1>7, <1>15, <1>16, <2>1, LiesDeep
<1>18. Lies(T, g, CrLf)
  <2>1. g = 0 + g /\ 0 \in Nat OBVIOUS
  <2> QED BY <1>6, <1>9, <1>15, <2>1, LiesDeep
<1>19. ASSUME NEW i \in 1..N PROVE Lies(T, LineAt(r, i), HeaderLine(r.headers[i]))
  <2>1. PICK x \in Nat : x = LineAt(r, i) BY <1>2
  <2>2. PICK h \in Seq(Token) : h = HeaderLine(r.headers[i]) BY <1>2
  <2>3. Lies(G, x, h) BY <1>2, <2>1, <2>2
  <2>4. x = 0 + x /\ 0 \in Nat OBVIOUS
  <2>5. Lies(T, x, h) BY <1>7, <1>15, <1>16, <2>3, <2>4, LiesDeep
  <2> QED BY <2>1, <2>2, <2>5
<1>20. LineAt(r, N + 1) = g /\ HeadEnd(r) = g + 2 BY <1>5, <1>7, <1>8, <1>9, <1>10, <1>11
<1>21. r.chunks = <<>> => Lies(T, HeadEnd(r), r.body) /\ Len(T) = HeadEnd(r) + Len(r.body)
  BY <1>11, <1>14, <1>15
<1>22. r.chunks # <<>> =>
         /\ ChunkAt(r, 1) = HeadEnd(r) /\ Len(T) = ChunkAt(r, Len(r.chunks) + 1)
         /\ \A i \in 1..Len(r.chunks) :
              /\ ChunkAt(r, i) \in Nat /\ Lies(T, ChunkAt(r, i), Chunk(r.chunks[i]))
              /\ ChunkAt(r, i + 1) = ChunkAt(r, i) + Len(Chunk(r.chunks[i]))
  BY <1>4, <1>10, <1>11, <1>12
<1>23. HeadEnd(r) \in Nat BY <1>10, <1>11
<1>24. LineAt(r, N + 1) \in Nat BY <1>8, <1>20
<1> QED
  BY <1>2, <1>15, <1>17, <1>18, <1>19, <1>20, <1>21, <1>22, <1>23, <1>24, ZenonT(60)
  DEF R, N, TextFound

-----------------------------------------------------------------------------
(* What the parser has of a request. *)

\* There is one request with given parts.
LEMMA PartIsOne ==
  ASSUME NEW p, NEW q, NEW m, NEW u, NEW v, NEW h, NEW b,
         p \in Part(m, u, v, h, b), q \in Part(m, u, v, h, b)
  PROVE  p = q
BY DEF Part

\* The parser at the beginning, and again after take_request().
LEMMA StageNew ==
  Http!NewParser \in Stage("S_METHOD", Part(<<>>, <<>>, <<>>, Http!NoHeaders, <<>>), 0, 0, <<>>,
      <<>>)
BY DEF Stage, Part, Http!NewParser, Http!NewRequest

-----------------------------------------------------------------------------
(* Headers. *)

\* Before the first header line there are no headers.
LEMMA HdrsStart ==
  ASSUME NEW r
  PROVE  Hdrs(r, 0) = Http!NoHeaders
<1>1. NamesOf(r, 0) = {} BY DEF NamesOf
<1> QED BY <1>1 DEF Hdrs, Http!NoHeaders

\* The headers that are understood have each name with the value it was sent with.
LEMMA HeaderOf ==
  ASSUME NEW r, WellFormedRequest(r), NEW i \in 1..Len(r.headers)
  PROVE  Understood(r).headers[r.headers[i].name] = r.headers[i].value
<1>1. /\ DOMAIN r.headers = 1..Len(r.headers)
      /\ \A m, k \in DOMAIN r.headers : r.headers[m].name = r.headers[k].name => m = k
  BY RequestIs DEF WellFormedRequest
<1> DEFINE S == {r.headers[m] : m \in DOMAIN r.headers}
           n == r.headers[i].name
           x == CHOOSE y \in S : y.name = n
<1>2. Understood(r).headers = [h \in {r.headers[m].name : m \in DOMAIN r.headers} |->
                                 (CHOOSE y \in S : y.name = h).value]
  BY DEF Understood
<1>3. n \in {r.headers[m].name : m \in DOMAIN r.headers} BY <1>1
<1>4. Understood(r).headers[n] = x.value BY <1>2, <1>3
<1>5. \E y \in S : y.name = n BY <1>1
<1>6. x \in S /\ x.name = n BY <1>5
<1> HIDE DEF x
<1>7. PICK m \in DOMAIN r.headers : x = r.headers[m] BY <1>6
<1>8. m = i BY <1>1, <1>6, <1>7
<1> QED BY <1>4, <1>7, <1>8

\* Behind the last header line all headers are there.
LEMMA HdrsAll ==
  ASSUME NEW r, WellFormedRequest(r)
  PROVE  Hdrs(r, Len(r.headers)) = Understood(r).headers
<1>1. DOMAIN r.headers = 1..Len(r.headers) BY RequestIs
<1>2. Understood(r).headers = [h \in {r.headers[m].name : m \in DOMAIN r.headers} |->
                                (CHOOSE y \in {r.headers[m] : m \in DOMAIN r.headers} : y.name
                                    = h).value]
  BY DEF Understood
<1>3. PICK u : u = Understood(r).headers OBVIOUS
<1>4. PICK D : D = NamesOf(r, Len(r.headers)) OBVIOUS
<1>5. DOMAIN u = D BY <1>1, <1>2, <1>3, <1>4 DEF NamesOf
<1>6. u = [h \in DOMAIN u |-> u[h]]
  <2>1. u = [h \in D |-> (CHOOSE y \in {r.headers[m] : m \in DOMAIN r.headers} : y.name = h).value]
    BY <1>1, <1>2, <1>3, <1>4 DEF NamesOf
  <2> QED BY <2>1, <1>5
<1>7. u = [h \in D |-> u[h]] BY <1>5, <1>6
<1> QED BY <1>3, <1>4, <1>7 DEF Hdrs

\* The header of line i joins those before it.
LEMMA HeaderSet ==
  ASSUME NEW r, WellFormedRequest(r), NEW i \in 1..Len(r.headers),
         NEW n, n = r.headers[i].name, NEW v, v = r.headers[i].value,
         NEW m, NEW u, NEW w, NEW b, NEW q, q \in Part(m, u, w, Hdrs(r, i - 1), b)
  PROVE  Http!SetHeader(q, n, v) \in Part(m, u, w, Hdrs(r, i), b)
<1>1. PICK H : H = Hdrs(r, i - 1) OBVIOUS
<1>2. PICK U : U = Understood(r).headers OBVIOUS
<1>3. H = [h \in NamesOf(r, i - 1) |-> U[h]] BY <1>1, <1>2 DEF Hdrs
<1>4. U[n] = v BY <1>2, HeaderOf
<1>5. NamesOf(r, i) = NamesOf(r, i - 1) \cup {n}
  <2>1. Len(r.headers) \in Nat BY RequestIs
  <2>2. \A k : k \in 1..i <=> (k \in 1..i - 1 \/ k = i) BY <2>1
  <2> QED BY <2>2 DEF NamesOf
<1>6. DOMAIN H = NamesOf(r, i - 1) BY <1>3
<1> DEFINE F == [h \in DOMAIN H \cup {n} |-> IF h = n THEN v ELSE H[h]]
           G == [h \in NamesOf(r, i) |-> U[h]]
<1>7. F = G
  <2>1. DOMAIN F = DOMAIN G BY <1>5, <1>6
  <2>2. \A h \in DOMAIN F : F[h] = G[h] BY <1>3, <1>4, <1>5, <1>6
  <2> QED BY <2>1, <2>2
<1>8. Hdrs(r, i) = F BY <1>2, <1>7 DEF Hdrs
<1>9. q.headers = H /\ q \in Part(m, u, w, H, b) BY <1>1 DEF Part
<1> HIDE DEF F
<1>10. Http!SetHeader(q, n, v) = [q EXCEPT !.headers = F] BY <1>9 DEF Http!SetHeader, F
<1>11. [q EXCEPT !.headers = F] \in Part(m, u, w, F, b) BY <1>9 DEF Part
<1> QED BY <1>8, <1>10, <1>11

\* The greatest element of a set of naturals.
LEMMA MaxIs ==
  ASSUME NEW S \in SUBSET Nat, NEW m \in S, \A y \in S : y <= m
  PROVE  Http!Max(S) = m
<1>1. \A x \in S : (\A y \in S : x >= y) => x = m OBVIOUS
<1>2. \A y \in S : m >= y OBVIOUS
<1> QED BY <1>1, <1>2 DEF Http!Max

\* The least element of a set of naturals.
LEMMA MinOf ==
  ASSUME NEW S \in SUBSET Nat, NEW m \in S, \A y \in S : m <= y
  PROVE  Http!Min(S) = m
<1>1. \A x \in S : (\A y \in S : x <= y) => x = m OBVIOUS
<1> QED BY <1>1 DEF Http!Min

\* Spaces at the ends go, and nothing else does.
LEMMA TrimIs ==
  ASSUME NEW w \in Seq(Token), Solid(w), NEW s \in Seq(Token),
         NEW d \in Nat, NEW n \in Nat, n = d + Len(w), n = Len(s),
         \A i \in 1..d : s[i] = "SP",
         \A i \in 1..Len(w) : s[d + i] = w[i]
  PROVE  Http!Trim(s) = w
<1>1. Len(w) \in Nat /\ DOMAIN s = 1..n BY LenProperties
<1> DEFINE S == {i \in DOMAIN s : s[i] # "SP"}
<1>2. CASE Len(w) = 0
  <2>1. S = {} BY <1>1, <1>2
  <2>2. w = <<>> BY <1>2, EmptySeq
  <2> QED BY <2>1, <2>2 DEF Http!Trim
<1>3. CASE Len(w) # 0
  <2>1. w # <<>> BY <1>3
  <2>2. w[1] # "SP" /\ w[Len(w)] # "SP" BY <2>1 DEF Solid
  <2>3. PICK a \in Nat : a = d + 1 OBVIOUS
  <2>4. 1 \in 1..Len(w) /\ Len(w) \in 1..Len(w) BY <1>1, <1>3
  <2>5. s[a] # "SP" /\ s[n] # "SP" BY <2>2, <2>3, <2>4
  <2>6. a \in S /\ n \in S BY <1>1, <1>3, <2>3, <2>5
  <2>7. \A i \in S : a <= i /\ i <= n
    <3> SUFFICES ASSUME NEW i \in S PROVE a <= i /\ i <= n OBVIOUS
    <3>1. i \in 1..n /\ s[i] # "SP" BY <1>1
    <3>2. ~(i \in 1..d) BY <3>1
    <3> QED BY <2>3, <3>1, <3>2
  <2>8. S \in SUBSET Nat BY <1>1
  <2> HIDE DEF S
  <2>9. Http!Min(S) = a /\ Http!Max(S) = n BY <2>6, <2>7, <2>8, MinOf, MaxIs
  <2>10. S # {} BY <2>6
  <2>11. Http!Trim(s) = SubSeq(s, a, n) BY <2>9, <2>10 DEF Http!Trim, S
  <2>12. /\ SubSeq(s, a, n) \in Seq(Token) /\ Len(SubSeq(s, a, n)) = (n + 1) - a
         /\ \A i \in 1..(n + 1) - a : SubSeq(s, a, n)[i] = s[(a - 1) + i]
    <3>1. 1 <= a /\ a <= n + 1 /\ n <= Len(s) BY <1>1, <1>3, <2>3
    <3> QED BY <3>1, PieceIs
  <2>13. PICK t : t = SubSeq(s, a, n) OBVIOUS
  <2>14. (n + 1) - a = Len(w) /\ a - 1 = d BY <1>1, <2>3
  <2>15. t \in Seq(Token) /\ Len(t) = Len(w) /\ \A i \in 1..Len(w) : t[i] = s[d + i]
    BY <2>12, <2>13, <2>14
  <2>16. \A i \in 1..Len(w) : t[i] = w[i] BY <2>15
  <2>17. t = w BY <2>15, <2>16, SeqEqual
  <2> QED BY <2>11, <2>13, <2>17
<1> QED BY <1>2, <1>3

-----------------------------------------------------------------------------
(* The text of a request, word by word. *)

\* A CR LF alone is an empty line.
LEMMA EmptyLine ==
  ASSUME NEW T \in Seq(Token), NEW k \in Nat, Lies(T, k, CrLf)
  PROVE  EndsLine(T, k, <<>>)
<1>1. PICK w : w = <<>> OBVIOUS
<1>2. w \in Seq(Token) /\ Len(w) = 0 BY <1>1, EmptySeq
<1>3. Lies(T, k, w)
  <2>1. Len(T) \in Nat BY LenProperties
  <2>2. k + Len(CrLf) <= Len(T) BY DEF Lies
  <2>3. Len(CrLf) = 2 BY Marks
  <2>4. k + 0 <= Len(T) BY <2>1, <2>2, <2>3
  <2> QED BY <1>2, <2>4 DEF Lies
<1>4. k = k + Len(w) BY <1>2
<1>5. EndsLine(T, k, w) BY <1>2, <1>3, <1>4, WordLine
<1> QED BY <1>1, <1>5

\* The text of a well-formed request has everything where it is expected.
LEMMA TextLaid ==
  ASSUME NEW r, WellFormedRequest(r), NEW T, T = RequestText(r)
  PROVE  Laid(r, T)
<1>1. TextFound(r, T) BY TextIs
<1> USE DEF TextFound
<1>2. /\ r.method \in Seq(Token) /\ r.uri \in Seq(Token) /\ r.protocol \in Seq(Token)
      /\ \A i \in 1..Len(r.headers) :
            r.headers[i].name \in Seq(Token) /\ r.headers[i].value \in Seq(Token)
      /\ r.chunks # <<>> => \A i \in 1..Len(r.chunks) :
            r.chunks[i].size \in Seq(Token) /\ r.chunks[i].data \in Seq(Token)
  BY RequestIs
<1>3. Len(T) \in Nat BY <1>1, LenProperties
<1>4. FirstLineLaid(r, T)
  <2>1. Len(r.method) \in Nat /\ Len(r.uri) \in Nat /\ Len(r.protocol) \in Nat
    BY <1>2, LenProperties
  <2>2. PICK k \in Nat : k = 0 OBVIOUS
  <2>3. PICK su \in Nat : su = k + Len(r.method) + 1 BY <2>1
  <2>4. PICK sv \in Nat : sv = su + Len(r.uri) + 1 BY <2>1
  <2>5. PICK sh \in Nat : sh = sv + Len(r.protocol) + 2 BY <2>1
  <2>6. Lies(T, k, RequestLine(r)) BY <1>1, <2>2
  <2>7. /\ RequestLine(r) \in Seq(Token) /\ k + Len(RequestLine(r)) = sh
        /\ EndsWith(T, k, r.method, "SP") /\ EndsWith(T, su, r.uri, "SP")
        /\ EndsLine(T, sv, r.protocol)
    <3>1. FirstLineIn(T, r, k, su, sv, sh)
      BY <1>1, <1>2, <2>3, <2>4, <2>5, <2>6, RequestLineIs
    <3> QED BY <3>1 DEF FirstLineIn
  <2>8. UriAt(r) = su BY <2>1, <2>2, <2>3 DEF UriAt
  <2>9. ProtoAt(r) = sv BY <2>4, <2>8 DEF ProtoAt
  <2>10. Len(RequestLine(r)) \in Nat BY <2>7, LenProperties
  <2>11. LineAt(r, 1) = sh BY <1>1, <2>2, <2>7, <2>10
  <2> QED BY <2>2, <2>5, <2>7, <2>8, <2>9, <2>11 DEF FirstLineLaid
<1>5. ASSUME NEW i \in 1..Len(r.headers) PROVE HeaderLaid(r, T, i)
  <2>1. PICK h : h = r.headers[i] OBVIOUS
  <2>2. PICK m : m = h.name OBVIOUS
  <2>3. PICK v : v = h.value OBVIOUS
  <2>4. m \in Seq(Token) /\ v \in Seq(Token) BY <1>2, <2>1, <2>2, <2>3
  <2>5. Len(m) \in Nat /\ Len(v) \in Nat BY <2>4, LenProperties
  <2>6. PICK k \in Nat : k = LineAt(r, i) BY <1>1
  <2>7. PICK k1 \in Nat : k1 = k + Len(m) BY <2>5
  <2>8. PICK sv \in Nat : sv = k1 + 1 OBVIOUS
  <2>9. PICK k2 \in Nat : k2 = sv + 1 OBVIOUS
  <2>10. PICK k3 \in Nat : k3 = k2 + Len(v) BY <2>5
  <2>11. PICK sh \in Nat : sh = k3 + 2 OBVIOUS
  <2>12. Lies(T, k, HeaderLine(h)) BY <1>1, <2>1, <2>6
  <2>13. /\ HeaderLine(h) \in Seq(Token) /\ k + Len(HeaderLine(h)) = sh
         /\ EndsWith(T, k, m, ":") /\ EndsLine(T, sv, Space \o v)
         /\ Space \o v \in Seq(Token) /\ Len(Space \o v) = Len(v) + 1
    <3>1. HeaderIn(T, h, m, v, k, k1, sv, k2, k3, sh)
      BY <1>1, <2>2, <2>3, <2>4, <2>6, <2>7, <2>8, <2>9, <2>10, <2>11, <2>12, HeaderLineIs
    <3> QED BY <3>1 DEF HeaderIn
  <2>14. ValueAt(r, i) = sv BY <2>1, <2>2, <2>5, <2>6, <2>7, <2>8 DEF ValueAt
  <2>15. LineAt(r, i + 1) = sh BY <1>1, <2>1, <2>6, <2>13
  <2>16. PICK d : d = Len(Space \o v) OBVIOUS
  <2>17. PICK n \in Nat : n = Len(v) BY <2>5
  <2>18. Apart(sv, k2, n, k3, d) BY <2>8, <2>9, <2>10, <2>13, <2>16, <2>17, OneMore
  <2>19. k3 = sv + d /\ d \in Nat BY <2>13, <2>16, <2>17, <2>18 DEF Apart
  <2>20. sh = sv + Len(Space \o v) + 2 BY <2>11, <2>16, <2>19
  <2>21. EndsWith(T, LineAt(r, i), r.headers[i].name, ":") BY <2>1, <2>2, <2>6, <2>13
  <2>22. EndsLine(T, ValueAt(r, i), Space \o r.headers[i].value) BY <2>1, <2>3, <2>13, <2>14
  <2>23. LineAt(r, i + 1) = ValueAt(r, i) + Len(Space \o r.headers[i].value) + 2
    BY <2>1, <2>3, <2>14, <2>15, <2>20
  <2> QED BY <2>6, <2>14, <2>15, <2>21, <2>22, <2>23 DEF HeaderLaid
<1>6. LastLineLaid(r, T) BY <1>1, EmptyLine DEF LastLineLaid
<1>7. BodyLaid(r, T) BY <1>1 DEF BodyLaid
<1>8. ASSUME r.chunks # <<>>, NEW i \in 1..Len(r.chunks) PROVE ChunkLaid(r, T, i)
  <2>1. PICK c : c = r.chunks[i] OBVIOUS
  <2>2. PICK m : m = c.size OBVIOUS
  <2>3. PICK v : v = c.data OBVIOUS
  <2>4. m \in Seq(Token) /\ v \in Seq(Token) BY <1>2, <1>8, <2>1, <2>2, <2>3
  <2>5. Len(m) \in Nat /\ Len(v) \in Nat BY <2>4, LenProperties
  <2>6. PICK k \in Nat : k = ChunkAt(r, i) BY <1>1, <1>8
  <2>7. PICK k1 \in Nat : k1 = k + Len(m) BY <2>5
  <2>8. PICK sd \in Nat : sd = k1 + 2 OBVIOUS
  <2>10. PICK k3 \in Nat : k3 = sd + Len(v) BY <2>5
  <2>11. PICK se \in Nat : se = k3 + 2 OBVIOUS
  <2>12. Lies(T, k, Chunk(c)) BY <1>1, <1>8, <2>1, <2>6
  <2>13. /\ Chunk(c) \in Seq(Token) /\ k + Len(Chunk(c)) = se
         /\ EndsLine(T, k, m) /\ EndsLine(T, sd, v)
    <3>1. ChunkIn(T, c, m, v, k, k1, sd, k3, se)
      BY <1>1, <2>2, <2>3, <2>4, <2>6, <2>7, <2>8, <2>10, <2>11, <2>12, ChunkIs
    <3> QED BY <3>1 DEF ChunkIn
  <2>14. DataAt(r, i) = sd BY <2>1, <2>2, <2>5, <2>6, <2>7, <2>8 DEF DataAt
  <2>15. ChunkAt(r, i + 1) = se BY <1>1, <1>8, <2>1, <2>6, <2>13
  <2>16. EndsLine(T, ChunkAt(r, i), r.chunks[i].size) BY <2>1, <2>2, <2>6, <2>13
  <2>17. EndsLine(T, DataAt(r, i), r.chunks[i].data) BY <2>1, <2>3, <2>13, <2>14
  <2>18. ChunkAt(r, i + 1) = DataAt(r, i) + Len(r.chunks[i].data) + 2
    BY <2>1, <2>3, <2>10, <2>11, <2>14, <2>15
  <2> QED BY <2>6, <2>14, <2>15, <2>16, <2>17, <2>18 DEF ChunkLaid
<1>9. ChunksLaid(r, T) BY <1>1, <1>8 DEF ChunksLaid
<1>10. \A i \in 1..Len(r.headers) : HeaderLaid(r, T, i) BY <1>5
<1> QED BY <1>1, <1>3, <1>4, <1>6, <1>7, <1>9, <1>10 DEF Laid

-----------------------------------------------------------------------------
(* How far the parser is in a request. *)

\* A turn that looks for the end of a word finds it, or the end of the segment before it.
LEMMA WordReadIs ==
  ASSUME NEW T \in Seq(Token), NEW a, NEW n, NEW seg, SegOf(T, a, n, seg),
         NEW u, NEW K \in Nat, Stands(T, a, n, seg, K, u), u.at <= Len(seg),
         NEW s \in Nat, NEW w \in Seq(Token), NEW stops, WordEnds(T, s, w, stops),
         NEW state, NEW R, NEW c, InWord(u.p, K, state, R, c, s, w),
         NEW e, e = Http!EndOf(seg, u.at, stops),
         NEW word, word = u.p.line_buffer \o SubSeq(seg, u.at, e - 1)
  PROVE  WordRead(T, a, n, seg, u, s, w, e, word)
<1>1. PICK at \in Nat : at = u.at BY DEF Stands
<1>2. /\ seg \in Seq(Token) /\ Len(seg) = n - a /\ a \in Nat /\ n \in Nat
  BY SegIs DEF SegOf
<1>3. PICK k \in Nat : k <= Len(w) /\ K = s + k /\ u.p \in Reading(state, R, c, SubSeq(w, 1, k))
  BY DEF InWord
<1>4. u.p.line_buffer = SubSeq(w, 1, k) /\ u.p.skip_next_lf \in BOOLEAN BY <1>3 DEF Reading, Stage
<1>5. u.p.skip_next_lf = FALSE
  <2>1. ~(u.at = Len(seg) + 1) BY <1>1, <1>2
  <2> QED BY <1>4, <2>1 DEF Stands
<1>6. 1 <= at /\ at <= Len(seg) /\ s + k = a + at - 1 BY <1>1, <1>3, <1>5 DEF Stands
<1>7. Scanned(T, a, n, seg, at, s, w, k, stops, e)
  <2>1. e = Http!EndOf(seg, at, stops) BY <1>1
  <2> QED BY <1>3, <1>6, <2>1, ScanIs
<1>8. word = SubSeq(w, 1, k) \o SubSeq(seg, at, e - 1) BY <1>1, <1>4
<1>9. s <= n BY <1>2, <1>3, <1>6
<1> QED BY <1>1, <1>5, <1>7, <1>8, <1>9 DEF Scanned, WordRead

\* A word that the segment cuts is kept in line_buffer as far as it is there.
LEMMA WordCut ==
  ASSUME NEW T \in Seq(Token), NEW a, NEW n, NEW seg, SegOf(T, a, n, seg),
         NEW u, NEW K \in Nat, NEW s \in Nat, NEW w \in Seq(Token),
         NEW state, NEW R, NEW c, InWord(u.p, K, state, R, c, s, w),
         NEW e, NEW word, WordRead(T, a, n, seg, u, s, w, e, word), e > Len(seg),
         NEW v, v = CutShort(u.p, word, e)
  PROVE  WordKept(T, a, n, seg, u, state, R, c, s, w, v)
<1>1. /\ seg \in Seq(Token) /\ Len(seg) = n - a /\ a \in Nat /\ n \in Nat /\ a < n
  BY SegIs DEF SegOf
<1>2. Len(seg) \in Nat BY <1>1, LenProperties
<1>3. /\ u.p.skip_next_lf = FALSE /\ e \in Nat /\ e = Len(seg) + 1 /\ u.at < e
      /\ s <= n /\ n <= s + Len(w) /\ word = SubSeq(w, 1, n - s)
  BY <1>2 DEF WordRead
<1>4. PICK k \in Nat : u.p \in Reading(state, R, c, SubSeq(w, 1, k)) BY DEF InWord
<1>5. v.p = [u.p EXCEPT !.line_buffer = word] /\ v.at = e /\ v.left = TRUE
  BY DEF CutShort, Http!Leave
<1>6. v.p \in Reading(state, R, c, word) /\ v.p.skip_next_lf = u.p.skip_next_lf
  BY ZenonT(30), <1>4, <1>5 DEF Reading, Stage
<1>7. InWord(v.p, n, state, R, c, s, w)
  <2>1. PICK m \in Nat : m = n - s BY <1>1, <1>3
  <2>2. m <= Len(w) /\ n = s + m
    <3>1. Len(w) \in Nat BY LenProperties
    <3> QED BY <1>1, <1>3, <2>1, <3>1
  <2>3. v.p \in Reading(state, R, c, SubSeq(w, 1, m)) BY <1>3, <1>6, <2>1
  <2> QED BY <2>2, <2>3 DEF InWord
<1>8. Stands(T, a, n, seg, n, v)
  <2>1. n = a + e - 1 BY <1>1, <1>3
  <2>2. e \in Nat /\ 1 <= e /\ e <= Len(seg) + 1 /\ v.at = e BY <1>2, <1>3, <1>5
  <2>3. v.p.skip_next_lf = FALSE BY <1>3, <1>6
  <2> QED BY <2>1, <2>2, <2>3 DEF Stands
<1>9. v.p.state = state /\ u.p.state = state BY <1>4, <1>6 DEF Reading, Stage
<1> QED BY <1>1, <1>3, <1>5, <1>7, <1>8, <1>9 DEF WordKept

\* Behind a CR the parser is on the next line, or has a note of the LF to come.
LEMMA LinePassed ==
  ASSUME NEW T \in Seq(Token), NEW a, NEW n, NEW seg, SegOf(T, a, n, seg),
         NEW e \in Nat, 1 <= e, e <= Len(seg), seg[e] = "CR",
         NEW K \in Nat, K = a + e + 1, K <= Len(T), T[K] = "LF",
         NEW q, NEW s, NEW R, NEW c, NEW w, q \in Reading(s, R, c, w), q.skip_next_lf = FALSE,
         NEW v, v = Http!PastLineEnd(q, seg, e)
  PROVE  v.p \in Reading(s, R, c, w) /\ LineLeft(T, a, n, seg, K, e, v)
<1>1. /\ seg \in Seq(Token) /\ Len(seg) = n - a /\ a \in Nat /\ n \in Nat /\ a < n
      /\ \A i \in 1..Len(seg) : seg[i] = T[a + i]
  BY SegIs DEF SegOf
<1>2. Len(seg) \in Nat BY <1>1, LenProperties
<1>3. seg[e] # "LF" OBVIOUS
<1>4. CASE e < Len(seg)
  <2>1. e + 1 \in 1..Len(seg) /\ a + (e + 1) = K BY <1>1, <1>2, <1>4
  <2>2. seg[e + 1] = "LF" BY <1>1, <2>1
  <2>3. v = Http!Go(q, e + 2) BY <1>3, <1>4, <2>2 DEF Http!PastLineEnd
  <2>4. v.p = q /\ v.at = e + 2 /\ v.left = FALSE BY <2>3 DEF Http!Go
  <2>5. K = a + (e + 2) - 1 /\ e + 2 <= Len(seg) + 1 BY <1>1, <1>2, <1>4
  <2>6. Stands(T, a, n, seg, K, v)
    <3>1. PICK y \in Nat : y = e + 2 OBVIOUS
    <3>2. v.at = y /\ 1 <= y /\ y <= Len(seg) + 1 /\ K = a + y - 1
      BY <1>1, <1>2, <1>4, <2>4, <2>5, <3>1
    <3>3. v.p.skip_next_lf = FALSE BY <2>4
    <3> QED BY <3>1, <3>2, <3>3 DEF Stands
  <2> QED BY <2>4, <2>6 DEF LineLeft
<1>5. CASE e = Len(seg)
  <2>1. v = Http!Go([q EXCEPT !.skip_next_lf = TRUE], e + 1)
    BY <1>2, <1>3, <1>5 DEF Http!PastLineEnd
  <2>2. v.p = [q EXCEPT !.skip_next_lf = TRUE] /\ v.at = e + 1 /\ v.left = FALSE
    BY <2>1 DEF Http!Go
  <2>3. v.p \in Reading(s, R, c, w) /\ v.p.skip_next_lf = TRUE BY <2>2 DEF Reading, Stage
  <2>4. K = n + 1 BY <1>1, <1>2, <1>5
  <2>5. Stands(T, a, n, seg, K, v)
    <3>1. PICK y \in Nat : y = e + 1 OBVIOUS
    <3>2. v.at = y /\ 1 <= y /\ y = Len(seg) + 1 BY <1>2, <1>5, <2>2, <3>1
    <3>3. v.p.skip_next_lf # FALSE BY <2>3
    <3>4. y <= Len(seg) + 1 BY <1>2, <3>2
    <3> QED BY <2>4, <3>1, <3>2, <3>3, <3>4 DEF Stands
  <2> QED BY <2>2, <2>3, <2>5 DEF LineLeft
<1>6. e < Len(seg) \/ e = Len(seg) BY <1>2
<1> QED BY <1>4, <1>5, <1>6

-----------------------------------------------------------------------------
(* The turns of the loop in the first line. *)

\* A word without the tokens of S ends at the first of them.
LEMMA StopsAt ==
  ASSUME NEW T, NEW s, NEW w, NEW c, EndsWith(T, s, w, c), NEW S, c \in S,
         \A i \in 1..Len(w) : w[i] \notin S
  PROVE  WordEnds(T, s, w, S)
BY DEF EndsWith, WordEnds

\* A parser with an empty line_buffer is in front of the next word.
LEMMA WordStarts ==
  ASSUME NEW p, NEW state, NEW R, NEW c, NEW s \in Nat, NEW w \in Seq(Token),
         p \in Reading(state, R, c, <<>>)
  PROVE  InWord(p, s, state, R, c, s, w)
<1>1. PICK k \in Nat : k = 0 OBVIOUS
<1>2. SubSeq(w, 1, k) = <<>> BY <1>1, SubSeqEmpty
<1>3. k <= Len(w) /\ s = s + k
  <2>1. Len(w) \in Nat BY LenProperties
  <2> QED BY <1>1, <2>1
<1> QED BY <1>2, <1>3 DEF InWord

\* Behind token e of the segment.
LEMMA StandsBehind ==
  ASSUME NEW T, NEW a \in Nat, NEW n, NEW seg, Len(seg) \in Nat, NEW e \in Nat, e <= Len(seg),
         NEW K \in Nat, K = a + e, NEW v, v.at = e + 1, v.p.skip_next_lf = FALSE
  PROVE  Stands(T, a, n, seg, K, v)
<1>1. PICK y \in Nat : y = e + 1 OBVIOUS
<1>2. v.at = y /\ 1 <= y /\ y <= Len(seg) + 1 /\ K = a + y - 1 BY <1>1
<1> QED BY <1>1, <1>2 DEF Stands

\* Behind the method the parser is in the URI.
LEMMA WithMethodIs ==
  ASSUME NEW r, NEW p, NEW c, NEW w, p \in Reading("S_METHOD", NoPart(r), c, w),
         NEW z, z = r.method, NEW q, q = WithMethod(p, z)
  PROVE  q \in Reading("S_URI", MethodPart(r), c, <<>>) /\ q.skip_next_lf = p.skip_next_lf
BY Zenon DEF Reading, Stage, NoPart, MethodPart, Part, WithMethod

\* Behind the URI the parser is in the protocol.
LEMMA WithUriIs ==
  ASSUME NEW r, NEW p, NEW c, NEW w, p \in Reading("S_URI", MethodPart(r), c, w),
         NEW z, z = r.uri, NEW q, q = WithUri(p, z)
  PROVE  q \in Reading("S_PROTO", UriPart(r), c, <<>>) /\ q.skip_next_lf = p.skip_next_lf
BY DEF Reading, Stage, UriPart, MethodPart, Part, WithUri

\* Behind the protocol the parser is in front of the headers.
LEMMA WithProtocolIs ==
  ASSUME NEW r, NEW p, NEW c, NEW w, p \in Reading("S_PROTO", UriPart(r), c, w),
         NEW z, z = r.protocol, NEW q, q = WithProtocol(p, z)
  PROVE  q \in Reading("S_HEADER_NAME", HeadPart(r, 0), c, <<>>) /\ q.skip_next_lf = p.skip_next_lf
<1>1. HeadPart(r, 0) = Part(r.method, r.uri, r.protocol, Http!NoHeaders, <<>>)
  BY HdrsStart DEF HeadPart
<1> QED BY <1>1 DEF Reading, Stage, UriPart, Part, WithProtocol

\* A turn in one of the three words of the request line.
LEMMA FirstLineTurn ==
  ASSUME NEW p, NEW seg, NEW at, Len(seg) \in Nat,
         p.state \in {"S_METHOD", "S_URI", "S_PROTO"},
         NEW e \in Nat, e = Http!EndOf(seg, at, FirstStops),
         NEW word, word = p.line_buffer \o SubSeq(seg, at, e - 1),
         NEW v, v = Http!Turn(p, seg, at)
  PROVE  FirstLineGoes(p, seg, e, word, v)
<1>1. v = Http!RequestLine(p, seg, at) BY DEF Http!Turn
<1>2. e = Http!EndOf(seg, at, {"SP"} \cup Http!LineEnds) BY DEF FirstStops
<1>3. v = CASE e > Len(seg) -> CutShort(p, word, e)
            [] e <= Len(seg) /\ seg[e] = "SP" /\ p.state = "S_METHOD" ->
                  Http!Go(WithMethod(p, word), e + 1)
            [] e <= Len(seg) /\ seg[e] = "SP" /\ p.state = "S_URI" ->
                  Http!Go(WithUri(p, word), e + 1)
            [] e <= Len(seg) /\ seg[e] \in Http!LineEnds /\ p.state = "S_PROTO" ->
                  Http!PastLineEnd(WithProtocol(p, word), seg, e)
            [] OTHER -> Http!Fail([p EXCEPT !.line_buffer = word], e)
  BY <1>1, <1>2, Zenon DEF Http!RequestLine, CutShort, WithMethod, WithUri, WithProtocol
<1>4. "CR" \in Http!LineEnds /\ "SP" \notin Http!LineEnds BY DEF Http!LineEnds
<1> QED BY <1>3, <1>4 DEF FirstLineGoes

\* What a turn about a request may use of it.
LEMMA AboutIs ==
  ASSUME NEW r, NEW T, NEW a, NEW n, NEW seg, About(r, T, a, n, seg)
  PROVE  Known(r, T, a, n, seg)
<1>1. /\ WellFormedRequest(r) /\ Laid(r, T) /\ SegOf(T, a, n, seg) /\ n \notin Fragile(r)
      /\ T = RequestText(r)
  BY TextLaid DEF About
<1>2. T \in Seq(Token) /\ Len(T) \in Nat BY <1>1 DEF Laid
<1>3. seg \in Seq(Token) /\ Len(seg) = n - a /\ \A i \in 1..Len(seg) : seg[i] = T[a + i]
  BY <1>1, <1>2, SegIs
<1> QED BY <1>1, <1>2, <1>3, LenProperties DEF SegOf, Known

\* A word of the request line ends at what stands behind it.
LEMMA FirstWordEnds ==
  ASSUME NEW T, NEW s, NEW w \in Seq(Token), NEW c, c \in {"SP", "CR"}, EndsWith(T, s, w, c),
         Without(w, {"SP", "CR", "LF"})
  PROVE  WordEnds(T, s, w, FirstStops)
<1>1. c \in FirstStops /\ FirstStops = {"SP", "CR", "LF"} BY DEF FirstStops, Http!LineEnds
<1>2. DOMAIN w = 1..Len(w) BY LenProperties
<1>3. \A i \in 1..Len(w) : w[i] \notin FirstStops BY <1>1, <1>2 DEF Without
<1> QED BY <1>1, <1>3, StopsAt

\* A turn in the method.
LEMMA MethodTurned ==
  ASSUME NEW r, NEW T, NEW a, NEW n, NEW seg, About(r, T, a, n, seg),
         NEW u, NEW K \in Nat, InMethod(r, K, u.p), Stands(T, a, n, seg, K, u),
         u.at <= Len(seg), NEW v, v = Http!Turn(u.p, seg, u.at)
  PROVE  Turned(r, T, a, n, seg, u, v)
<1>1. Known(r, T, a, n, seg) BY AboutIs
<1> USE DEF Known
<1>2. PICK w \in Seq(Token) : w = r.method BY <1>1, RequestIs
<1>3. PICK s \in Nat : s = 0 OBVIOUS
<1>4. EndsWith(T, s, w, "SP") /\ UriAt(r) \in Nat BY <1>1, <1>2, <1>3 DEF Laid, FirstLineLaid
<1>5. WordEnds(T, s, w, FirstStops)
  <2>1. Without(w, {"SP", "CR", "LF"}) BY <1>1, <1>2, RequestIs
  <2> QED BY <1>4, <2>1, FirstWordEnds
<1>6. InWord(u.p, K, "S_METHOD", NoPart(r), <<>>, s, w) BY <1>2, <1>3 DEF InMethod
<1>7. PICK k \in Nat : u.p \in Reading("S_METHOD", NoPart(r), <<>>, SubSeq(w, 1, k))
  BY <1>6 DEF InWord
<1>8. u.p.state = "S_METHOD" BY <1>7 DEF Reading, Stage
<1>9. PICK at \in Nat : at = u.at BY DEF Stands
<1>10. PICK e : e = Http!EndOf(seg, u.at, FirstStops) OBVIOUS
<1>11. PICK word : word = u.p.line_buffer \o SubSeq(seg, u.at, e - 1) OBVIOUS
<1>12. WordRead(T, a, n, seg, u, s, w, e, word) BY <1>1, <1>5, <1>6, <1>10, <1>11, WordReadIs
<1>13. e \in Nat /\ u.p.skip_next_lf = FALSE /\ at <= e BY <1>9, <1>12 DEF WordRead
<1>14. FirstLineGoes(u.p, seg, e, word, v) BY Zenon, <1>1, <1>8, <1>10, <1>11, <1>13, FirstLineTurn
<1>16. CASE e > Len(seg)
  <2>1. v = CutShort(u.p, word, e) BY <1>14, <1>16 DEF FirstLineGoes
  <2>2. WordKept(T, a, n, seg, u, "S_METHOD", NoPart(r), <<>>, s, w, v)
    BY <1>1, <1>6, <1>12, <1>16, <2>1, WordCut
  <2>3. InMethod(r, n, v.p) BY <1>2, <1>3, <2>2 DEF InMethod, WordKept
  <2> QED BY <1>8, <2>2, <2>3 DEF Turned, Early, Reads, WordKept
<1>17. CASE e <= Len(seg)
  <2>1. a + e = s + Len(w) + 1 /\ seg[e] = "SP" /\ word = w
    BY <1>1, <1>4, <1>13, <1>17, <1>12 DEF WordRead, EndsWith
  <2>2. v = Http!Go(WithMethod(u.p, w), e + 1) BY <1>8, <1>14, <1>17, <2>1 DEF FirstLineGoes
  <2>3. v.p = WithMethod(u.p, w) /\ v.at = e + 1 /\ v.left = FALSE BY <2>2 DEF Http!Go
  <2>4. v.p \in Reading("S_URI", MethodPart(r), <<>>, <<>>) /\ v.p.skip_next_lf = FALSE
    BY <1>2, <1>7, <1>13, <2>3, WithMethodIs
  <2>5. a + e = UriAt(r) BY <1>2, <1>3, <2>1 DEF UriAt
  <2>6. InUri(r, UriAt(r), v.p)
    <3>1. r.uri \in Seq(Token) BY <1>1, RequestIs
    <3> QED BY <1>4, <2>4, <3>1, WordStarts DEF InUri
  <2>7. Stands(T, a, n, seg, UriAt(r), v)
    BY <1>1, <1>4, <1>13, <1>17, <2>3, <2>4, <2>5, StandsBehind
  <2>8. Reads(r, T, UriAt(r), v.p) BY <2>6 DEF Reads
  <2>9. u.at < v.at BY <1>9, <1>13, <2>3
  <2> QED BY <1>4, <1>8, <2>3, <2>7, <2>8, <2>9 DEF Turned, Early
<1> QED BY <1>1, <1>13, <1>16, <1>17

\* A turn in the URI.
LEMMA UriTurned ==
  ASSUME NEW r, NEW T, NEW a, NEW n, NEW seg, About(r, T, a, n, seg),
         NEW u, NEW K \in Nat, InUri(r, K, u.p), Stands(T, a, n, seg, K, u),
         u.at <= Len(seg), NEW v, v = Http!Turn(u.p, seg, u.at)
  PROVE  Turned(r, T, a, n, seg, u, v)
<1>1. Known(r, T, a, n, seg) BY AboutIs
<1> USE DEF Known
<1>2. PICK w \in Seq(Token) : w = r.uri BY <1>1, RequestIs
<1>3. PICK s \in Nat : s = UriAt(r) BY <1>1 DEF Laid, FirstLineLaid
<1>4. EndsWith(T, s, w, "SP") /\ ProtoAt(r) \in Nat BY <1>1, <1>2, <1>3 DEF Laid, FirstLineLaid
<1>5. WordEnds(T, s, w, FirstStops)
  <2>1. Without(w, {"SP", "CR", "LF"}) BY <1>1, <1>2, RequestIs
  <2> QED BY <1>4, <2>1, FirstWordEnds
<1>6. InWord(u.p, K, "S_URI", MethodPart(r), <<>>, s, w) BY <1>2, <1>3 DEF InUri
<1>7. PICK k \in Nat : u.p \in Reading("S_URI", MethodPart(r), <<>>, SubSeq(w, 1, k))
  BY <1>6 DEF InWord
<1>8. u.p.state = "S_URI" BY <1>7 DEF Reading, Stage
<1>9. PICK at \in Nat : at = u.at BY DEF Stands
<1>10. PICK e : e = Http!EndOf(seg, u.at, FirstStops) OBVIOUS
<1>11. PICK word : word = u.p.line_buffer \o SubSeq(seg, u.at, e - 1) OBVIOUS
<1>12. WordRead(T, a, n, seg, u, s, w, e, word) BY <1>1, <1>5, <1>6, <1>10, <1>11, WordReadIs
<1>13. e \in Nat /\ u.p.skip_next_lf = FALSE /\ at <= e BY <1>9, <1>12 DEF WordRead
<1>14. FirstLineGoes(u.p, seg, e, word, v) BY Zenon, <1>1, <1>8, <1>10, <1>11, <1>13, FirstLineTurn
<1>16. CASE e > Len(seg)
  <2>1. v = CutShort(u.p, word, e) BY <1>14, <1>16 DEF FirstLineGoes
  <2>2. WordKept(T, a, n, seg, u, "S_URI", MethodPart(r), <<>>, s, w, v)
    BY <1>1, <1>6, <1>12, <1>16, <2>1, WordCut
  <2>3. InUri(r, n, v.p) BY <1>2, <1>3, <2>2 DEF InUri, WordKept
  <2> QED BY <1>8, <2>2, <2>3 DEF Turned, Early, Reads, WordKept
<1>17. CASE e <= Len(seg)
  <2>1. a + e = s + Len(w) + 1 /\ seg[e] = "SP" /\ word = w
    BY <1>1, <1>4, <1>13, <1>17, <1>12 DEF WordRead, EndsWith
  <2>2. v = Http!Go(WithUri(u.p, w), e + 1) BY <1>8, <1>14, <1>17, <2>1 DEF FirstLineGoes
  <2>3. v.p = WithUri(u.p, w) /\ v.at = e + 1 /\ v.left = FALSE BY <2>2 DEF Http!Go
  <2>4. v.p \in Reading("S_PROTO", UriPart(r), <<>>, <<>>) /\ v.p.skip_next_lf = FALSE
    BY <1>2, <1>7, <1>13, <2>3, WithUriIs
  <2>5. a + e = ProtoAt(r) BY <1>2, <1>3, <2>1 DEF ProtoAt
  <2>6. InProto(r, ProtoAt(r), v.p)
    <3>1. r.protocol \in Seq(Token) BY <1>1, RequestIs
    <3> QED BY <1>4, <2>4, <3>1, WordStarts DEF InProto
  <2>7. Stands(T, a, n, seg, ProtoAt(r), v)
    BY <1>1, <1>4, <1>13, <1>17, <2>3, <2>4, <2>5, StandsBehind
  <2>8. Reads(r, T, ProtoAt(r), v.p) BY <2>6 DEF Reads
  <2>9. u.at < v.at BY <1>9, <1>13, <2>3
  <2> QED BY <1>4, <1>8, <2>3, <2>7, <2>8, <2>9 DEF Turned, Early
<1> QED BY <1>1, <1>13, <1>16, <1>17

\* Behind the line of header i comes the next one, or the line that ends them.
LEMMA HeaderNext ==
  ASSUME NEW r, WellFormedRequest(r), NEW T, Laid(r, T), NEW i \in 0..Len(r.headers),
         NEW p, p \in Reading("S_HEADER_NAME", HeadPart(r, i), <<>>, <<>>),
         NEW K, K = LineAt(r, i + 1)
  PROVE  Reads(r, T, K, p)
<1>1. Len(r.headers) \in Nat BY RequestIs
<1>2. CASE i = Len(r.headers)
  <2>1. PICK w \in Seq(Token) : w = <<>> BY EmptySeq
  <2>2. K \in Nat BY <1>2 DEF Laid, LastLineLaid
  <2>3. InWord(p, K, "S_HEADER_NAME", HeadPart(r, i), <<>>, K, w) BY <2>2, WordStarts
  <2> QED BY <1>2, <2>1, <2>3 DEF Reads, InLastLine
<1>3. CASE i # Len(r.headers)
  <2>1. PICK k \in 1..Len(r.headers) : k = i + 1 BY <1>1, <1>3
  <2>2. PICK w \in Seq(Token) : w = r.headers[k].name BY <2>1, RequestIs
  <2>3. K \in Nat /\ K = LineAt(r, k) BY <2>1 DEF Laid, HeaderLaid
  <2>4. k - 1 = i BY <1>1, <2>1
  <2>5. InWord(p, K, "S_HEADER_NAME", HeadPart(r, i), <<>>, K, w) BY <2>3, WordStarts
  <2>6. InName(r, k, K, p) BY <2>2, <2>3, <2>4, <2>5 DEF InName
  <2> QED BY <2>6 DEF Reads
<1> QED BY <1>2, <1>3

\* A turn in the protocol.
LEMMA ProtoTurned ==
  ASSUME NEW r, NEW T, NEW a, NEW n, NEW seg, About(r, T, a, n, seg),
         NEW u, NEW K \in Nat, InProto(r, K, u.p), Stands(T, a, n, seg, K, u),
         u.at <= Len(seg), NEW v, v = Http!Turn(u.p, seg, u.at)
  PROVE  Turned(r, T, a, n, seg, u, v)
<1>1. /\ T \in Seq(Token) /\ seg \in Seq(Token) /\ Len(seg) \in Nat /\ a \in Nat /\ n \in Nat
      /\ SegOf(T, a, n, seg) /\ WellFormedRequest(r) /\ Laid(r, T)
  BY AboutIs DEF Known
<1>2. PICK w \in Seq(Token) : w = r.protocol BY <1>1, RequestIs
<1>3. PICK s \in Nat : s = ProtoAt(r) BY <1>1 DEF Laid, FirstLineLaid
<1>4. EndsLine(T, s, w) /\ LineAt(r, 1) \in Nat /\ LineAt(r, 1) = s + Len(w) + 2
  BY <1>1, <1>2, <1>3 DEF Laid, FirstLineLaid
<1>5. WordEnds(T, s, w, FirstStops)
  <2>1. Without(w, {"SP", "CR", "LF"}) BY <1>1, <1>2, RequestIs
  <2> QED BY <1>4, <2>1, FirstWordEnds DEF EndsLine
<1>6. InWord(u.p, K, "S_PROTO", UriPart(r), <<>>, s, w) BY <1>2, <1>3 DEF InProto
<1>7. PICK k \in Nat : u.p \in Reading("S_PROTO", UriPart(r), <<>>, SubSeq(w, 1, k))
  BY <1>6 DEF InWord
<1>8. u.p.state = "S_PROTO" BY <1>7 DEF Reading, Stage
<1>9. PICK at \in Nat : at = u.at BY DEF Stands
<1>10. PICK e : e = Http!EndOf(seg, u.at, FirstStops) OBVIOUS
<1>11. PICK word : word = u.p.line_buffer \o SubSeq(seg, u.at, e - 1) OBVIOUS
<1>12. WordRead(T, a, n, seg, u, s, w, e, word) BY <1>1, <1>5, <1>6, <1>10, <1>11, WordReadIs
<1>13. e \in Nat /\ u.p.skip_next_lf = FALSE /\ at <= e BY <1>9, <1>12 DEF WordRead
<1>14. FirstLineGoes(u.p, seg, e, word, v) BY Zenon, <1>1, <1>8, <1>10, <1>11, <1>13, FirstLineTurn
<1>16. CASE e > Len(seg)
  <2>1. v = CutShort(u.p, word, e) BY <1>14, <1>16 DEF FirstLineGoes
  <2>2. WordKept(T, a, n, seg, u, "S_PROTO", UriPart(r), <<>>, s, w, v)
    BY <1>1, <1>6, <1>12, <1>16, <2>1, WordCut
  <2>3. InProto(r, n, v.p) BY <1>2, <1>3, <2>2 DEF InProto, WordKept
  <2> QED BY <1>8, <2>2, <2>3 DEF Turned, Early, Reads, WordKept
<1>17. CASE e <= Len(seg)
  <2>1. a + e = s + Len(w) + 1 /\ seg[e] = "CR" /\ word = w
    BY <1>1, <1>4, <1>13, <1>17, <1>12 DEF WordRead, EndsWith, EndsLine
  <2>2. PICK q : q = WithProtocol(u.p, w) OBVIOUS
  <2>3. v = Http!PastLineEnd(q, seg, e) BY <1>8, <1>14, <1>17, <2>1, <2>2 DEF FirstLineGoes
  <2>4. q \in Reading("S_HEADER_NAME", HeadPart(r, 0), <<>>, <<>>) /\ q.skip_next_lf = FALSE
    BY <1>2, <1>7, <1>13, <2>2, WithProtocolIs
  <2>5. PICK L \in Nat : L = LineAt(r, 1) BY <1>4
  <2>6. L = a + e + 1 /\ L <= Len(T) /\ T[L] = "LF"
    <3>1. Len(w) \in Nat BY LenProperties
    <3>2. s + Len(w) + 2 <= Len(T) /\ T[s + Len(w) + 2] = "LF" BY <1>4 DEF EndsLine
    <3>3. L = s + Len(w) + 2 BY <1>4, <2>5
    <3>5. PICK z \in Nat : z = s + Len(w) BY <3>1
    <3>6. L = z + 2 /\ a + e = z + 1 BY <2>1, <3>3, <3>5
    <3>4. L = a + e + 1 BY SMTT(30), <1>1, <1>13, <2>5, <3>5, <3>6
    <3> QED BY <3>2, <3>3, <3>4
  <2>7. 1 <= e BY <1>9, <1>13 DEF Stands
  <2>8. v.p \in Reading("S_HEADER_NAME", HeadPart(r, 0), <<>>, <<>>)
        /\ LineLeft(T, a, n, seg, L, e, v)
    BY Zenon, <1>1, <1>13, <1>17, <2>1, <2>3, <2>4, <2>6, <2>7, LinePassed
  <2>9. Reads(r, T, L, v.p)
    <3>1. Len(r.headers) \in Nat BY <1>1, RequestIs
    <3>2. 0 \in 0..Len(r.headers) /\ 0 + 1 = 1 BY <3>1
    <3> QED BY <1>1, <2>5, <2>8, <3>2, HeaderNext
  <2>10. u.at < v.at BY <1>9, <1>13, <2>8 DEF LineLeft
  <2> QED BY <1>8, <2>8, <2>9, <2>10 DEF Turned, Early, LineLeft
<1> QED BY <1>1, <1>13, <1>16, <1>17

-----------------------------------------------------------------------------
(* The turns of the loop in the headers. *)

\* Behind the name of a header, without its spaces, the parser is in the value.
LEMMA WithNameIs ==
  ASSUME NEW p, NEW R, NEW c, NEW w, p \in Reading("S_HEADER_NAME", R, c, w),
         NEW z, NEW x, Http!Trim(z) = x, NEW q, q = WithName(p, z)
  PROVE  q \in Reading("S_HEADER_VALUE", R, x, <<>>) /\ q.skip_next_lf = p.skip_next_lf
BY Zenon DEF Reading, Stage, WithName

\* Behind the empty line the headers are done.
LEMMA WithLineIs ==
  ASSUME NEW p, NEW R, NEW c, NEW w, p \in Reading("S_HEADER_NAME", R, c, w),
         NEW q, q = WithLine(p)
  PROVE  q \in Reading("S_HEADERS_DONE", R, c, <<>>) /\ q.skip_next_lf = p.skip_next_lf
BY Zenon DEF Reading, Stage, WithLine

\* Behind a value there is one more header.
LEMMA WithValueIs ==
  ASSUME NEW r, WellFormedRequest(r), NEW i \in 1..Len(r.headers),
         NEW n, n = r.headers[i].name, NEW x, x = r.headers[i].value,
         NEW p, NEW w, p \in Reading("S_HEADER_VALUE", HeadPart(r, i - 1), n, w),
         NEW z, Http!Trim(z) = x, NEW q, q = WithValue(p, z)
  PROVE  ValueTaken(r, i, n, x, p, w, z, q)
<1>1. n # <<>> BY RequestIs DEF WellFormedHeader
<1>2. p.cur_header_name = n /\ p.req \in HeadPart(r, i - 1) BY DEF Reading, Stage
<1>3. PICK h : h = Http!SetHeader(p.req, n, x) OBVIOUS
<1>4. h \in HeadPart(r, i) BY <1>2, <1>3, HeaderSet DEF HeadPart
<1>5. q = [p EXCEPT !.req = h, !.line_buffer = <<>>, !.cur_header_name = <<>>,
                    !.state = "S_HEADER_NAME"]
  BY <1>1, <1>2, <1>3 DEF WithValue
<1> QED BY ZenonT(30), <1>4, <1>5 DEF Reading, Stage, ValueTaken

\* A turn in the name of a header, or in the empty line.
LEMMA NameTurn ==
  ASSUME NEW p, NEW seg, NEW at, Len(seg) \in Nat, p.state = "S_HEADER_NAME",
         NEW e \in Nat, e = Http!EndOf(seg, at, NameStops),
         NEW word, word = p.line_buffer \o SubSeq(seg, at, e - 1),
         NEW v, v = Http!Turn(p, seg, at)
  PROVE  NameGoes(p, seg, e, word, v)
<1>1. v = Http!HeaderName(p, seg, at) BY DEF Http!Turn
<1>2. e = Http!EndOf(seg, at, {":"} \cup Http!LineEnds) BY DEF NameStops
<1>3. v = IF e > Len(seg) THEN CutShort(p, word, e)
          ELSE IF seg[e] = ":" THEN Http!Go(WithName(p, word), e + 1)
          ELSE Http!PastLineEnd(WithLine(p), seg, e)
  BY <1>1, <1>2, Zenon DEF Http!HeaderName, CutShort, WithName, WithLine
<1> QED BY <1>3 DEF NameGoes

\* A turn in the value of a header.
LEMMA ValueTurn ==
  ASSUME NEW p, NEW seg, NEW at, Len(seg) \in Nat, p.state = "S_HEADER_VALUE",
         NEW e \in Nat, e = Http!EndOf(seg, at, Http!LineEnds),
         NEW word, word = p.line_buffer \o SubSeq(seg, at, e - 1),
         NEW v, v = Http!Turn(p, seg, at)
  PROVE  ValueGoes(p, seg, e, word, v)
<1>1. v = Http!HeaderValue(p, seg, at) BY DEF Http!Turn
<1>3. v = IF e > Len(seg) THEN CutShort(p, word, e)
          ELSE Http!PastLineEnd(WithValue(p, word), seg, e)
  BY <1>1, Zenon DEF Http!HeaderValue, CutShort, WithValue
<1> QED BY <1>3 DEF ValueGoes

\* A turn in the name of header i.
LEMMA NameTurned ==
  ASSUME NEW r, NEW T, NEW a, NEW n, NEW seg, About(r, T, a, n, seg),
         NEW u, NEW K \in Nat, NEW i \in 1..Len(r.headers), InName(r, i, K, u.p),
         Stands(T, a, n, seg, K, u), u.at <= Len(seg), NEW v, v = Http!Turn(u.p, seg, u.at)
  PROVE  Turned(r, T, a, n, seg, u, v)
<1>1. Known(r, T, a, n, seg) BY AboutIs
<1> USE DEF Known
<1>2. PICK w \in Seq(Token) : w = r.headers[i].name BY <1>1, RequestIs
<1>0. HeaderLaid(r, T, i) BY <1>1 DEF Laid
<1>3. PICK s \in Nat : s = LineAt(r, i) BY <1>0 DEF HeaderLaid
<1>4. EndsWith(T, s, w, ":") /\ ValueAt(r, i) \in Nat BY <1>0, <1>2, <1>3 DEF HeaderLaid
<1>18. Solid(w) /\ Without(w, {":", "CR", "LF"}) BY <1>1, <1>2, RequestIs DEF WellFormedHeader
<1>5. WordEnds(T, s, w, NameStops)
  <2>1. ":" \in NameStops /\ NameStops = {":", "CR", "LF"} BY DEF NameStops, Http!LineEnds
  <2>2. \A k \in 1..Len(w) : w[k] \notin NameStops
    <3>2. DOMAIN w = 1..Len(w) BY LenProperties
    <3> QED BY <1>18, <2>1, <3>2 DEF Without
  <2> QED BY <1>4, <2>1, <2>2, StopsAt
<1>6. InWord(u.p, K, "S_HEADER_NAME", HeadPart(r, i - 1), <<>>, s, w) BY <1>2, <1>3 DEF InName
<1>7. PICK k \in Nat : u.p \in Reading("S_HEADER_NAME", HeadPart(r, i - 1), <<>>, SubSeq(w, 1, k))
  BY <1>6 DEF InWord
<1>8. u.p.state = "S_HEADER_NAME" BY <1>7 DEF Reading, Stage
<1>9. PICK at \in Nat : at = u.at BY DEF Stands
<1>10. PICK e : e = Http!EndOf(seg, u.at, NameStops) OBVIOUS
<1>11. PICK word : word = u.p.line_buffer \o SubSeq(seg, u.at, e - 1) OBVIOUS
<1>12. WordRead(T, a, n, seg, u, s, w, e, word) BY <1>1, <1>5, <1>6, <1>10, <1>11, WordReadIs
<1>13. e \in Nat /\ u.p.skip_next_lf = FALSE /\ at <= e BY <1>9, <1>12 DEF WordRead
<1>14. NameGoes(u.p, seg, e, word, v) BY Zenon, <1>1, <1>8, <1>10, <1>11, <1>13, NameTurn
<1>16. CASE e > Len(seg)
  <2>1. v = CutShort(u.p, word, e) BY <1>14, <1>16 DEF NameGoes
  <2>2. WordKept(T, a, n, seg, u, "S_HEADER_NAME", HeadPart(r, i - 1), <<>>, s, w, v)
    BY <1>1, <1>6, <1>12, <1>16, <2>1, WordCut
  <2>3. InName(r, i, n, v.p) BY <1>2, <1>3, <2>2 DEF InName, WordKept
  <2>4. Reads(r, T, n, v.p) BY <2>3 DEF Reads
  <2> QED BY <1>8, <2>2, <2>4 DEF Turned, Early, WordKept
<1>17. CASE e <= Len(seg)
  <2>1. a + e = s + Len(w) + 1 /\ seg[e] = ":" /\ word = w
    BY <1>1, <1>4, <1>13, <1>17, <1>12 DEF WordRead, EndsWith
  <2>2. v = Http!Go(WithName(u.p, w), e + 1) BY <1>8, <1>14, <1>17, <2>1 DEF NameGoes
  <2>3. v.p = WithName(u.p, w) /\ v.at = e + 1 /\ v.left = FALSE BY <2>2 DEF Http!Go
  <2>10. Http!Trim(w) = w
    <3>1. PICK d \in Nat : d = 0 OBVIOUS
    <3>2. PICK l \in Nat : l = Len(w) BY LenProperties
    <3>3. l = d + Len(w) /\ \A g \in 1..d : w[g] = "SP" BY <3>1, <3>2
    <3>4. \A g \in 1..Len(w) : w[d + g] = w[g] BY <3>1
    <3> QED BY <1>18, <3>2, <3>3, <3>4, TrimIs
  <2>4. v.p \in Reading("S_HEADER_VALUE", HeadPart(r, i - 1), w, <<>>) /\ v.p.skip_next_lf = FALSE
    BY <1>7, <1>13, <2>3, <2>10, WithNameIs
  <2>5. PICK K2 \in Nat : K2 = ValueAt(r, i) BY <1>4
  <2>11. a + e = K2 BY <1>2, <1>3, <2>1, <2>5 DEF ValueAt
  <2>6. InValue(r, i, K2, v.p)
    <3>1. PICK x \in Seq(Token) : x = Space \o r.headers[i].value
      BY <1>1, RequestIs, Marks, TokensJoin
    <3>2. InWord(v.p, K2, "S_HEADER_VALUE", HeadPart(r, i - 1), w, K2, x) BY <2>4, WordStarts
    <3> QED BY <1>2, <2>5, <3>1, <3>2 DEF InValue
  <2>7. Stands(T, a, n, seg, K2, v) BY <1>1, <1>13, <1>17, <2>3, <2>4, <2>11, StandsBehind
  <2>8. Reads(r, T, K2, v.p) BY <2>6 DEF Reads
  <2>9. u.at < v.at BY <1>9, <1>13, <2>3
  <2> QED BY <1>8, <2>3, <2>7, <2>8, <2>9 DEF Turned, Early
<1> QED BY <1>1, <1>13, <1>16, <1>17

\* A turn in the value of header i.
LEMMA ValueTurned ==
  ASSUME NEW r, NEW T, NEW a, NEW n, NEW seg, About(r, T, a, n, seg),
         NEW u, NEW K \in Nat, NEW i \in 1..Len(r.headers), InValue(r, i, K, u.p),
         Stands(T, a, n, seg, K, u), u.at <= Len(seg), NEW v, v = Http!Turn(u.p, seg, u.at)
  PROVE  Turned(r, T, a, n, seg, u, v)
<1>1. /\ T \in Seq(Token) /\ seg \in Seq(Token) /\ Len(seg) \in Nat /\ a \in Nat /\ n \in Nat
      /\ SegOf(T, a, n, seg) /\ WellFormedRequest(r) /\ Laid(r, T)
  BY AboutIs DEF Known
<1>19. PICK x \in Seq(Token) : x = r.headers[i].value BY <1>1, RequestIs
<1>2. PICK w : w = Space \o x OBVIOUS
<1>20. w \in Seq(Token) /\ Len(w) = 1 + Len(x) /\ \A k \in 1..1 + Len(x) :
          w[k] = IF k <= 1 THEN "SP" ELSE x[k - 1]
  <2>1. /\ w \in Seq(Token) /\ Len(w) = Len(Space) + Len(x)
        /\ \A k \in 1..Len(Space) + Len(x) :
             w[k] = IF k <= Len(Space) THEN Space[k] ELSE x[k - Len(Space)]
    <3>1. Space \in Seq(Token) BY Marks
    <3>2. /\ Space \o x \in Seq(Token) /\ Len(Space \o x) = Len(Space) + Len(x)
          /\ \A k \in 1..Len(Space) + Len(x) :
               (Space \o x)[k] = IF k <= Len(Space) THEN Space[k] ELSE x[k - Len(Space)]
      BY <1>19, <3>1, ConcatProperties
    <3> QED BY <1>2, <3>2
  <2>2. Len(Space) = 1 /\ Space[1] = "SP" BY Marks
  <2>3. ASSUME NEW k \in 1..1 + Len(x) PROVE w[k] = IF k <= 1 THEN "SP" ELSE x[k - 1]
    <3>1. k <= 1 => k = 1 OBVIOUS
    <3> QED BY <2>1, <2>2, <3>1
  <2> QED BY <2>1, <2>2, <2>3
<1>0. HeaderLaid(r, T, i) BY <1>1 DEF Laid
<1>3. PICK s \in Nat : s = ValueAt(r, i) BY <1>0 DEF HeaderLaid
<1>4. EndsLine(T, s, w) /\ LineAt(r, i + 1) \in Nat /\ LineAt(r, i + 1) = s + Len(w) + 2
  BY <1>0, <1>2, <1>3, <1>19 DEF HeaderLaid
<1>18. Solid(x) /\ Without(x, {"CR", "LF"}) BY <1>1, <1>19, RequestIs DEF WellFormedHeader
<1>21. Len(x) \in Nat BY <1>19, LenProperties
<1>5. WordEnds(T, s, w, Http!LineEnds)
  <2>1. "CR" \in Http!LineEnds /\ "SP" \notin Http!LineEnds /\ Http!LineEnds = {"CR", "LF"}
    BY DEF Http!LineEnds
  <2>2. ASSUME NEW k \in 1..Len(w) PROVE w[k] \notin Http!LineEnds
    <3>1. DOMAIN x = 1..Len(x) BY <1>19, LenProperties
    <3>2. CASE k <= 1 BY <1>20, <2>1, <3>2
    <3>3. CASE ~(k <= 1)
      <4>1. k - 1 \in 1..Len(x) BY <1>20, <1>21, <3>3
      <4>2. w[k] = x[k - 1] BY <1>20, <3>3
      <4> QED BY <1>18, <2>1, <3>1, <4>1, <4>2 DEF Without
    <3> QED BY <3>2, <3>3
  <2> QED BY <1>4, <2>1, <2>2, StopsAt DEF EndsLine
<1>6. InWord(u.p, K, "S_HEADER_VALUE", HeadPart(r, i - 1), r.headers[i].name, s, w)
  BY <1>2, <1>3, <1>19 DEF InValue
<1>7. PICK k \in Nat : u.p \in Reading("S_HEADER_VALUE", HeadPart(r, i - 1), r.headers[i].name,
                                       SubSeq(w, 1, k))
  BY <1>6 DEF InWord
<1>8. u.p.state = "S_HEADER_VALUE" BY <1>7 DEF Reading, Stage
<1>9. PICK at \in Nat : at = u.at BY DEF Stands
<1>10. PICK e : e = Http!EndOf(seg, u.at, Http!LineEnds) OBVIOUS
<1>11. PICK word : word = u.p.line_buffer \o SubSeq(seg, u.at, e - 1) OBVIOUS
<1>12. WordRead(T, a, n, seg, u, s, w, e, word)
  BY <1>1, <1>5, <1>6, <1>10, <1>11, <1>20, WordReadIs
<1>13. e \in Nat /\ u.p.skip_next_lf = FALSE /\ at <= e BY <1>9, <1>12 DEF WordRead
<1>14. ValueGoes(u.p, seg, e, word, v) BY <1>1, <1>8, <1>10, <1>11, <1>13, ValueTurn
<1>16. CASE e > Len(seg)
  <2>1. v = CutShort(u.p, word, e) BY <1>14, <1>16 DEF ValueGoes
  <2>2. WordKept(T, a, n, seg, u, "S_HEADER_VALUE", HeadPart(r, i - 1), r.headers[i].name, s, w, v)
    BY <1>1, <1>6, <1>12, <1>16, <1>20, <2>1, WordCut
  <2>3. InValue(r, i, n, v.p) BY <1>2, <1>3, <1>19, <2>2 DEF InValue, WordKept
  <2>4. Reads(r, T, n, v.p) BY <2>3 DEF Reads
  <2> QED BY <1>8, <2>2, <2>4 DEF Turned, Early, WordKept
<1>17. CASE e <= Len(seg)
  <2>1. a + e = s + Len(w) + 1 /\ seg[e] = "CR" /\ word = w
    BY <1>1, <1>4, <1>13, <1>17, <1>12 DEF WordRead, EndsWith, EndsLine
  <2>2. PICK q : q = WithValue(u.p, w) OBVIOUS
  <2>3. v = Http!PastLineEnd(q, seg, e) BY <1>14, <1>17, <2>1, <2>2 DEF ValueGoes
  <2>11. Http!Trim(w) = x
    <3>1. PICK d \in Nat : d = 1 OBVIOUS
    <3>2. PICK l \in Nat : l = Len(w) BY <1>20, <1>21
    <3>3. l = d + Len(x) BY <1>20, <3>1, <3>2
    <3>4. \A g \in 1..d : w[g] = "SP"
      <4> SUFFICES ASSUME NEW g \in 1..d PROVE w[g] = "SP" OBVIOUS
      <4>1. g \in 1..1 + Len(x) /\ g <= 1 BY <1>21, <3>1
      <4> QED BY <1>20, <4>1
    <3>5. \A g \in 1..Len(x) : w[d + g] = x[g]
      <4> SUFFICES ASSUME NEW g \in 1..Len(x) PROVE w[d + g] = x[g] OBVIOUS
      <4>1. d + g \in 1..1 + Len(x) /\ ~(d + g <= 1) /\ (d + g) - 1 = g BY <1>21, <3>1
      <4> QED BY <1>20, <4>1
    <3> QED BY <1>18, <1>19, <1>20, <3>2, <3>3, <3>4, <3>5, TrimIs
  <2>4. q \in Reading("S_HEADER_NAME", HeadPart(r, i), <<>>, <<>>) /\ q.skip_next_lf = FALSE
    <3>1. PICK m : m = r.headers[i].name OBVIOUS
    <3>2. u.p.skip_next_lf = FALSE BY <1>13
    <3>3. /\ q \in Reading("S_HEADER_NAME", HeadPart(r, i), <<>>, <<>>)
          /\ q.skip_next_lf = u.p.skip_next_lf
      <4>1. PICK y : y = SubSeq(w, 1, k) OBVIOUS
      <4>2. u.p \in Reading("S_HEADER_VALUE", HeadPart(r, i - 1), m, y) BY <1>7, <3>1, <4>1
      <4>3. ValueTaken(r, i, m, x, u.p, y, w, q)
        BY <1>1, <1>19, <2>2, <2>11, <3>1, <4>2, WithValueIs
      <4> QED BY <4>3 DEF ValueTaken
    <3> QED BY <3>2, <3>3
  <2>5. PICK L \in Nat : L = LineAt(r, i + 1) BY <1>4
  <2>6. L = a + e + 1 /\ L <= Len(T) /\ T[L] = "LF"
    <3>1. Len(w) \in Nat BY <1>20, LenProperties
    <3>2. s + Len(w) + 2 <= Len(T) /\ T[s + Len(w) + 2] = "LF" BY <1>4 DEF EndsLine
    <3>3. L = s + Len(w) + 2 BY <1>4, <2>5
    <3>5. PICK z \in Nat : z = s + Len(w) BY <3>1
    <3>6. L = z + 2 /\ a + e = z + 1 BY <2>1, <3>3, <3>5
    <3>4. L = a + e + 1 BY <1>1, <1>13, <2>5, <3>5, <3>6
    <3> QED BY <3>2, <3>3, <3>4
  <2>7. 1 <= e BY <1>9, <1>13 DEF Stands
  <2>8. v.p \in Reading("S_HEADER_NAME", HeadPart(r, i), <<>>, <<>>)
        /\ LineLeft(T, a, n, seg, L, e, v)
    BY Zenon, <1>1, <1>13, <1>17, <2>1, <2>3, <2>4, <2>6, <2>7, LinePassed
  <2>9. Reads(r, T, L, v.p)
    <3>1. Len(r.headers) \in Nat BY <1>1, RequestIs
    <3>2. i \in 0..Len(r.headers) BY <3>1
    <3> QED BY <1>1, <2>5, <2>8, <3>2, HeaderNext
  <2>10. u.at < v.at BY <1>9, <1>13, <2>8 DEF LineLeft
  <2> QED BY <1>8, <2>8, <2>9, <2>10 DEF Turned, Early, LineLeft
<1> QED BY <1>1, <1>13, <1>16, <1>17

\* A turn in the empty line behind the headers.
LEMMA LastLineTurned ==
  ASSUME NEW r, NEW T, NEW a, NEW n, NEW seg, About(r, T, a, n, seg),
         NEW u, NEW K \in Nat, InLastLine(r, K, u.p),
         Stands(T, a, n, seg, K, u), u.at <= Len(seg), NEW v, v = Http!Turn(u.p, seg, u.at)
  PROVE  Turned(r, T, a, n, seg, u, v)
<1>1. /\ T \in Seq(Token) /\ seg \in Seq(Token) /\ Len(seg) \in Nat /\ a \in Nat /\ n \in Nat
      /\ SegOf(T, a, n, seg) /\ WellFormedRequest(r) /\ Laid(r, T)
  BY AboutIs DEF Known
<1>2. PICK w \in Seq(Token) : w = <<>> BY EmptySeq
<1>19. Len(w) = 0 BY <1>2
<1>0. LastLineLaid(r, T) BY <1>1 DEF Laid
<1>3. PICK s \in Nat : s = LineAt(r, Len(r.headers) + 1) BY <1>0 DEF LastLineLaid
<1>4. EndsLine(T, s, w) /\ HeadEnd(r) \in Nat /\ HeadEnd(r) = s + 2
  BY <1>0, <1>2, <1>3 DEF LastLineLaid
<1>5. WordEnds(T, s, w, NameStops)
  <2>1. "CR" \in NameStops BY DEF NameStops, Http!LineEnds
  <2>2. \A k \in 1..Len(w) : w[k] \notin NameStops BY <1>19
  <2> QED BY <1>4, <2>1, <2>2, StopsAt DEF EndsLine
<1> DEFINE N == Len(r.headers)
<1>6. InWord(u.p, K, "S_HEADER_NAME", HeadPart(r, N), <<>>, s, w) BY <1>2, <1>3 DEF InLastLine
<1>7. PICK k \in Nat : u.p \in Reading("S_HEADER_NAME", HeadPart(r, N), <<>>, SubSeq(w, 1, k))
  BY <1>6 DEF InWord
<1>8. u.p.state = "S_HEADER_NAME" BY <1>7 DEF Reading, Stage
<1>9. PICK at \in Nat : at = u.at BY DEF Stands
<1>10. PICK e : e = Http!EndOf(seg, u.at, NameStops) OBVIOUS
<1>11. PICK word : word = u.p.line_buffer \o SubSeq(seg, u.at, e - 1) OBVIOUS
<1>12. WordRead(T, a, n, seg, u, s, w, e, word) BY <1>1, <1>5, <1>6, <1>10, <1>11, WordReadIs
<1>13. e \in Nat /\ u.p.skip_next_lf = FALSE /\ at <= e BY <1>9, <1>12 DEF WordRead
<1>14. NameGoes(u.p, seg, e, word, v) BY <1>1, <1>8, <1>10, <1>11, <1>13, NameTurn
<1>16. CASE e > Len(seg)
  <2>1. v = CutShort(u.p, word, e) BY <1>14, <1>16 DEF NameGoes
  <2>2. WordKept(T, a, n, seg, u, "S_HEADER_NAME", HeadPart(r, N), <<>>, s, w, v)
    BY <1>1, <1>6, <1>12, <1>16, <2>1, WordCut
  <2>3. InLastLine(r, n, v.p) BY <1>2, <1>3, <2>2 DEF InLastLine, WordKept
  <2>4. Reads(r, T, n, v.p) BY <2>3 DEF Reads
  <2> QED BY <1>8, <2>2, <2>4 DEF Turned, Early, WordKept
<1>17. CASE e <= Len(seg)
  <2>1. a + e = s + Len(w) + 1 /\ seg[e] = "CR" /\ word = w
    BY <1>1, <1>4, <1>13, <1>17, <1>12 DEF WordRead, EndsWith, EndsLine
  <2>2. PICK q : q = WithLine(u.p) OBVIOUS
  <2>3. v = Http!PastLineEnd(q, seg, e) BY <1>14, <1>17, <2>1, <2>2 DEF NameGoes
  <2>4. q \in Reading("S_HEADERS_DONE", HeadPart(r, N), <<>>, <<>>) /\ q.skip_next_lf = FALSE
    BY <1>7, <1>13, <2>2, WithLineIs
  <2>5. PICK L \in Nat : L = HeadEnd(r) BY <1>4
  <2>6. L = a + e + 1 /\ L <= Len(T) /\ T[L] = "LF"
    <3>2. s + Len(w) + 2 <= Len(T) /\ T[s + Len(w) + 2] = "LF" BY <1>4 DEF EndsLine
    <3>3. s + Len(w) + 2 = L BY <1>4, <1>19, <2>5
    <3>4. L = a + e + 1 BY <1>1, <1>4, <1>13, <1>19, <2>1, <2>5
    <3> QED BY <3>2, <3>3, <3>4
  <2>7. 1 <= e BY <1>9, <1>13 DEF Stands
  <2>8. v.p \in Reading("S_HEADERS_DONE", HeadPart(r, N), <<>>, <<>>)
        /\ LineLeft(T, a, n, seg, L, e, v)
    BY Zenon, <1>1, <1>13, <1>17, <2>1, <2>3, <2>4, <2>6, <2>7, LinePassed
  <2>9. Reads(r, T, L, v.p) BY <2>5, <2>8 DEF Reads, AtHeadersDone
  <2>10. u.at < v.at BY <1>9, <1>13, <2>8 DEF LineLeft
  <2> QED BY <1>8, <2>8, <2>9, <2>10 DEF Turned, Early, LineLeft
<1> QED BY <1>1, <1>13, <1>16, <1>17

-----------------------------------------------------------------------------
(* The turns of the loop in the body. *)

\* The lesser of two naturals.
LEMMA MinOfTwo ==
  ASSUME NEW x \in Nat, NEW y \in Nat
  PROVE  /\ Http!Min({x, y}) \in Nat /\ Http!Min({x, y}) <= x /\ Http!Min({x, y}) <= y
         /\ Http!Min({x, y}) = x \/ Http!Min({x, y}) = y
<1>1. {x, y} # {} /\ {x, y} \subseteq Nat OBVIOUS
<1>2. PICK S : S = {x, y} OBVIOUS
<1>3. Http!Min(S) \in S /\ \A z \in S : Http!Min(S) <= z BY <1>1, <1>2, MinIs
<1> QED BY <1>2, <1>3

\* A turn takes of what is to come as much as the segment has.
LEMMA TakenIs ==
  ASSUME NEW T \in Seq(Token), NEW a, NEW n, NEW seg, SegOf(T, a, n, seg),
         NEW at \in Nat, 1 <= at, at <= Len(seg),
         NEW s \in Nat, NEW t \in Seq(Token), Lies(T, s, t),
         NEW m \in Nat, NEW l \in Nat, m + l = Len(t), l # 0, s + m = a + at - 1,
         NEW take, take = Http!Min({l, Len(seg) - at + 1})
  PROVE  Taken(T, a, n, seg, at, s, t, m, l, take)
<1>1. /\ seg \in Seq(Token) /\ Len(seg) = n - a /\ a \in Nat /\ n \in Nat
  BY SMTT(30), SegIs DEF SegOf
<1>2. Len(seg) \in Nat BY <1>1, LenProperties
<1>3. PICK y \in Nat : y = Len(seg) - at + 1
  <2>1. PICK b \in Nat : b = Len(seg) BY <1>2
  <2>2. b - at \in Nat BY <2>1
  <2>3. PICK d \in Nat : d = b - at BY <2>2
  <2>4. d + 1 \in Nat /\ d + 1 = Len(seg) - at + 1 BY <2>1, <2>3
  <2> QED BY Zenon, <2>4
<1>4. take \in Nat /\ take <= l /\ take <= y /\ (take = l \/ take = y) BY <1>3, MinOfTwo
<1>5. 1 <= y BY <1>2, <1>3
<1>6. 1 <= take BY <1>4, <1>5
<1>7. at + take <= Len(seg) + 1 /\ (take = l \/ at + take = Len(seg) + 1)
  BY <1>2, <1>3, <1>4
<1>8. PICK z \in Nat : z = at + take - 1 BY <1>4
<1>9. PICK g \in Nat : g = a + at BY <1>1
<1>10. PICK h \in Nat : h = a + z BY <1>1
<1>11. SamePiece(seg, at, z, T, g, h)
  <2>1. at <= z + 1 /\ z <= Len(seg) BY SMTT(30), <1>2, <1>4, <1>6, <1>7, <1>8
  <2> QED BY Zenon, <1>9, <1>10, <2>1, SegPiece
<1>12. PICK m2 \in Nat : m2 = m + take BY <1>4
<1>13. Grown(t, m, T, g, h, m2)
  <2>1. m <= m2 /\ m2 <= Len(t) BY <1>4, <1>12
  <2>2. PICK d \in Nat : d = s + m OBVIOUS
  <2>3. g = (s + m) + 1 BY <1>1, <1>9
  <2>4. d = a + at - 1 BY <2>2
  <2>5. h = d + take
    <3>1. PICK b \in Nat : b = at - 1 OBVIOUS
    <3>2. z = b + take BY <1>4, <1>8, <3>1
    <3>3. d = a + b BY <1>1, <2>4, <3>1
    <3>4. h = a + (b + take) BY <1>10, <3>2
    <3>5. a + (b + take) = (a + b) + take BY <1>1, <1>4, <3>1
    <3>6. h = (a + b) + take BY <3>4, <3>5
    <3> QED BY <3>3, <3>6
  <2>6. h = s + m2 BY <1>4, <1>12, <2>2, <2>5
  <2> QED BY <2>1, <2>3, <2>6, GrowsIn
<1>14. SubSeq(t, 1, m) \o SubSeq(seg, at, z) = SubSeq(t, 1, m2) BY <1>11, <1>13 DEF SamePiece, Grown
<1> QED BY <1>4, <1>6, <1>7, <1>8, <1>12, <1>14 DEF Taken

\* The last cut a request has is fragile when its text ends in a line end.
LEMMA LastCutFragile ==
  ASSUME NEW r, r.body = <<>> \/ r.chunks # <<>>, NEW n, n = Len(RequestText(r)) - 1
  PROVE  n \in Fragile(r)
<1>1. PICK d : d = Len(RequestText(r)) - 1 OBVIOUS
<1>2. d \in IF r.body = <<>> \/ r.chunks # <<>> THEN {d} ELSE {} OBVIOUS
<1>3. d \in Fragile(r) BY <1>1, <1>2, Zenon DEF Fragile
<1> QED BY <1>1, <1>3

\* The parser with the framing of the body.
LEMMA UnframedIs ==
  ASSUME NEW r, NEW p, p \in Reading("S_HEADERS_DONE", HeadPart(r, Len(r.headers)), <<>>, <<>>),
         NEW x, x = Expected(r), NEW chunked, NEW z, NEW q, q = Unframed(p, x, chunked, z)
  PROVE  q \in Framed(z, r, <<>>, <<>>) /\ q.skip_next_lf = p.skip_next_lf
<1>1. HeadPart(r, Len(r.headers)) = BodyPart(r, <<>>) BY DEF HeadPart, BodyPart
<1> QED BY <1>1 DEF Reading, Framed, Stage, Unframed

\* The turn that takes no token.
LEMMA HeadersDoneGoes ==
  ASSUME NEW p, p.state = "S_HEADERS_DONE", NEW seg, NEW at,
         NEW x, x = Http!ContentLength(p.req), NEW chunked, chunked = Http!IsChunked(p.req),
         NEW z, z = CASE chunked -> "S_CHUNK_SIZE"
                      [] ~chunked /\ x = 0 -> "S_COMPLETE"
                      [] OTHER -> "S_BODY",
         NEW v, v = Http!Turn(p, seg, at)
  PROVE  v = Http!Go(Unframed(p, x, chunked, z), at)
<1>1. v = Http!HeadersDone(p, at) BY DEF Http!Turn
<1> QED BY <1>1, Zenon DEF Http!HeadersDone, Unframed

\* What the headers say is what they were sent to say.
LEMMA HeadersSay ==
  ASSUME NEW r, WellFormedRequest(r), NEW q, q \in HeadPart(r, Len(r.headers))
  PROVE  /\ Http!ContentLength(q) = Expected(r)
         /\ Http!IsChunked(q) = Http!IsChunked(Understood(r))
<1>1. q.headers = Understood(r).headers BY HdrsAll DEF HeadPart, Part
<1>2. \A key : Http!Header(q, key) = Http!Header(Understood(r), key) BY <1>1 DEF Http!Header
<1> QED BY <1>2 DEF Http!ContentLength, Http!IsChunked, Expected

\* The turn behind the headers leads into the body, the first chunk or the end.
LEMMA HeadersDoneTurned ==
  ASSUME NEW r, NEW T, NEW a, NEW n, NEW seg, About(r, T, a, n, seg),
         NEW u, NEW K \in Nat, AtHeadersDone(r, K, u.p),
         Stands(T, a, n, seg, K, u), NEW v, v = Http!Turn(u.p, seg, u.at)
  PROVE  Turned(r, T, a, n, seg, u, v)
<1>1. Known(r, T, a, n, seg) BY AboutIs
<1> USE DEF Known
<1>2. /\ K = HeadEnd(r) /\ HeadEnd(r) \in Nat
      /\ u.p \in Reading("S_HEADERS_DONE", HeadPart(r, Len(r.headers)), <<>>, <<>>)
  BY <1>1 DEF AtHeadersDone, Laid, LastLineLaid
<1>3. u.p.state = "S_HEADERS_DONE" /\ u.p.req \in HeadPart(r, Len(r.headers))
  BY <1>2 DEF Reading, Stage
<1>4. /\ Http!ContentLength(u.p.req) = Expected(r)
      /\ Http!IsChunked(u.p.req) = Http!IsChunked(Understood(r))
  BY <1>1, <1>3, HeadersSay
<1>5. PICK x : x = Http!ContentLength(u.p.req) OBVIOUS
<1>6. PICK chunked : chunked = Http!IsChunked(u.p.req) OBVIOUS
<1>7. PICK z : z = CASE chunked -> "S_CHUNK_SIZE"
                     [] ~chunked /\ x = 0 -> "S_COMPLETE"
                     [] OTHER -> "S_BODY"
  OBVIOUS
<1>8. PICK q : q = Unframed(u.p, x, chunked, z) OBVIOUS
<1>9. v = Http!Go(q, u.at) BY <1>3, <1>5, <1>6, <1>7, <1>8, HeadersDoneGoes
<1>10. v.p = q /\ v.at = u.at /\ v.left = FALSE BY <1>9 DEF Http!Go
<1>11. q \in Framed(z, r, <<>>, <<>>) /\ q.skip_next_lf = u.p.skip_next_lf
  BY <1>2, <1>4, <1>5, <1>8, UnframedIs
<1>12. v.p.state = z BY <1>10, <1>11 DEF Framed, Stage
<1>13. Stands(T, a, n, seg, K, v) BY Zenon, <1>10, <1>11 DEF Stands
<1>14. WellFormedBody(r) /\ r.body \in Seq(Token) BY <1>1, RequestIs DEF WellFormedRequest
<1>15. CASE r.chunks # <<>>
  <2>1. chunked /\ z = "S_CHUNK_SIZE" BY <1>4, <1>6, <1>7, <1>14, <1>15 DEF WellFormedBody
  <2>2. ChunkAt(r, 1) = K BY <1>1, <1>2, <1>15 DEF Laid, ChunksLaid
  <2>3. Data(r, 1 - 1) = <<>>
    <3>1. 1 - 1 = 0 OBVIOUS
    <3> QED BY <3>1, JoinedLaw DEF Data
  <2>4. AtSize(r, 1, K, v.p) BY <1>10, <1>11, <2>1, <2>2, <2>3 DEF AtSize
  <2>5. 1 \in 1..Len(r.chunks)
    <3>1. DOMAIN r.chunks = 1..Len(r.chunks) /\ Len(r.chunks) \in Nat BY <1>1, RequestIs
    <3>3. Len(r.chunks) # 0 BY <1>1, <1>15, RequestIs
    <3> QED BY <3>1, <3>3
  <2>6. Reads(r, T, K, v.p) BY <1>15, <2>4, <2>5 DEF Reads, InChunk
  <2> QED BY <1>3, <1>10, <1>12, <1>13, <2>1, <2>6 DEF Turned, Early
<1>16. CASE r.chunks = <<>> /\ Len(r.body) = 0
  <2>1. ~chunked /\ x = 0 BY <1>4, <1>5, <1>6, <1>14, <1>16 DEF WellFormedBody, Expected
  <2>2. z = "S_COMPLETE" BY <1>7, <2>1
  <2>3. r.body = <<>> BY <1>14, <1>16, EmptySeq
  <2>4. K = Len(T) BY <1>1, <1>2, <1>16 DEF Laid, BodyLaid
  <2>5. ~v.p.skip_next_lf
    <3> SUFFICES ASSUME v.p.skip_next_lf PROVE FALSE OBVIOUS
    <3>1. K = n + 1 BY <1>13 DEF Stands
    <3>2. n = Len(T) - 1 BY <1>1, <2>4, <3>1
    <3>3. n = Len(RequestText(r)) - 1 BY <1>1, <3>2
    <3>4. n \in Fragile(r) BY <2>3, <3>3, LastCutFragile
    <3> QED BY <1>1, <3>4
  <2>6. AtEnd(r, T, K, v.p) BY <1>10, <1>11, <2>2, <2>3, <2>4, <2>5 DEF AtEnd
  <2>7. Reads(r, T, K, v.p) BY <2>6 DEF Reads
  <2> QED BY <1>3, <1>10, <1>12, <1>13, <2>2, <2>7 DEF Turned, Early
<1>17. CASE r.chunks = <<>> /\ Len(r.body) # 0
  <2>1. ~chunked /\ x = Len(r.body) BY <1>4, <1>5, <1>6, <1>14, <1>17 DEF WellFormedBody, Expected
  <2>2. z = "S_BODY" BY <1>7, <1>17, <2>1
  <2>3. InBody(r, K, v.p)
    <3>1. PICK k \in Nat : k = 0 OBVIOUS
    <3>2. SubSeq(r.body, 1, k) = <<>> BY <3>1, <1>14, SubSeqEmpty
    <3>3. Len(r.body) \in Nat BY <1>14, LenProperties
    <3>4. k < Len(r.body) /\ K = HeadEnd(r) + k BY <1>2, <1>17, <3>1, <3>3
    <3> QED BY <1>10, <1>11, <1>17, <2>2, <3>2, <3>4 DEF InBody
  <2>4. Reads(r, T, K, v.p) BY <2>3 DEF Reads
  <2> QED BY <1>3, <1>10, <1>12, <1>13, <2>2, <2>4 DEF Turned, Early
<1> QED BY <1>15, <1>16, <1>17

\* A parser with a token to take has no note of an LF: it stands in the segment.
LEMMA StandsHere ==
  ASSUME NEW T, NEW a \in Nat, NEW n, NEW seg, Len(seg) \in Nat, NEW u, NEW K \in Nat,
         Stands(T, a, n, seg, K, u), u.p.skip_next_lf \in BOOLEAN,
         NEW at, at = u.at, at <= Len(seg)
  PROVE  Here(T, a, n, seg, K, u, at)
<1>1. at \in Nat /\ 1 <= at BY DEF Stands
<1>2. ~(u.at = Len(seg) + 1) BY <1>1
<1>3. u.p.skip_next_lf = FALSE BY <1>2 DEF Stands
<1>4. K = a + at - 1 BY <1>3 DEF Stands
<1> QED BY <1>1, <1>3, <1>4 DEF Here

\* Before token y of the segment.
LEMMA StandsBefore ==
  ASSUME NEW T, NEW a \in Nat, NEW n, NEW seg, Len(seg) \in Nat, NEW y \in Nat,
         1 <= y, y <= Len(seg) + 1, NEW K \in Nat, K = a + y - 1,
         NEW v, v.at = y, v.p.skip_next_lf = FALSE
  PROVE  Stands(T, a, n, seg, K, v)
BY DEF Stands

\* A turn in the body.
LEMMA BodyGoes ==
  ASSUME NEW p, p.state = "S_BODY", NEW seg, NEW at,
         NEW take, take = Http!Min({p.body_expected - Len(p.req.body), Len(seg) - at + 1}),
         NEW b, b = p.req.body \o SubSeq(seg, at, at + take - 1),
         NEW v, v = Http!Turn(p, seg, at)
  PROVE  BodyGone(p, seg, at, take, b, v)
<1>1. v = Http!Body(p, seg, at) BY DEF Http!Turn
<1> QED BY <1>1, Zenon DEF Http!Body, WithBody, BodyGone

\* The body is complete when it has the length that was named.
LEMMA WithBodyIs ==
  ASSUME NEW r, NEW p, NEW c, p \in Framed("S_BODY", r, c, <<>>),
         NEW b, NEW q, q = WithBody(p, b),
         NEW z, z = IF Len(b) = Expected(r) THEN "S_COMPLETE" ELSE "S_BODY"
  PROVE  q \in Framed(z, r, b, <<>>) /\ q.skip_next_lf = p.skip_next_lf
BY DEF Framed, Stage, BodyPart, Part, WithBody

\* A turn in the body of a request gets further in it, or to its end.
LEMMA BodyTurned ==
  ASSUME NEW r, NEW T, NEW a, NEW n, NEW seg, About(r, T, a, n, seg),
         NEW u, NEW K \in Nat, InBody(r, K, u.p),
         Stands(T, a, n, seg, K, u), u.at <= Len(seg), NEW v, v = Http!Turn(u.p, seg, u.at)
  PROVE  Turned(r, T, a, n, seg, u, v)
<1>1. Known(r, T, a, n, seg) BY AboutIs
<1> USE DEF Known
<1>2. PICK k \in Nat : /\ k < Len(r.body) /\ K = HeadEnd(r) + k
                       /\ u.p \in Framed("S_BODY", r, SubSeq(r.body, 1, k), <<>>)
  BY DEF InBody
<1>3. r.chunks = <<>> BY DEF InBody
<1>4. PICK t \in Seq(Token) : t = r.body BY <1>1, RequestIs
<1>5. Len(t) \in Nat BY <1>4, LenProperties
<1>6. PICK s \in Nat : s = HeadEnd(r) BY <1>1 DEF Laid, LastLineLaid
<1>7. Lies(T, s, t) /\ Len(T) = s + Len(t) BY <1>1, <1>3, <1>4, <1>6 DEF Laid, BodyLaid
<1>8. Expected(r) = Len(t)
  <2>1. WellFormedBody(r) BY <1>1 DEF WellFormedRequest
  <2> QED BY <2>1, <1>3, <1>4 DEF WellFormedBody, Expected
<1>9. PICK l \in Nat : l = Len(t) - k
  <2>1. Len(t) - k \in Nat BY <1>2, <1>4, <1>5
  <2> QED BY <2>1
<1>10. k + l = Len(t) /\ l # 0 /\ k <= Len(t) BY <1>2, <1>4, <1>5, <1>9
<1>11. PICK c : c = SubSeq(t, 1, k) OBVIOUS
<1>12. u.p \in Framed("S_BODY", r, c, <<>>) BY <1>2, <1>4, <1>11
<1>13. /\ u.p.state = "S_BODY" /\ u.p.body_expected = Len(t) /\ u.p.req.body = c
       /\ u.p.skip_next_lf \in BOOLEAN
  BY <1>8, <1>12 DEF Framed, Stage, BodyPart, Part
<1>14. Len(c) = k BY <1>10, <1>11, PrefixIs
<1>15. PICK at : at = u.at OBVIOUS
<1>16. /\ at \in Nat /\ 1 <= at /\ at <= Len(seg) /\ u.p.skip_next_lf = FALSE
       /\ s + k = a + at - 1
  <2>1. at <= Len(seg) BY <1>15
  <2>4. Here(T, a, n, seg, K, u, at) BY <1>1, <1>13, <1>15, <2>1, StandsHere
  <2>2. at \in Nat /\ 1 <= at /\ u.p.skip_next_lf = FALSE /\ K = a + at - 1 BY <2>4 DEF Here
  <2>3. K = s + k BY <1>2, <1>6
  <2> QED BY <2>1, <2>2, <2>3
<1>17. PICK take : take = Http!Min({l, Len(seg) - at + 1}) OBVIOUS
<1>18. Taken(T, a, n, seg, at, s, t, k, l, take)
  BY <1>1, <1>7, <1>10, <1>16, <1>17, TakenIs
<1>19. /\ take \in Nat /\ 1 <= take /\ take <= l /\ at + take <= Len(seg) + 1
       /\ take = l \/ at + take = Len(seg) + 1
       /\ SubSeq(t, 1, k) \o SubSeq(seg, at, at + take - 1) = SubSeq(t, 1, k + take)
  BY <1>18 DEF Taken
<1>20. PICK m \in Nat : m = k + take BY <1>19
<1>21. PICK b : b = SubSeq(t, 1, m) OBVIOUS
<1>22. v = Http!Go(WithBody(u.p, b), at + take)
  <2>1. take = Http!Min({u.p.body_expected - Len(u.p.req.body), Len(seg) - at + 1})
    BY <1>9, <1>13, <1>14, <1>17
  <2>2. b = u.p.req.body \o SubSeq(seg, at, at + take - 1) BY <1>11, <1>13, <1>19, <1>20, <1>21
  <2>3. v = Http!Turn(u.p, seg, at) BY <1>15
  <2>4. BodyGone(u.p, seg, at, take, b, v) BY <1>13, <2>1, <2>2, <2>3, BodyGoes
  <2> QED BY <2>4 DEF BodyGone
<1>23. PICK y \in Nat : y = at + take BY <1>16, <1>19
<1>24. v.p = WithBody(u.p, b) /\ v.at = y /\ v.left = FALSE BY <1>22, <1>23 DEF Http!Go
<1>25. m <= Len(t) /\ Len(b) = m
  <2>1. m <= Len(t) BY <1>5, <1>10, <1>19, <1>20
  <2> QED BY <2>1, <1>21, PrefixIs
<1>26. PICK z : z = IF Len(b) = Expected(r) THEN "S_COMPLETE" ELSE "S_BODY" OBVIOUS
<1>27. v.p \in Framed(z, r, b, <<>>) /\ v.p.skip_next_lf = FALSE
  BY <1>12, <1>16, <1>24, <1>26, WithBodyIs
<1>28. v.p.state = z BY <1>27 DEF Framed, Stage
<1>29. PICK K2 \in Nat : K2 = s + m OBVIOUS
<1>30. K2 = a + y - 1
  <2>1. PICK d \in Nat : d = s + k OBVIOUS
  <2>2. K2 = d + take BY <1>19, <1>20, <1>29, <2>1
  <2>3. PICK f \in Nat : f = at - 1 BY <1>16
  <2>4. d = a + f BY <1>1, <1>16, <2>1, <2>3
  <2>5. y = (f + take) + 1 BY <1>16, <1>19, <1>23, <2>3
  <2>6. a \in Nat /\ take \in Nat BY <1>1, <1>19
  <2> QED BY <2>2, <2>4, <2>5, <2>6
<1>31. Stands(T, a, n, seg, K2, v)
  <2>1. 1 <= y /\ y <= Len(seg) + 1 BY <1>16, <1>19, <1>23
  <2> QED BY Zenon, <1>1, <1>24, <1>27, <1>30, <2>1, StandsBefore
<1>32. u.at < v.at BY <1>15, <1>16, <1>19, <1>23, <1>24
<1>33. CASE m = Len(t)
  <2>1. z = "S_COMPLETE" BY <1>8, <1>25, <1>26, <1>33
  <2>2. b = r.body BY <1>4, <1>21, <1>33, SubSeqFull
  <2>3. K2 = Len(T) BY <1>7, <1>29, <1>33
  <2>4. AtEnd(r, T, K2, v.p) BY <1>27, <2>1, <2>2, <2>3 DEF AtEnd
  <2>5. Reads(r, T, K2, v.p) BY <2>4 DEF Reads
  <2> QED BY <1>13, <1>24, <1>28, <1>31, <1>32, <2>1, <2>5 DEF Turned, Early
<1>34. CASE m # Len(t)
  <2>1. z = "S_BODY" BY <1>8, <1>25, <1>26, <1>34
  <2>2. m < Len(r.body) BY <1>4, <1>5, <1>25, <1>34
  <2>3. InBody(r, K2, v.p) BY <1>3, <1>4, <1>6, <1>21, <1>27, <1>29, <2>1, <2>2 DEF InBody
  <2>4. Reads(r, T, K2, v.p) BY <2>3 DEF Reads
  <2> QED BY <1>13, <1>24, <1>28, <1>31, <1>32, <2>1, <2>4 DEF Turned, Early
<1> QED BY <1>33, <1>34

-----------------------------------------------------------------------------
(* The turns of the loop in the lines of a chunk. *)

\* A cut inside the line of a chunk's size is fragile.
LEMMA SizeCutFragile ==
  ASSUME NEW r, NEW i \in DOMAIN r.chunks, NEW n \in Nat,
         NEW x, x = ChunkAt(r, i), x + 1 <= n, n <= x + Len(r.chunks[i].size),
         x \in Nat, Len(r.chunks[i].size) \in Nat
  PROVE  n \in Fragile(r)
<1>1. PICK y : y = x + Len(r.chunks[i].size) OBVIOUS
<1>2. n \in x + 1 .. y BY <1>1
<1>3. PICK C : C = x + 1 .. y OBVIOUS
<1>4. C = Len(HeadText(r)) + Len(Chunks(r, i - 1)) + 1
             .. Len(HeadText(r)) + Len(Chunks(r, i - 1)) + Len(r.chunks[i].size)
  BY <1>1, <1>3 DEF ChunkAt
<1>5. n \in C BY <1>2, <1>3
<1> QED BY <1>4, <1>5, Zenon DEF Fragile

\* Behind the CR of a chunk's size the parser keeps the line.
LEMMA WithSizeIs ==
  ASSUME NEW r, NEW p, NEW b, NEW c, p \in Framed("S_CHUNK_SIZE", r, b, c),
         NEW line, NEW q, q = WithSize(p, line)
  PROVE  q \in Framed("S_CHUNK_SIZE_CR", r, b, line) /\ q.skip_next_lf = p.skip_next_lf
BY Zenon DEF Framed, Stage, WithSize

\* Behind the line of a chunk's size come its data, or the trailer when it has none.
LEMMA WithLengthIs ==
  ASSUME NEW r, NEW p, NEW b, NEW c, p \in Framed("S_CHUNK_SIZE_CR", r, b, c),
         NEW k, NEW q, q = WithLength(p, k)
  PROVE  /\ k = 0 => q \in Framed("S_CHUNK_TRAILER", r, b, <<>>)
         /\ k # 0 => q \in Filling(r, b, k)
         /\ q.skip_next_lf = p.skip_next_lf
BY DEF Framed, Stage, Filling, WithLength

\* The parser in another state with the same request.
LEMMA WithStateIs ==
  ASSUME NEW r, NEW p, NEW b, NEW x, NEW c, p \in Framed(x, r, b, c),
         NEW z, NEW q, q = WithState(p, z)
  PROVE  q \in Framed(z, r, b, c) /\ q.skip_next_lf = p.skip_next_lf
BY DEF Framed, Stage, WithState

\* Behind a chunk comes the size of the next.
LEMMA WithNextChunkIs ==
  ASSUME NEW r, NEW p, NEW b, NEW c, p \in Framed("S_CHUNK_DATA_LF", r, b, c),
         NEW q, q = WithNextChunk(p)
  PROVE  q \in Framed("S_CHUNK_SIZE", r, b, <<>>) /\ q.skip_next_lf = p.skip_next_lf
BY DEF Framed, Stage, WithNextChunk

\* The parser stands at token at, and x is the next one of the text.
LEMMA NextIs ==
  ASSUME NEW T, NEW a \in Nat, NEW seg, Len(seg) \in Nat, \A j \in 1..Len(seg) : seg[j] = T[a + j],
         NEW at \in Nat, 1 <= at, at <= Len(seg), NEW x, x = a + at
  PROVE  seg[at] = T[x]
<1>1. at \in 1..Len(seg) OBVIOUS
<1> QED BY <1>1

\* The part of a turn that reads one token and nothing else.
LEMMA OneRead ==
  ASSUME NEW r, NEW T, NEW a, NEW n, NEW seg, About(r, T, a, n, seg),
         NEW u, NEW K \in Nat, Stands(T, a, n, seg, K, u), u.at <= Len(seg),
         u.p.skip_next_lf \in BOOLEAN, u.p.state \notin Early,
         NEW q, q.skip_next_lf = u.p.skip_next_lf, q.state \notin Early,
         NEW K2 \in Nat, K2 = K + 1, Reads(r, T, K2, q),
         NEW v, v = Http!Go(q, u.at + 1)
  PROVE  Turned(r, T, a, n, seg, u, v)
<1>1. Len(seg) \in Nat /\ a \in Nat /\ n \in Nat BY AboutIs DEF Known
<1>2. PICK at : at = u.at OBVIOUS
<1>3. at <= Len(seg) BY <1>2
<1>4. Here(T, a, n, seg, K, u, at) BY <1>1, <1>2, <1>3, StandsHere
<1>5. at \in Nat /\ 1 <= at /\ u.p.skip_next_lf = FALSE /\ K + 1 = a + at BY <1>4 DEF Here
<1>6. v.p = q /\ v.at = at + 1 /\ v.left = FALSE BY <1>2 DEF Http!Go
<1>7. Stands(T, a, n, seg, K2, v) BY <1>1, <1>3, <1>5, <1>6, StandsBehind
<1>8. u.at < v.at BY <1>2, <1>5, <1>6
<1> QED BY <1>6, <1>7, <1>8 DEF Turned, Early

\* A turn in the line of a chunk's size, which is not cut, reaches its CR.
LEMMA SizeTurned ==
  ASSUME NEW r, NEW T, NEW a, NEW n, NEW seg, About(r, T, a, n, seg),
         r.chunks # <<>>, NEW i \in 1..Len(r.chunks),
         NEW u, NEW K \in Nat, AtSize(r, i, K, u.p),
         Stands(T, a, n, seg, K, u), u.at <= Len(seg), NEW v, v = Http!Turn(u.p, seg, u.at)
  PROVE  Turned(r, T, a, n, seg, u, v)
<1>1. Known(r, T, a, n, seg) BY AboutIs
<1> USE DEF Known
<1>2. ChunkLaid(r, T, i) BY <1>1 DEF Laid, ChunksLaid
<1>3. PICK s \in Nat : s = ChunkAt(r, i) BY <1>2 DEF ChunkLaid
<1>4. PICK w \in Seq(Token) : w = r.chunks[i].size BY <1>1, RequestIs
<1>5. EndsLine(T, s, w) /\ DataAt(r, i) \in Nat BY <1>2, <1>3, <1>4 DEF ChunkLaid
<1>6. WordEnds(T, s, w, Http!LineEnds)
  <2>1. "CR" \in Http!LineEnds /\ Http!LineEnds = {"CR", "LF"} BY DEF Http!LineEnds
  <2>2. \A k \in 1..Len(w) : w[k] \notin Http!LineEnds
    <3>1. Without(w, {"CR", "LF"}) BY <1>1, <1>4, RequestIs DEF WellFormedChunk
    <3>2. DOMAIN w = 1..Len(w) BY LenProperties
    <3> QED BY <2>1, <3>1, <3>2 DEF Without
  <2> QED BY <1>5, <2>1, <2>2, StopsAt DEF EndsLine
<1>7. K = s /\ u.p \in Framed("S_CHUNK_SIZE", r, Data(r, i - 1), <<>>) BY <1>3 DEF AtSize
<1>8. u.p.state = "S_CHUNK_SIZE" /\ u.p.line_buffer = <<>> /\ u.p.skip_next_lf \in BOOLEAN
  BY <1>7 DEF Framed, Stage
<1>9. PICK at : at = u.at OBVIOUS
<1>10. at <= Len(seg) BY <1>9
<1>11. Here(T, a, n, seg, K, u, at) BY <1>1, <1>8, <1>9, <1>10, StandsHere
<1>12. at \in Nat /\ 1 <= at /\ u.p.skip_next_lf = FALSE /\ K = a + at - 1 BY <1>11 DEF Here
<1>13. PICK k \in Nat : k = 0 OBVIOUS
<1>14. PICK e : e = Http!EndOf(seg, at, Http!LineEnds) OBVIOUS
<1>15. Len(w) \in Nat BY LenProperties
<1>16. Scanned(T, a, n, seg, at, s, w, k, Http!LineEnds, e)
  <2>1. k <= Len(w) /\ s + k = a + at - 1 BY <1>7, <1>12, <1>13, <1>15
  <2> QED BY <1>1, <1>6, <1>10, <1>12, <1>14, <2>1, ScanIs
<1>17. SubSeq(w, 1, k) = <<>> BY <1>13, SubSeqEmpty
<1>18. CASE e > Len(seg)
  <2>1. n <= s + Len(w) BY <1>1, <1>16, <1>18 DEF Scanned
  <2>2. s + 1 <= n
    <3>1. PICK L \in Nat : L = Len(seg) BY <1>1
    <3>2. n = a + L BY <1>1, <3>1
    <3>3. s + 1 = a + at BY <1>1, <1>7, <1>12
    <3> QED BY <1>1, <1>10, <1>12, <3>1, <3>2, <3>3
  <2>3. n \in Fragile(r)
    <3>1. i \in DOMAIN r.chunks BY <1>1, RequestIs
    <3> QED BY Zenon, <1>1, <1>3, <1>4, <1>15, <2>1, <2>2, <3>1, SizeCutFragile
  <2> QED BY <1>1, <2>3
<1>19. CASE e <= Len(seg)
  <2>1. /\ e \in Nat /\ at <= e /\ a + e = s + Len(w) + 1 /\ seg[e] = T[s + Len(w) + 1]
        /\ SubSeq(w, 1, k) \o SubSeq(seg, at, e - 1) = w
    <3>1. e \in Nat BY <1>16 DEF Scanned
    <3>2. ~(e > Len(seg)) BY <1>1, <1>19, <3>1
    <3> QED BY <1>16, <3>2, Zenon DEF Scanned
  <2>2. seg[e] = "CR" BY <1>5, <2>1 DEF EndsLine, EndsWith
  <2>3. v = Http!Go(WithSize(u.p, w), e + 1)
    <3>1. v = Http!ChunkSize(u.p, seg, at) BY <1>8, <1>9 DEF Http!Turn
    <3>2. w = u.p.line_buffer \o SubSeq(seg, at, e - 1) BY <1>8, <1>17, <2>1
    <3> QED BY <1>14, <1>19, <2>2, <3>1, <3>2, Zenon DEF Http!ChunkSize, WithSize
  <2>4. v.p = WithSize(u.p, w) /\ v.at = e + 1 /\ v.left = FALSE BY <2>3 DEF Http!Go
  <2>5. /\ v.p \in Framed("S_CHUNK_SIZE_CR", r, Data(r, i - 1), w)
        /\ v.p.skip_next_lf = FALSE
    BY <1>7, <1>12, <2>4, WithSizeIs
  <2>6. v.p.state = "S_CHUNK_SIZE_CR" BY <2>5 DEF Framed, Stage
  <2>7. PICK K2 \in Nat : K2 = a + e BY <1>1, <2>1
  <2>8. K2 + 1 = DataAt(r, i)
    <3>1. PICK z \in Nat : z = s + Len(w) BY <1>15
    <3>2. DataAt(r, i) = z + 2 BY <1>3, <1>4, <3>1 DEF DataAt
    <3>3. K2 = z + 1 BY <2>1, <2>7, <3>1
    <3> QED BY <3>2, <3>3
  <2>9. AtSizeLf(r, i, K2, v.p) BY <1>4, <2>5, <2>8 DEF AtSizeLf
  <2>10. Reads(r, T, K2, v.p) BY <2>9 DEF Reads, InChunk
  <2>11. Stands(T, a, n, seg, K2, v) BY Zenon, <1>1, <1>19, <2>1, <2>4, <2>5, <2>7, StandsBehind
  <2>12. u.at < v.at BY <1>9, <1>12, <2>1, <2>4
  <2> QED BY <1>8, <2>4, <2>6, <2>10, <2>11, <2>12 DEF Turned, Early
<1>20. e \in Nat BY <1>16 DEF Scanned
<1> QED BY <1>1, <1>18, <1>19, <1>20

\* A turn at the CR behind a chunk's data.
LEMMA DataCrTurned ==
  ASSUME NEW r, NEW T, NEW a, NEW n, NEW seg, About(r, T, a, n, seg),
         r.chunks # <<>>, NEW i \in 1..Len(r.chunks),
         NEW u, NEW K \in Nat, AtDataCr(r, i, K, u.p),
         Stands(T, a, n, seg, K, u), u.at <= Len(seg), NEW v, v = Http!Turn(u.p, seg, u.at)
  PROVE  Turned(r, T, a, n, seg, u, v)
<1>1. Known(r, T, a, n, seg) BY AboutIs
<1> USE DEF Known
<1>2. ChunkLaid(r, T, i) BY <1>1 DEF Laid, ChunksLaid
<1>3. PICK s \in Nat : s = DataAt(r, i) BY <1>2 DEF ChunkLaid
<1>4. PICK d \in Seq(Token) : d = r.chunks[i].data BY <1>1, RequestIs
<1>5. PICK l \in Nat : l = Len(d) BY <1>4, LenProperties
<1>6. T[s + l + 1] = "CR" /\ ChunkAt(r, i + 1) = s + l + 2
  BY <1>2, <1>3, <1>4, <1>5 DEF ChunkLaid, EndsLine, EndsWith
<1>7. /\ K = s + l /\ d # <<>> /\ u.p \in Framed("S_CHUNK_DATA_CR", r, Data(r, i), <<>>)
  BY <1>3, <1>4, <1>5 DEF AtDataCr
<1>8. u.p.state = "S_CHUNK_DATA_CR" /\ u.p.skip_next_lf \in BOOLEAN BY <1>7 DEF Framed, Stage
<1>9. PICK at : at = u.at OBVIOUS
<1>10. at <= Len(seg) BY <1>9
<1>11. Here(T, a, n, seg, K, u, at) BY <1>1, <1>8, <1>9, <1>10, StandsHere
<1>12. at \in Nat /\ 1 <= at /\ K + 1 = a + at BY <1>11 DEF Here
<1>13. seg[at] = "CR"
  <2>1. s + l + 1 = a + at BY <1>7, <1>12
  <2>2. seg[at] = T[s + l + 1] BY <1>1, <1>10, <1>12, <2>1, NextIs
  <2> QED BY <1>6, <2>2
<1>14. PICK q : q = WithState(u.p, "S_CHUNK_DATA_LF") OBVIOUS
<1>15. v = Http!Go(q, u.at + 1)
  <2>1. v = Http!ChunkDataEnd(u.p, seg, at) BY <1>8, <1>9 DEF Http!Turn
  <2> QED BY <1>8, <1>9, <1>13, <1>14, <2>1, Zenon DEF Http!ChunkDataEnd, WithState
<1>16. /\ q \in Framed("S_CHUNK_DATA_LF", r, Data(r, i), <<>>)
       /\ q.skip_next_lf = u.p.skip_next_lf
  BY <1>7, <1>14, WithStateIs
<1>17. q.state = "S_CHUNK_DATA_LF" BY <1>16 DEF Framed, Stage
<1>18. PICK K2 \in Nat : K2 = K + 1 OBVIOUS
<1>19. K2 + 1 = ChunkAt(r, i + 1) BY <1>6, <1>7, <1>18
<1>20. AtDataLf(r, i, K2, q) BY <1>4, <1>7, <1>16, <1>19 DEF AtDataLf
<1>21. Reads(r, T, K2, q) BY <1>20 DEF Reads, InChunk
<1>22. u.p.state \notin Early /\ q.state \notin Early BY <1>8, <1>17 DEF Early
<1> QED BY <1>8, <1>15, <1>16, <1>18, <1>21, <1>22, OneRead

\* A turn at the LF behind a chunk's data.
LEMMA DataLfTurned ==
  ASSUME NEW r, NEW T, NEW a, NEW n, NEW seg, About(r, T, a, n, seg),
         r.chunks # <<>>, NEW i \in 1..Len(r.chunks),
         NEW u, NEW K \in Nat, AtDataLf(r, i, K, u.p),
         Stands(T, a, n, seg, K, u), u.at <= Len(seg), NEW v, v = Http!Turn(u.p, seg, u.at)
  PROVE  Turned(r, T, a, n, seg, u, v)
<1>1. Known(r, T, a, n, seg) BY AboutIs
<1> USE DEF Known
<1>2. ChunkLaid(r, T, i) BY <1>1 DEF Laid, ChunksLaid
<1>3. PICK x \in Nat : x = ChunkAt(r, i + 1) BY <1>2 DEF ChunkLaid
<1>4. T[x] = "LF" BY <1>2, <1>3 DEF ChunkLaid, EndsLine
<1>5. Len(r.chunks) \in Nat /\ DOMAIN r.chunks = 1..Len(r.chunks) /\ WellFormedBody(r)
  BY <1>1, RequestIs DEF WellFormedRequest
<1>6. PICK j \in 1..Len(r.chunks) : j = i + 1 /\ j - 1 = i
  <2>1. r.chunks[i].data # <<>> BY DEF AtDataLf
  <2>2. i # Len(r.chunks) BY <1>5, <2>1 DEF WellFormedBody
  <2>3. i + 1 \in 1..Len(r.chunks) /\ (i + 1) - 1 = i BY <1>5, <2>2
  <2> QED BY <2>3
<1>7. K + 1 = x /\ u.p \in Framed("S_CHUNK_DATA_LF", r, Data(r, i), <<>>)
  BY <1>3 DEF AtDataLf
<1>8. u.p.state = "S_CHUNK_DATA_LF" /\ u.p.skip_next_lf \in BOOLEAN BY <1>7 DEF Framed, Stage
<1>9. PICK at : at = u.at OBVIOUS
<1>10. at <= Len(seg) BY <1>9
<1>11. Here(T, a, n, seg, K, u, at) BY <1>1, <1>8, <1>9, <1>10, StandsHere
<1>12. at \in Nat /\ 1 <= at /\ K + 1 = a + at BY <1>11 DEF Here
<1>13. seg[at] = "LF"
  <2>1. x = a + at BY <1>7, <1>12
  <2>2. seg[at] = T[x] BY <1>1, <1>10, <1>12, <2>1, NextIs
  <2> QED BY <1>4, <2>2
<1>14. PICK q : q = WithNextChunk(u.p) OBVIOUS
<1>15. v = Http!Go(q, u.at + 1)
  <2>1. v = Http!ChunkDataEnd(u.p, seg, at) BY <1>8, <1>9 DEF Http!Turn
  <2>2. ~(u.p.state = "S_CHUNK_DATA_CR") BY <1>8
  <2> QED BY <1>8, <1>9, <1>13, <1>14, <2>1, <2>2, Zenon DEF Http!ChunkDataEnd, WithNextChunk
<1>16. /\ q \in Framed("S_CHUNK_SIZE", r, Data(r, i), <<>>)
       /\ q.skip_next_lf = u.p.skip_next_lf
  BY <1>7, <1>14, WithNextChunkIs
<1>17. q.state = "S_CHUNK_SIZE" BY <1>16 DEF Framed, Stage
<1>18. PICK K2 \in Nat : K2 = K + 1 OBVIOUS
<1>20. AtSize(r, j, K2, q) BY <1>3, <1>6, <1>7, <1>16, <1>18 DEF AtSize
<1>21. Reads(r, T, K2, q) BY <1>20 DEF Reads, InChunk
<1>22. u.p.state \notin Early /\ q.state \notin Early BY <1>8, <1>17 DEF Early
<1> QED BY <1>8, <1>15, <1>16, <1>18, <1>21, <1>22, OneRead

-----------------------------------------------------------------------------
(* The turns of the loop in the data of a chunk and behind the chunks. *)

\* The data that has come, as sequences.
LEMMA DataIs ==
  ASSUME NEW r, WellFormedRequest(r), r.chunks # <<>>, NEW i \in 1..Len(r.chunks)
  PROVE  /\ Data(r, i - 1) \in Seq(Token) /\ r.chunks[i].data \in Seq(Token)
         /\ Data(r, i) = Data(r, i - 1) \o r.chunks[i].data
<1>1. /\ Len(r.chunks) \in Nat /\ DOMAIN r.chunks = 1..Len(r.chunks)
      /\ \A m \in 1..Len(r.chunks) : r.chunks[m].data \in Seq(Token)
  BY RequestIs
<1>2. PICK parts : parts = [m \in DOMAIN r.chunks |-> r.chunks[m].data] OBVIOUS
<1>3. \A m \in 1..Len(r.chunks) : parts[m] \in Seq(Token) BY <1>1, <1>2
<1>8. PICK N \in Nat : N = Len(r.chunks) BY <1>1
<1>9. \A m \in 1..N : parts[m] \in Seq(Token) BY <1>3, <1>8
<1>4. \A m \in 0..Len(r.chunks) :
         /\ Joined(parts, m) \in Seq(Token)
         /\ m # 0 => Joined(parts, m) = Joined(parts, m - 1) \o parts[m]
  <2> SUFFICES ASSUME NEW m \in 0..N
               PROVE  /\ Joined(parts, m) \in Seq(Token)
                      /\ m # 0 => Joined(parts, m) = Joined(parts, m - 1) \o parts[m]
    BY Zenon, <1>8
  <2> QED BY ZenonT(30), <1>9, JoinedIs
<1>5. i \in 0..Len(r.chunks) /\ i - 1 \in 0..Len(r.chunks) /\ i # 0 BY <1>1
<1>6. parts[i] = r.chunks[i].data BY <1>1, <1>2
<1>7. \A m : Data(r, m) = Joined(parts, m) BY <1>2 DEF Data
<1> QED BY <1>1, <1>4, <1>5, <1>6, <1>7

\* The line of a well-formed chunk's size is read as the length of its data.
LEMMA SizeLineIs ==
  ASSUME NEW c, WellFormedChunk(c), NEW line, line = c.size, NEW k, k = Len(c.data),
         NEW p, NEW at, NEW v, v = Http!SizeLine(p, line, at)
  PROVE  SizeTaken(p, line, at, k, v)
<1>1. PICK hex : hex = Http!HexPart(line) OBVIOUS
<1>2. ~(\E i \in DOMAIN hex : ~Http!IsDigit(hex[i], 16)) /\ Http!Number(hex, 16) = k
  BY <1>1 DEF WellFormedChunk
<1>3. v = IF \E i \in DOMAIN hex : ~Http!IsDigit(hex[i], 16)
          THEN Http!Fail([p EXCEPT !.line_buffer = line], at)
          ELSE Http!Go(WithLength(p, Http!Number(hex, 16)), at)
  BY <1>1, Zenon DEF Http!SizeLine, WithLength
<1> QED BY <1>2, <1>3, Zenon DEF SizeTaken

\* A turn at the LF behind a chunk's size.
LEMMA SizeLfTurned ==
  ASSUME NEW r, NEW T, NEW a, NEW n, NEW seg, About(r, T, a, n, seg),
         r.chunks # <<>>, NEW i \in 1..Len(r.chunks),
         NEW u, NEW K \in Nat, AtSizeLf(r, i, K, u.p),
         Stands(T, a, n, seg, K, u), u.at <= Len(seg), NEW v, v = Http!Turn(u.p, seg, u.at)
  PROVE  Turned(r, T, a, n, seg, u, v)
<1>1. Known(r, T, a, n, seg) BY AboutIs
<1> USE DEF Known
<1>2. ChunkLaid(r, T, i) /\ Len(T) = ChunkAt(r, Len(r.chunks) + 1)
  BY <1>1 DEF Laid, ChunksLaid
<1>3. PICK x \in Nat : x = DataAt(r, i) BY <1>2 DEF ChunkLaid
<1>4. PICK c : c = r.chunks[i] OBVIOUS
<1>5. /\ WellFormedChunk(c) /\ c.size \in Seq(Token) /\ c.data \in Seq(Token)
      /\ DOMAIN r.chunks = 1..Len(r.chunks) /\ Len(r.chunks) \in Nat /\ WellFormedBody(r)
  BY <1>1, <1>4, RequestIs DEF WellFormedRequest
<1>6. T[x] = "LF"
  <2>1. PICK s \in Nat : s = ChunkAt(r, i) BY <1>2 DEF ChunkLaid
  <2>2. T[s + Len(c.size) + 2] = "LF" BY <1>2, <1>4, <2>1 DEF ChunkLaid, EndsLine
  <2> QED BY <1>3, <1>4, <2>1, <2>2 DEF DataAt
<1>7. K + 1 = x /\ u.p \in Framed("S_CHUNK_SIZE_CR", r, Data(r, i - 1), c.size)
  BY <1>3, <1>4 DEF AtSizeLf
<1>8. /\ u.p.state = "S_CHUNK_SIZE_CR" /\ u.p.skip_next_lf \in BOOLEAN
      /\ u.p.line_buffer = c.size
  BY <1>7 DEF Framed, Stage
<1>9. PICK at : at = u.at OBVIOUS
<1>10. at <= Len(seg) BY <1>9
<1>11. Here(T, a, n, seg, K, u, at) BY <1>1, <1>8, <1>9, <1>10, StandsHere
<1>12. at \in Nat /\ 1 <= at /\ K + 1 = a + at BY <1>11 DEF Here
<1>13. seg[at] = "LF"
  <2>1. x = a + at BY <1>7, <1>12
  <2>2. seg[at] = T[x] BY <1>1, <1>10, <1>12, <2>1, NextIs
  <2> QED BY <1>6, <2>2
<1>14. PICK k \in Nat : k = Len(c.data) BY <1>5, LenProperties
<1>15. PICK q : q = WithLength(u.p, k) OBVIOUS
<1>16. v = Http!Go(q, u.at + 1)
  <2>1. v = Http!ChunkSizeCr(u.p, seg, at) BY <1>8, <1>9 DEF Http!Turn
  <2>2. PICK y : y = at + 1 OBVIOUS
  <2>3. PICK line : line = u.p.line_buffer OBVIOUS
  <2>4. v = Http!SizeLine(u.p, line, y) BY <1>13, <2>1, <2>2, <2>3 DEF Http!ChunkSizeCr
  <2>5. line = c.size BY <1>8, <2>3
  <2>6. SizeTaken(u.p, line, y, k, v) BY <1>5, <1>14, <2>4, <2>5, SizeLineIs
  <2> QED BY <1>9, <1>15, <2>2, <2>6 DEF SizeTaken
<1>17. /\ k = 0 => q \in Framed("S_CHUNK_TRAILER", r, Data(r, i - 1), <<>>)
       /\ k # 0 => q \in Filling(r, Data(r, i - 1), k)
       /\ q.skip_next_lf = u.p.skip_next_lf
  BY <1>7, <1>15, WithLengthIs
<1>18. PICK K2 \in Nat : K2 = K + 1 OBVIOUS
<1>19. CASE k = 0
  <2>1. c.data = <<>> BY <1>5, <1>14, <1>19, EmptySeq
  <2>2. i = Len(r.chunks) BY <1>4, <1>5, <2>1 DEF WellFormedBody
  <2>3. Data(r, i) = Data(r, i - 1)
    <3>1. Data(r, i - 1) \in Seq(Token) /\ Data(r, i) = Data(r, i - 1) \o c.data
      BY <1>1, <1>4, DataIs
    <3> QED BY <2>1, <3>1, ConcatEmptySeq
  <2>4. r.body = Data(r, i) BY <1>5, <2>2 DEF WellFormedBody, Data
  <2>5. K2 + 2 = Len(T)
    <3>1. ChunkAt(r, i + 1) = x + Len(c.data) + 2 BY <1>2, <1>3, <1>4 DEF ChunkLaid
    <3>2. Len(T) = x + 2 BY <1>2, <1>14, <1>19, <2>2, <3>1
    <3> QED BY <1>7, <1>18, <3>2
  <2>6. AtTrailer(r, T, K2, q) BY <1>17, <1>19, <2>3, <2>4, <2>5 DEF AtTrailer
  <2>7. Reads(r, T, K2, q) BY <2>6 DEF Reads
  <2>8. q.state = "S_CHUNK_TRAILER" BY <1>17, <1>19 DEF Framed, Stage
  <2>9. u.p.state \notin Early /\ q.state \notin Early BY <1>8, <2>8 DEF Early
  <2> QED BY <1>8, <1>16, <1>17, <1>18, <2>7, <2>9, OneRead
<1>20. CASE k # 0
  <2>1. PICK z \in Nat : z = 0 OBVIOUS
  <2>2. SubSeq(c.data, 1, z) = <<>> BY <2>1, SubSeqEmpty
  <2>3. Data(r, i - 1) \o SubSeq(c.data, 1, z) = Data(r, i - 1)
    <3>1. Data(r, i - 1) \in Seq(Token) BY <1>1, DataIs
    <3> QED BY Zenon, <2>2, <3>1, ConcatEmptySeq
  <2>4. z + k = Len(c.data) /\ K2 = x + z BY <1>7, <1>14, <1>18, <2>1
  <2>5. q \in Filling(r, Data(r, i - 1) \o SubSeq(c.data, 1, z), k) BY Zenon, <1>17, <1>20, <2>3
  <2>6. InData(r, i, K2, q) BY <1>3, <1>4, <1>20, <2>4, <2>5 DEF InData
  <2>7. Reads(r, T, K2, q) BY <2>6 DEF Reads, InChunk
  <2>8. q.state = "S_CHUNK_DATA" BY <1>17, <1>20 DEF Filling, Stage
  <2>9. u.p.state \notin Early /\ q.state \notin Early BY <1>8, <2>8 DEF Early
  <2> QED BY <1>8, <1>16, <1>17, <1>18, <2>7, <2>9, OneRead
<1> QED BY <1>19, <1>20

\* A turn in the data of a chunk.
LEMMA DataGoes ==
  ASSUME NEW p, p.state = "S_CHUNK_DATA", NEW seg, NEW at,
         NEW take, take = Http!Min({p.chunk_left, Len(seg) - at + 1}),
         NEW b, b = p.req.body \o SubSeq(seg, at, at + take - 1),
         NEW k, k = p.chunk_left - take,
         NEW z, z = IF p.chunk_left = take THEN "S_CHUNK_DATA_CR" ELSE "S_CHUNK_DATA",
         NEW v, v = Http!Turn(p, seg, at)
  PROVE  DataGone(p, seg, at, take, b, k, z, v)
<1>1. v = Http!ChunkData(p, seg, at) BY DEF Http!Turn
<1>2. v = Http!Go([p EXCEPT !.req.body = @ \o SubSeq(seg, at, at + take - 1),
                            !.chunk_left = @ - take,
                            !.state = IF p.chunk_left = take THEN "S_CHUNK_DATA_CR" ELSE @],
                  at + take)
  BY <1>1, Zenon DEF Http!ChunkData
<1>3. [p EXCEPT !.req.body = @ \o SubSeq(seg, at, at + take - 1),
                !.chunk_left = @ - take,
                !.state = IF p.chunk_left = take THEN "S_CHUNK_DATA_CR" ELSE @]
        = WithData(p, b, k, z)
  BY DEF WithData
<1> QED BY <1>2, <1>3, Zenon DEF DataGone

\* The data of a chunk are complete when none are to come.
LEMMA WithDataIs ==
  ASSUME NEW r, NEW p, NEW c, NEW l, p \in Filling(r, c, l),
         NEW b, NEW k, NEW z, NEW q, q = WithData(p, b, k, z)
  PROVE  /\ k = 0 /\ z = "S_CHUNK_DATA_CR" => q \in Framed("S_CHUNK_DATA_CR", r, b, <<>>)
         /\ z = "S_CHUNK_DATA" => q \in Filling(r, b, k)
         /\ q.skip_next_lf = p.skip_next_lf /\ q.state = z
BY DEF Filling, Framed, Stage, BodyPart, Part, WithData

\* A turn in the data of chunk i gets further in it, or to its CR.
LEMMA DataTurned ==
  ASSUME NEW r, NEW T, NEW a, NEW n, NEW seg, About(r, T, a, n, seg),
         r.chunks # <<>>, NEW i \in 1..Len(r.chunks),
         NEW u, NEW K \in Nat, InData(r, i, K, u.p),
         Stands(T, a, n, seg, K, u), u.at <= Len(seg), NEW v, v = Http!Turn(u.p, seg, u.at)
  PROVE  Turned(r, T, a, n, seg, u, v)
<1>1. Known(r, T, a, n, seg) BY AboutIs
<1> USE DEF Known
<1>2. ChunkLaid(r, T, i) BY <1>1 DEF Laid, ChunksLaid
<1>3. PICK s \in Nat : s = DataAt(r, i) BY <1>2 DEF ChunkLaid
<1>4. PICK t \in Seq(Token) : t = r.chunks[i].data BY <1>1, RequestIs
<1>5. Lies(T, s, t) BY <1>2, <1>3, <1>4 DEF ChunkLaid, EndsLine, EndsWith
<1>6. PICK d \in Seq(Token) : d = Data(r, i - 1) BY <1>1, DataIs
<1>7. Data(r, i) = d \o t BY <1>1, <1>4, <1>6, DataIs
<1>8. PICK k \in Nat, l \in Nat :
         /\ k + l = Len(t) /\ l # 0 /\ K = s + k
         /\ u.p \in Filling(r, d \o SubSeq(t, 1, k), l)
  BY <1>3, <1>4, <1>6 DEF InData
<1>9. PICK c : c = SubSeq(t, 1, k) OBVIOUS
<1>10. PICK f : f = d \o c OBVIOUS
<1>11. u.p \in Filling(r, f, l) BY <1>8, <1>9, <1>10
<1>12. /\ u.p.state = "S_CHUNK_DATA" /\ u.p.chunk_left = l /\ u.p.req.body = f
       /\ u.p.skip_next_lf \in BOOLEAN
  BY <1>11 DEF Filling, Stage, BodyPart, Part
<1>13. PICK at : at = u.at OBVIOUS
<1>14. /\ at \in Nat /\ 1 <= at /\ at <= Len(seg) /\ u.p.skip_next_lf = FALSE
       /\ s + k = a + at - 1
  <2>1. at <= Len(seg) BY <1>13
  <2>2. Here(T, a, n, seg, K, u, at) BY <1>1, <1>12, <1>13, <2>1, StandsHere
  <2>3. at \in Nat /\ 1 <= at /\ u.p.skip_next_lf = FALSE /\ K = a + at - 1 BY <2>2 DEF Here
  <2> QED BY Zenon, <1>8, <2>1, <2>3
<1>15. PICK take : take = Http!Min({l, Len(seg) - at + 1}) OBVIOUS
<1>16. Taken(T, a, n, seg, at, s, t, k, l, take) BY Zenon, <1>1, <1>5, <1>8, <1>14, <1>15, TakenIs
<1>17. /\ take \in Nat /\ 1 <= take /\ take <= l /\ at + take <= Len(seg) + 1
       /\ take = l \/ at + take = Len(seg) + 1
       /\ SubSeq(t, 1, k) \o SubSeq(seg, at, at + take - 1) = SubSeq(t, 1, k + take)
  BY <1>16 DEF Taken
<1>18. PICK m \in Nat : m = k + take BY <1>17
<1>19. PICK l2 \in Nat : l2 = l - take
  <2>1. l - take \in Nat BY <1>17
  <2> QED BY <2>1
<1>21. Len(t) \in Nat BY LenProperties
<1>20. m + l2 = Len(t)
  <2>1. take + l2 = l BY <1>8, <1>17, <1>19
  <2>2. (k + take) + l2 = k + (take + l2) BY <1>8, <1>17, <1>19
  <2>3. k + (take + l2) = Len(t) BY <1>8, <2>1
  <2> QED BY <1>18, <2>2, <2>3
<1>22. PICK b : b = d \o SubSeq(t, 1, m) OBVIOUS
<1>23. PICK x : x = SubSeq(seg, at, at + take - 1) OBVIOUS
<1>24. b = f \o x
  <2>1. c \in Seq(Token) BY <1>8, <1>9, <1>21, PrefixIs
  <2>2. x \in Seq(Token)
    <3>1. PICK z \in Nat : z = at + take - 1 BY <1>14, <1>17
    <3>2. at \in Int /\ z \in Int /\ \A j \in at..z : seg[j] \in Token
      <4>1. z <= Len(seg) BY <1>1, <1>14, <1>17, <3>1
      <4>2. \A j \in 1..Len(seg) : seg[j] \in Token BY <1>1, LenProperties
      <4>3. \A j \in at..z : j \in 1..Len(seg) BY <1>1, <1>14, <3>1, <4>1
      <4> QED BY <1>14, <3>1, <4>2, <4>3
    <3>3. SubSeq(seg, at, z) \in Seq(Token) BY <3>2, SubSeqProperties
    <3> QED BY <1>23, <3>1, <3>3
  <2>3. (d \o c) \o x = d \o (c \o x) BY SMTT(30), <2>1, <2>2, ConcatAssociative
  <2>4. c \o x = SubSeq(t, 1, m) BY Zenon, <1>9, <1>17, <1>18, <1>23
  <2> QED BY <1>10, <1>22, <2>3, <2>4
<1>25. PICK z : z = IF l = take THEN "S_CHUNK_DATA_CR" ELSE "S_CHUNK_DATA" OBVIOUS
<1>26. v = Http!Go(WithData(u.p, b, l2, z), at + take)
  <2>1. take = Http!Min({u.p.chunk_left, Len(seg) - at + 1}) BY <1>12, <1>15
  <2>2. b = u.p.req.body \o SubSeq(seg, at, at + take - 1) BY <1>12, <1>23, <1>24
  <2>3. l2 = u.p.chunk_left - take BY <1>12, <1>19
  <2>4. z = IF u.p.chunk_left = take THEN "S_CHUNK_DATA_CR" ELSE "S_CHUNK_DATA" BY <1>12, <1>25
  <2>5. v = Http!Turn(u.p, seg, at) BY <1>13
  <2>6. DataGone(u.p, seg, at, take, b, l2, z, v)
    BY <1>12, <2>1, <2>2, <2>3, <2>4, <2>5, DataGoes
  <2> QED BY <2>6 DEF DataGone
<1>27. PICK y \in Nat : y = at + take BY <1>14, <1>17
<1>28. v.p = WithData(u.p, b, l2, z) /\ v.at = y /\ v.left = FALSE BY <1>26, <1>27 DEF Http!Go
<1>29. /\ l2 = 0 /\ z = "S_CHUNK_DATA_CR" => v.p \in Framed("S_CHUNK_DATA_CR", r, b, <<>>)
       /\ z = "S_CHUNK_DATA" => v.p \in Filling(r, b, l2)
       /\ v.p.skip_next_lf = FALSE /\ v.p.state = z
  BY <1>11, <1>14, <1>28, WithDataIs
<1>30. PICK K2 \in Nat : K2 = s + m OBVIOUS
<1>31. K2 = a + y - 1
  <2>1. PICK g \in Nat : g = s + k OBVIOUS
  <2>2. K2 = g + take BY <1>17, <1>18, <1>30, <2>1
  <2>3. PICK h \in Nat : h = at - 1 BY <1>14
  <2>4. g = a + h BY <1>1, <1>14, <2>1, <2>3
  <2>5. y = (h + take) + 1 BY SMTT(30), <1>14, <1>17, <1>27, <2>3
  <2>6. a \in Nat /\ take \in Nat BY <1>1, <1>17
  <2> QED BY <2>2, <2>4, <2>5, <2>6
<1>32. Stands(T, a, n, seg, K2, v)
  <2>1. 1 <= y /\ y <= Len(seg) + 1 BY <1>14, <1>17, <1>27
  <2> QED BY Zenon, <1>1, <1>28, <1>29, <1>31, <2>1, StandsBefore
<1>33. u.at < v.at BY <1>13, <1>14, <1>17, <1>27, <1>28
<1>34. CASE l = take
  <2>1. z = "S_CHUNK_DATA_CR" /\ l2 = 0 /\ m = Len(t) BY <1>8, <1>18, <1>19, <1>25, <1>34
  <2>2. b = Data(r, i) BY Zenon, <1>7, <1>22, <2>1, SubSeqFull
  <2>3. t # <<>>
    <3>1. Len(t) # 0 BY <1>8
    <3> QED BY <3>1, EmptySeq
  <2>4. AtDataCr(r, i, K2, v.p) BY <1>3, <1>4, <1>29, <1>30, <2>1, <2>2, <2>3 DEF AtDataCr
  <2>5. Reads(r, T, K2, v.p) BY <2>4 DEF Reads, InChunk
  <2> QED BY Zenon, <1>12, <1>28, <1>29, <1>32, <1>33, <2>1, <2>5 DEF Turned, Early
<1>35. CASE l # take
  <2>1. z = "S_CHUNK_DATA" /\ l2 # 0 BY <1>8, <1>17, <1>19, <1>25, <1>35
  <2>2. InData(r, i, K2, v.p)
    <3>1. v.p \in Filling(r, d \o SubSeq(t, 1, m), l2) BY <1>22, <1>29, <2>1
    <3> QED BY <1>3, <1>4, <1>6, <1>20, <1>30, <2>1, <3>1 DEF InData
  <2>3. Reads(r, T, K2, v.p) BY <2>2 DEF Reads, InChunk
  <2> QED BY Zenon, <1>12, <1>28, <1>29, <1>32, <1>33, <2>1, <2>3 DEF Turned, Early
<1> QED BY <1>34, <1>35

\* A turn at an empty trailer, both of whose tokens are here.
LEMMA TrailerGoes ==
  ASSUME NEW p, p.state = "S_CHUNK_TRAILER", p.line_buffer = <<>>, NEW seg \in Seq(Token),
         NEW at \in Nat, 1 <= at, at < Len(seg), seg[at] = "CR", seg[at + 1] = "LF",
         NEW v, v = Http!Turn(p, seg, at)
  PROVE  TrailerGone(p, seg, at, v)
<1>1. Len(seg) \in Nat BY LenProperties
<1>2. PICK e : e = Http!EndOf(seg, at, Http!LineEnds) OBVIOUS
<1>3. e = at
  <2>1. at <= Len(seg) + 1 BY <1>1
  <2>2. e \in Nat /\ at <= e /\ \A j \in Nat : at <= j /\ j < e => seg[j] \notin Http!LineEnds
    BY <1>2, <2>1, EndOfIs
  <2>3. seg[at] \in Http!LineEnds BY DEF Http!LineEnds
  <2>4. ~(at < e) BY <2>2, <2>3
  <2> QED BY <2>2, <2>4
<1>4. PICK line : line = p.line_buffer \o SubSeq(seg, at, e - 1) OBVIOUS
<1>5. line = <<>>
  <2>1. SubSeq(seg, at, e - 1) = <<>>
    <3>1. at \in Int /\ e - 1 \in Int /\ e - 1 < at BY <1>3
    <3> QED BY <3>1, SubSeqEmpty
  <2>2. <<>> \o <<>> = <<>> BY EmptySeq, ConcatEmptySeq
  <2> QED BY <1>4, <2>1, <2>2
<1>6. v = Http!ChunkTrailer(p, seg, at) BY DEF Http!Turn
<1>7. ~(e > Len(seg)) /\ e < Len(seg) /\ seg[e] = "CR" /\ seg[e + 1] = "LF" BY <1>1, <1>3
<1>8. v = IF e > Len(seg) THEN Http!Go([p EXCEPT !.line_buffer = line], e)
          ELSE Http!Go([p EXCEPT !.line_buffer = <<>>,
                                 !.state = IF line = <<>> THEN "S_COMPLETE" ELSE @],
                       IF e < Len(seg) /\ seg[e] = "CR" /\ seg[e + 1] = "LF" THEN e + 2 ELSE e + 1)
  BY <1>2, <1>4, <1>6, Zenon DEF Http!ChunkTrailer
<1>9. v = Http!Go([p EXCEPT !.line_buffer = <<>>,
                            !.state = IF line = <<>> THEN "S_COMPLETE" ELSE @], e + 2)
  BY <1>7, <1>8, Zenon
<1> QED BY <1>3, <1>5, <1>9 DEF TrailerGone, WithEnd

\* Behind the trailer the request is complete.
LEMMA WithEndIs ==
  ASSUME NEW r, NEW p, NEW b, NEW c, p \in Framed("S_CHUNK_TRAILER", r, b, c),
         NEW q, q = WithEnd(p)
  PROVE  q \in Framed("S_COMPLETE", r, b, <<>>) /\ q.skip_next_lf = p.skip_next_lf
BY DEF Framed, Stage, WithEnd

\* A turn at the trailer, whose CR LF is not cut, completes the request.
LEMMA TrailerTurned ==
  ASSUME NEW r, NEW T, NEW a, NEW n, NEW seg, About(r, T, a, n, seg),
         NEW u, NEW K \in Nat, AtTrailer(r, T, K, u.p),
         Stands(T, a, n, seg, K, u), u.at <= Len(seg), NEW v, v = Http!Turn(u.p, seg, u.at)
  PROVE  Turned(r, T, a, n, seg, u, v)
<1>1. Known(r, T, a, n, seg) BY AboutIs
<1> USE DEF Known
<1>2. /\ r.chunks # <<>> /\ K + 2 = Len(T)
      /\ u.p \in Framed("S_CHUNK_TRAILER", r, r.body, <<>>)
  BY DEF AtTrailer
<1>3. /\ u.p.state = "S_CHUNK_TRAILER" /\ u.p.line_buffer = <<>>
      /\ u.p.skip_next_lf \in BOOLEAN
  BY <1>2 DEF Framed, Stage
<1>4. PICK i \in 1..Len(r.chunks) : i = Len(r.chunks)
  <2>1. Len(r.chunks) \in Nat /\ Len(r.chunks) # 0 BY <1>1, <1>2, RequestIs
  <2>2. Len(r.chunks) \in 1..Len(r.chunks) BY <2>1
  <2> QED BY <2>2
<1>5. ChunkLaid(r, T, i) /\ Len(T) = ChunkAt(r, i + 1)
  BY <1>1, <1>2, <1>4 DEF Laid, ChunksLaid
<1>6. PICK x \in Nat : x = DataAt(r, i) BY <1>5 DEF ChunkLaid
<1>7. PICK l \in Nat : l = Len(r.chunks[i].data) BY <1>1, <1>2, RequestIs, LenProperties
<1>8. PICK w \in Nat : w = x + l OBVIOUS
<1>9. T[w + 1] = "CR" /\ T[w + 2] = "LF" /\ Len(T) = w + 2
  <2>1. /\ T[x + Len(r.chunks[i].data) + 1] = "CR" /\ T[x + Len(r.chunks[i].data) + 2] = "LF"
        /\ ChunkAt(r, i + 1) = x + Len(r.chunks[i].data) + 2
    BY <1>5, <1>6 DEF ChunkLaid, EndsLine, EndsWith
  <2> QED BY <1>5, <1>7, <1>8, <2>1
<1>10. PICK at : at = u.at OBVIOUS
<1>11. at <= Len(seg) BY <1>10
<1>12. Here(T, a, n, seg, K, u, at) BY <1>1, <1>3, <1>10, <1>11, StandsHere
<1>13. at \in Nat /\ 1 <= at /\ u.p.skip_next_lf = FALSE /\ K + 1 = a + at BY <1>12 DEF Here
<1>14. K = w BY <1>2, <1>9
<1>15. n = Len(T)
  <2>1. n # Len(T) - 1
    <3> SUFFICES ASSUME n = Len(T) - 1 PROVE FALSE OBVIOUS
    <3>1. n = Len(RequestText(r)) - 1 BY <1>1
    <3>2. n \in Fragile(r) BY <1>2, <3>1, LastCutFragile
    <3> QED BY <1>1, <3>2
  <2>2. K + 1 <= n
    <3>1. PICK L \in Nat : L = Len(seg) BY <1>1
    <3>2. n = a + L BY <1>1, <3>1
    <3> QED BY <1>1, <1>11, <1>13, <3>1, <3>2
  <2> QED BY <1>1, <1>2, <2>1, <2>2
<1>16. at + 1 = Len(seg)
  <2>1. PICK L \in Nat : L = Len(seg) BY <1>1
  <2>2. n = a + L BY <1>1, <2>1
  <2> QED BY <1>1, <1>2, <1>13, <1>15, <2>1, <2>2
<1>17. seg[at] = "CR"
  <2>1. w + 1 = a + at BY <1>13, <1>14
  <2>2. seg[at] = T[w + 1] BY <1>1, <1>11, <1>13, <2>1, NextIs
  <2> QED BY <1>9, <2>2
<1>18. seg[at + 1] = "LF"
  <2>1. PICK y \in Nat : y = at + 1 BY <1>13
  <2>4. 1 <= y /\ y <= Len(seg) BY <1>1, <1>13, <1>16, <2>1
  <2>5. w + 1 = a + at BY <1>13, <1>14
  <2>6. (a + at) + 1 = a + (at + 1) BY <1>1, <1>13
  <2>7. w + 2 = (w + 1) + 1 BY <1>8
  <2>2. w + 2 = a + y /\ 1 <= y /\ y <= Len(seg) BY <2>1, <2>4, <2>5, <2>6, <2>7
  <2>3. seg[y] = T[w + 2] BY <1>1, <2>2, NextIs
  <2> QED BY <1>9, <2>1, <2>3
<1>19. PICK q : q = WithEnd(u.p) OBVIOUS
<1>20. v = Http!Go(q, at + 2)
  <2>1. at < Len(seg) BY <1>1, <1>13, <1>16
  <2>2. v = Http!Turn(u.p, seg, at) BY <1>10
  <2>3. TrailerGone(u.p, seg, at, v) BY Zenon, <1>1, <1>3, <1>13, <1>17, <1>18, <2>1, <2>2, TrailerGoes
  <2> QED BY <1>19, <2>3 DEF TrailerGone
<1>21. q \in Framed("S_COMPLETE", r, r.body, <<>>) /\ q.skip_next_lf = FALSE
  BY <1>2, <1>13, <1>19, WithEndIs
<1>22. PICK y \in Nat : y = at + 2 BY <1>13
<1>23. v.p = q /\ v.at = y /\ v.left = FALSE BY <1>20, <1>22 DEF Http!Go
<1>24. q.state = "S_COMPLETE" BY <1>21 DEF Framed, Stage
<1>25. PICK K2 \in Nat : K2 = Len(T) BY <1>1
<1>26. K2 = a + y - 1 BY <1>1, <1>2, <1>13, <1>22, <1>25
<1>27. Stands(T, a, n, seg, K2, v)
  <2>1. 1 <= y /\ y <= Len(seg) + 1 BY <1>1, <1>13, <1>16, <1>22
  <2> QED BY Zenon, <1>1, <1>21, <1>23, <1>26, <2>1, StandsBefore
<1>28. AtEnd(r, T, K2, v.p) BY <1>21, <1>23, <1>25 DEF AtEnd
<1>29. Reads(r, T, K2, v.p) BY <1>28 DEF Reads
<1>30. u.at < v.at BY <1>10, <1>13, <1>22, <1>23
<1> QED BY <1>3, <1>23, <1>24, <1>27, <1>29, <1>30 DEF Turned, Early

-----------------------------------------------------------------------------
(* The loop. *)

\* Of the places of the parser, the two in which no token is to be read.
LEMMA WordState ==
  ASSUME NEW p, NEW K, NEW state, NEW R, NEW c, NEW s, NEW w, InWord(p, K, state, R, c, s, w)
  PROVE  p.state = state /\ p.skip_next_lf \in BOOLEAN
BY DEF InWord, Reading, Stage

\* The states of a parser in a chunk.
LEMMA ChunkState ==
  ASSUME NEW r, NEW i, NEW K, NEW p, InChunk(r, i, K, p)
  PROVE  /\ p.state \in {"S_CHUNK_SIZE", "S_CHUNK_SIZE_CR", "S_CHUNK_DATA", "S_CHUNK_DATA_CR",
                         "S_CHUNK_DATA_LF"}
         /\ p.skip_next_lf \in BOOLEAN
<1>1. CASE AtSize(r, i, K, p) BY <1>1 DEF AtSize, Framed, Stage
<1>2. CASE AtSizeLf(r, i, K, p) BY <1>2 DEF AtSizeLf, Framed, Stage
<1>3. CASE InData(r, i, K, p) BY <1>3 DEF InData, Filling, Stage
<1>4. CASE AtDataCr(r, i, K, p) BY <1>4 DEF AtDataCr, Framed, Stage
<1>5. CASE AtDataLf(r, i, K, p) BY <1>5 DEF AtDataLf, Framed, Stage
<1> QED BY <1>1, <1>2, <1>3, <1>4, <1>5 DEF InChunk

\* A parser that reads a request is not in error, and complete only at its end.
LEMMA ReadsState ==
  ASSUME NEW r, NEW T, NEW K, NEW p, Reads(r, T, K, p)
  PROVE  /\ p.state # "S_ERROR" /\ p.skip_next_lf \in BOOLEAN
         /\ p.state = "S_COMPLETE" => AtEnd(r, T, K, p)
         /\ p.state = "S_HEADERS_DONE" => AtHeadersDone(r, K, p)
<1>1. CASE InMethod(r, K, p)
  <2>1. p.state = "S_METHOD" /\ p.skip_next_lf \in BOOLEAN BY <1>1, WordState DEF InMethod
  <2> QED BY <2>1
<1>2. CASE InUri(r, K, p)
  <2>1. p.state = "S_URI" /\ p.skip_next_lf \in BOOLEAN BY <1>2, WordState DEF InUri
  <2> QED BY <2>1
<1>3. CASE InProto(r, K, p)
  <2>1. p.state = "S_PROTO" /\ p.skip_next_lf \in BOOLEAN BY <1>3, WordState DEF InProto
  <2> QED BY <2>1
<1>4. ASSUME NEW i \in 1..Len(r.headers), InName(r, i, K, p)
      PROVE  p.state = "S_HEADER_NAME" /\ p.skip_next_lf \in BOOLEAN
  BY <1>4, WordState DEF InName
<1>5. ASSUME NEW i \in 1..Len(r.headers), InValue(r, i, K, p)
      PROVE  p.state = "S_HEADER_VALUE" /\ p.skip_next_lf \in BOOLEAN
  BY <1>5, WordState DEF InValue
<1>6. CASE InLastLine(r, K, p)
  <2>1. p.state = "S_HEADER_NAME" /\ p.skip_next_lf \in BOOLEAN BY <1>6, WordState DEF InLastLine
  <2> QED BY <2>1
<1>7. CASE AtHeadersDone(r, K, p)
  <2>1. p.state = "S_HEADERS_DONE" /\ p.skip_next_lf \in BOOLEAN
    BY <1>7 DEF AtHeadersDone, Reading, Stage
  <2> QED BY <1>7, <2>1
<1>8. CASE InBody(r, K, p)
  <2>1. p.state = "S_BODY" /\ p.skip_next_lf \in BOOLEAN BY <1>8 DEF InBody, Framed, Stage
  <2> QED BY <2>1
<1>9. ASSUME NEW i \in 1..Len(r.chunks), InChunk(r, i, K, p)
      PROVE  /\ p.state # "S_ERROR" /\ p.state # "S_COMPLETE" /\ p.state # "S_HEADERS_DONE"
             /\ p.skip_next_lf \in BOOLEAN
  BY <1>9, ChunkState
<1>10. CASE AtTrailer(r, T, K, p)
  <2>1. p.state = "S_CHUNK_TRAILER" /\ p.skip_next_lf \in BOOLEAN
    BY <1>10 DEF AtTrailer, Framed, Stage
  <2> QED BY <2>1
<1>11. CASE AtEnd(r, T, K, p)
  <2>1. p.state = "S_COMPLETE" /\ p.skip_next_lf \in BOOLEAN BY <1>11 DEF AtEnd, Framed, Stage
  <2> QED BY <1>11, <2>1
<1> QED BY <1>1, <1>2, <1>3, <1>4, <1>5, <1>6, <1>7, <1>8, <1>9, <1>10, <1>11 DEF Reads

\* Whatever the state: a turn keeps to the text and gets on.
LEMMA TurnTurned ==
  ASSUME NEW r, NEW T, NEW a, NEW n, NEW seg, About(r, T, a, n, seg),
         NEW u, NEW K \in Nat, Reads(r, T, K, u.p), Stands(T, a, n, seg, K, u),
         ~Http!Ended(u, seg), NEW v, v = Http!NextTurn(u, seg)
  PROVE  Turned(r, T, a, n, seg, u, v)
<1>1. v = Http!Turn(u.p, seg, u.at) BY DEF Http!NextTurn
<1>2. /\ u.p.state # "S_COMPLETE"
      /\ u.p.state = "S_HEADERS_DONE" \/ ~(u.at > Len(seg))
  BY DEF Http!Ended
<1>3. CASE u.p.state = "S_HEADERS_DONE"
  <2>1. AtHeadersDone(r, K, u.p) BY <1>3, ReadsState
  <2> QED BY <1>1, <2>1, HeadersDoneTurned
<1>4. CASE u.at <= Len(seg)
  <2>1. CASE InMethod(r, K, u.p) BY <1>1, <1>4, <2>1, MethodTurned
  <2>2. CASE InUri(r, K, u.p) BY <1>1, <1>4, <2>2, UriTurned
  <2>3. CASE InProto(r, K, u.p) BY <1>1, <1>4, <2>3, ProtoTurned
  <2>4. ASSUME NEW i \in 1..Len(r.headers), InName(r, i, K, u.p)
        PROVE  Turned(r, T, a, n, seg, u, v)
    BY <1>1, <1>4, <2>4, NameTurned
  <2>5. ASSUME NEW i \in 1..Len(r.headers), InValue(r, i, K, u.p)
        PROVE  Turned(r, T, a, n, seg, u, v)
    BY <1>1, <1>4, <2>5, ValueTurned
  <2>6. CASE InLastLine(r, K, u.p) BY <1>1, <1>4, <2>6, LastLineTurned
  <2>7. CASE AtHeadersDone(r, K, u.p) BY <1>1, <2>7, HeadersDoneTurned
  <2>8. CASE InBody(r, K, u.p) BY <1>1, <1>4, <2>8, BodyTurned
  <2>9. ASSUME r.chunks # <<>>, NEW i \in 1..Len(r.chunks), InChunk(r, i, K, u.p)
        PROVE  Turned(r, T, a, n, seg, u, v)
    <3>1. CASE AtSize(r, i, K, u.p) BY <1>1, <1>4, <2>9, <3>1, SizeTurned
    <3>2. CASE AtSizeLf(r, i, K, u.p) BY <1>1, <1>4, <2>9, <3>2, SizeLfTurned
    <3>3. CASE InData(r, i, K, u.p) BY <1>1, <1>4, <2>9, <3>3, DataTurned
    <3>4. CASE AtDataCr(r, i, K, u.p) BY <1>1, <1>4, <2>9, <3>4, DataCrTurned
    <3>5. CASE AtDataLf(r, i, K, u.p) BY <1>1, <1>4, <2>9, <3>5, DataLfTurned
    <3> QED BY <2>9, <3>1, <3>2, <3>3, <3>4, <3>5 DEF InChunk
  <2>10. CASE AtTrailer(r, T, K, u.p) BY <1>1, <1>4, <2>10, TrailerTurned
  <2>11. CASE AtEnd(r, T, K, u.p)
    <3>1. u.p.state = "S_COMPLETE" BY <2>11 DEF AtEnd, Framed, Stage
    <3> QED BY <1>2, <3>1
  <2> QED BY <2>1, <2>2, <2>3, <2>4, <2>5, <2>6, <2>7, <2>8, <2>9, <2>10, <2>11 DEF Reads
<1>5. u.at <= Len(seg) \/ u.at > Len(seg)
  <2>1. u.at \in Nat /\ Len(seg) \in Nat BY AboutIs DEF Known, Stands
  <2> QED BY <2>1
<1> QED BY <1>2, <1>3, <1>4, <1>5

\* A turn of the loop, or none when it has ended.
LEMMA OneTurn ==
  ASSUME NEW r, NEW T, NEW a, NEW n, NEW seg, About(r, T, a, n, seg),
         NEW u, OnItsWay(r, T, a, n, seg, u), NEW i \in Nat, Farther(seg, u, i),
         NEW v, v = Http!NextTurn(u, seg), NEW j \in Nat, j = i + 1
  PROVE  OnItsWay(r, T, a, n, seg, v) /\ Farther(seg, v, j)
<1>1. CASE Http!Ended(u, seg)
  <2>1. v = u BY <1>1 DEF Http!NextTurn
  <2> QED BY <1>1, <2>1 DEF Farther
<1>2. CASE ~Http!Ended(u, seg)
  <2>1. PICK K \in Nat : Reads(r, T, K, u.p) /\ Stands(T, a, n, seg, K, u) BY DEF OnItsWay
  <2>2. Turned(r, T, a, n, seg, u, v) BY <1>2, <2>1, TurnTurned
  <2>3. OnItsWay(r, T, a, n, seg, v) BY <2>2 DEF Turned, OnItsWay
  <2>4. u.at \in Nat BY <2>1 DEF Stands
  <2>5. v.at \in Nat BY <2>3 DEF OnItsWay, Stands
  <2>6. u.at >= i + 1 \/ (u.p.state \notin Early /\ u.at >= i) BY <1>2 DEF Farther
  <2>7. CASE u.p.state = "S_HEADERS_DONE"
    <3>1. u.p.state \in Early BY <2>7 DEF Early
    <3>2. u.at = v.at /\ v.p.state \notin Early BY <2>2, <2>7 DEF Turned
    <3>3. v.at >= j BY <2>6, <3>1, <3>2
    <3> QED BY <2>3, <3>2, <3>3 DEF Farther
  <2>8. CASE u.p.state # "S_HEADERS_DONE"
    <3>1. u.at < v.at /\ (u.p.state \notin Early => v.p.state \notin Early)
      BY <2>2, <2>8 DEF Turned
    <3>2. CASE u.at >= i + 1
      <4>1. v.at >= j + 1 BY <2>4, <2>5, <3>1, <3>2
      <4> QED BY <2>3, <4>1 DEF Farther
    <3>3. CASE u.p.state \notin Early /\ u.at >= i
      <4>1. v.at >= j BY <2>4, <2>5, <3>1, <3>3
      <4> QED BY <2>3, <3>1, <3>3, <4>1 DEF Farther
    <3> QED BY <2>6, <3>2, <3>3
  <2> QED BY <2>7, <2>8
<1> QED BY <1>1, <1>2

\* The loop of parse() ends, and where it ends the parser still keeps to the text.
LEMMA LoopEnds ==
  ASSUME NEW r, NEW T, NEW a, NEW n, NEW seg, About(r, T, a, n, seg),
         NEW p, NEW at, OnItsWay(r, T, a, n, seg, Http!Go(p, at)), NEW q, q = Http!Loop(p, seg, at)
  PROVE  \E t : OnItsWay(r, T, a, n, seg, t) /\ Http!Ended(t, seg) /\ q = t.p
<1>1. Len(seg) \in Nat BY AboutIs DEF Known
<1>2. PICK N \in Nat : N = Len(seg) + 2 BY <1>1
<1>3. PICK t : /\ t[0] = Http!Go(p, at)
               /\ \A i \in 1..N : t[i] = Http!NextTurn(t[i - 1], seg)
               /\ q = t[N].p
  BY <1>2, LoopTurns
<1> DEFINE G(i) == i <= N => OnItsWay(r, T, a, n, seg, t[i]) /\ Farther(seg, t[i], i)
           S == {i \in Nat : G(i)}
<1>4. 0 \in S
  <2>1. PICK K \in Nat : Stands(T, a, n, seg, K, t[0]) BY <1>3 DEF OnItsWay
  <2>2. t[0].at >= 0 + 1 BY <2>1 DEF Stands
  <2> QED BY <1>3, <2>2 DEF Farther
<1>5. ASSUME NEW i \in Nat, i \in S PROVE i + 1 \in S
  <2> SUFFICES ASSUME i + 1 <= N PROVE G(i + 1) OBVIOUS
  <2>1. PICK j \in Nat : j = i + 1 OBVIOUS
  <2>2. t[j] = Http!NextTurn(t[i], seg)
    <3>1. j \in 1..N /\ j - 1 = i BY <2>1
    <3> QED BY <1>3, <3>1
  <2>3. OnItsWay(r, T, a, n, seg, t[i]) /\ Farther(seg, t[i], i) BY <1>5
  <2>4. PICK x, y : x = t[i] /\ y = t[j] OBVIOUS
  <2>5. OnItsWay(r, T, a, n, seg, y) /\ Farther(seg, y, j) BY <2>1, <2>2, <2>3, <2>4, OneTurn
  <2> QED BY <2>1, <2>4, <2>5
<1> HIDE DEF S
<1>6. N \in S BY <1>4, <1>5, SetInduction
<1>7. OnItsWay(r, T, a, n, seg, t[N]) /\ Farther(seg, t[N], N) BY <1>6 DEF S
<1>8. Http!Ended(t[N], seg)
  <2>1. PICK y : y = t[N] OBVIOUS
  <2>2. y.at \in Nat /\ y.at <= Len(seg) + 1 BY <1>7, <2>1 DEF OnItsWay, Stands
  <2>3. ~(y.at >= N + 1) /\ ~(y.at >= N) BY <1>1, <1>2, <2>2
  <2> QED BY <1>7, <2>1, <2>3 DEF Farther
<1> QED BY <1>3, <1>7, <1>8

-----------------------------------------------------------------------------
(* A segment. *)

\* Where a request that is not complete is read up to.
LEMMA WordShort ==
  ASSUME NEW T, Len(T) \in Nat, NEW p, NEW K, NEW state, NEW R, NEW c,
         NEW s \in Nat, NEW w \in Seq(Token),
         NEW x, EndsWith(T, s, w, x), InWord(p, K, state, R, c, s, w)
  PROVE  K < Len(T)
<1>1. Len(w) \in Nat BY LenProperties
<1>2. s + Len(w) + 1 <= Len(T) BY DEF EndsWith
<1>3. PICK k \in Nat : k <= Len(w) /\ K = s + k BY DEF InWord
<1> QED BY <1>1, <1>2, <1>3

\* A request in one of whose chunks the parser is is not complete.
LEMMA ChunkShort ==
  ASSUME NEW r, WellFormedRequest(r), NEW T, Laid(r, T), r.chunks # <<>>,
         NEW i \in 1..Len(r.chunks), NEW K \in Nat, NEW p, InChunk(r, i, K, p)
  PROVE  K < Len(T)
<1>1. ChunkLaid(r, T, i) /\ Len(T) \in Nat BY DEF Laid, ChunksLaid
<1>2. PICK s \in Nat, l \in Nat : s = ChunkAt(r, i) /\ l = Len(r.chunks[i].size)
  BY <1>1, RequestIs, LenProperties DEF ChunkLaid
<1>3. PICK x \in Nat, d \in Nat : x = DataAt(r, i) /\ d = Len(r.chunks[i].data)
  BY <1>1, RequestIs, LenProperties DEF ChunkLaid
<1>4. /\ s + l + 2 <= Len(T) /\ x = s + l + 2 /\ x + d + 2 <= Len(T)
      /\ ChunkAt(r, i + 1) = x + d + 2
  BY <1>1, <1>2, <1>3 DEF ChunkLaid, EndsLine, DataAt
<1>10. PICK y \in Nat : y = x + d BY <1>3
<1>11. y + 2 <= Len(T) /\ ChunkAt(r, i + 1) = y + 2 BY <1>4, <1>10
<1>5. CASE AtSize(r, i, K, p)
  <2>1. K = s BY <1>2, <1>5 DEF AtSize
  <2> QED BY SMTT(30), <1>1, <1>2, <1>4, <2>1
<1>6. CASE AtSizeLf(r, i, K, p)
  <2>1. K + 1 = x BY <1>3, <1>6 DEF AtSizeLf
  <2> QED BY <1>1, <1>3, <1>4, <2>1
<1>7. CASE InData(r, i, K, p)
  <2>1. PICK k \in Nat, m \in Nat : k + m = d /\ K = x + k BY Zenon, <1>3, <1>7 DEF InData
  <2>2. K <= y BY <1>3, <1>10, <2>1
  <2> QED BY <1>1, <1>10, <1>11, <2>2
<1>8. CASE AtDataCr(r, i, K, p)
  <2>1. K = y BY <1>3, <1>8, <1>10 DEF AtDataCr
  <2> QED BY <1>1, <1>10, <1>11, <2>1
<1>9. CASE AtDataLf(r, i, K, p)
  <2>1. K + 1 = y + 2 BY <1>9, <1>11 DEF AtDataLf
  <2> QED BY <1>1, <1>10, <1>11, <2>1
<1> QED BY <1>5, <1>6, <1>7, <1>8, <1>9 DEF InChunk

\* A request in the middle of which the parser is has tokens to come.
LEMMA ReadsShort ==
  ASSUME NEW r, WellFormedRequest(r), NEW T, Laid(r, T), NEW K \in Nat, NEW p,
         Reads(r, T, K, p), p.state # "S_COMPLETE", p.state # "S_HEADERS_DONE"
  PROVE  K < Len(T)
<1>1. /\ Len(T) \in Nat /\ FirstLineLaid(r, T) /\ LastLineLaid(r, T) /\ BodyLaid(r, T)
      /\ \A i \in 1..Len(r.headers) : HeaderLaid(r, T, i)
  BY DEF Laid
<1>2. /\ r.method \in Seq(Token) /\ r.uri \in Seq(Token) /\ r.protocol \in Seq(Token)
      /\ \A i \in 1..Len(r.headers) :
            r.headers[i].name \in Seq(Token) /\ r.headers[i].value \in Seq(Token)
  BY RequestIs
<1>3. CASE InMethod(r, K, p)
  <2>1. EndsWith(T, 0, r.method, "SP") BY <1>1 DEF FirstLineLaid
  <2> QED BY <1>1, <1>2, <1>3, <2>1, WordShort DEF InMethod
<1>4. CASE InUri(r, K, p)
  <2>1. EndsWith(T, UriAt(r), r.uri, "SP") /\ UriAt(r) \in Nat BY <1>1 DEF FirstLineLaid
  <2> QED BY <1>1, <1>2, <1>4, <2>1, WordShort DEF InUri
<1>5. CASE InProto(r, K, p)
  <2>1. EndsWith(T, ProtoAt(r), r.protocol, "CR") /\ ProtoAt(r) \in Nat
    BY <1>1 DEF FirstLineLaid, EndsLine
  <2> QED BY <1>1, <1>2, <1>5, <2>1, WordShort DEF InProto
<1>6. ASSUME NEW i \in 1..Len(r.headers), InName(r, i, K, p) PROVE K < Len(T)
  <2>1. EndsWith(T, LineAt(r, i), r.headers[i].name, ":") /\ LineAt(r, i) \in Nat
    BY <1>1 DEF HeaderLaid
  <2> QED BY <1>1, <1>2, <1>6, <2>1, WordShort DEF InName
<1>7. ASSUME NEW i \in 1..Len(r.headers), InValue(r, i, K, p) PROVE K < Len(T)
  <2>1. PICK w : w = Space \o r.headers[i].value OBVIOUS
  <2>2. w \in Seq(Token) BY <1>2, <2>1, Marks, TokensJoin
  <2>3. EndsWith(T, ValueAt(r, i), w, "CR") /\ ValueAt(r, i) \in Nat
    BY <1>1, <2>1 DEF HeaderLaid, EndsLine
  <2>4. InWord(p, K, "S_HEADER_VALUE", HeadPart(r, i - 1), r.headers[i].name, ValueAt(r, i), w)
    BY <1>7, <2>1 DEF InValue
  <2> QED BY <1>1, <2>2, <2>3, <2>4, WordShort
<1>8. CASE InLastLine(r, K, p)
  <2>1. PICK w \in Seq(Token) : w = <<>> BY EmptySeq
  <2>2. PICK s \in Nat : s = LineAt(r, Len(r.headers) + 1) BY <1>1 DEF LastLineLaid
  <2>3. EndsWith(T, s, w, "CR") BY <1>1, <2>1, <2>2 DEF LastLineLaid, EndsLine
  <2>4. InWord(p, K, "S_HEADER_NAME", HeadPart(r, Len(r.headers)), <<>>, s, w)
    BY <1>8, <2>1, <2>2 DEF InLastLine
  <2> QED BY <1>1, <2>3, <2>4, WordShort
<1>9. CASE AtHeadersDone(r, K, p) BY <1>9 DEF AtHeadersDone, Reading, Stage
<1>10. CASE InBody(r, K, p)
  <2>1. PICK k \in Nat : k < Len(r.body) /\ K = HeadEnd(r) + k BY <1>10 DEF InBody
  <2>2. HeadEnd(r) \in Nat /\ Len(T) = HeadEnd(r) + Len(r.body)
    BY <1>1, <1>10 DEF InBody, BodyLaid, LastLineLaid
  <2>3. Len(r.body) \in Nat BY RequestIs, LenProperties
  <2> QED BY <2>1, <2>2, <2>3
<1>11. ASSUME r.chunks # <<>>, NEW i \in 1..Len(r.chunks), InChunk(r, i, K, p)
       PROVE  K < Len(T)
  BY <1>11, ChunkShort
<1>12. CASE AtTrailer(r, T, K, p)
  <2>1. K + 2 = Len(T) BY <1>12 DEF AtTrailer
  <2> QED BY <1>1, <2>1
<1>13. CASE AtEnd(r, T, K, p) BY <1>13 DEF AtEnd, Framed, Stage
<1> QED BY <1>3, <1>4, <1>5, <1>6, <1>7, <1>8, <1>9, <1>10, <1>11, <1>12, <1>13 DEF Reads

\* The note of an LF says nothing about the request.
LEMMA UnnotedIs ==
  ASSUME NEW p, NEW s, NEW R, NEW x, NEW l, NEW c, NEW w, p \in Stage(s, R, x, l, c, w),
         NEW q, q = Unnoted(p)
  PROVE  q \in Stage(s, R, x, l, c, w)
BY DEF Stage, Unnoted

\* Without its note the parser reads the same.
LEMMA UnnotedReads ==
  ASSUME NEW r, NEW T, NEW K, NEW p, Reads(r, T, K, p), p.state # "S_COMPLETE",
         NEW q, q = Unnoted(p)
  PROVE  Reads(r, T, K, q)
<1>1. ASSUME NEW state, NEW R, NEW c, NEW s, NEW w, InWord(p, K, state, R, c, s, w)
      PROVE  InWord(q, K, state, R, c, s, w)
  <2>1. PICK k \in Nat : k <= Len(w) /\ K = s + k /\ p \in Reading(state, R, c, SubSeq(w, 1, k))
    BY <1>1 DEF InWord
  <2>2. q \in Reading(state, R, c, SubSeq(w, 1, k)) BY <2>1, UnnotedIs DEF Reading
  <2> QED BY <2>1, <2>2 DEF InWord
<1>2. ASSUME NEW state, NEW b, NEW line, p \in Framed(state, r, b, line)
      PROVE  q \in Framed(state, r, b, line)
  BY <1>2, UnnotedIs DEF Framed
<1>3. CASE InMethod(r, K, p) BY <1>1, <1>3 DEF InMethod, Reads
<1>4. CASE InUri(r, K, p) BY <1>1, <1>4 DEF InUri, Reads
<1>5. CASE InProto(r, K, p) BY <1>1, <1>5 DEF InProto, Reads
<1>6. ASSUME NEW i \in 1..Len(r.headers), InName(r, i, K, p) PROVE Reads(r, T, K, q)
  <2>1. InName(r, i, K, q) BY <1>1, <1>6 DEF InName
  <2> QED BY <2>1 DEF Reads
<1>7. ASSUME NEW i \in 1..Len(r.headers), InValue(r, i, K, p) PROVE Reads(r, T, K, q)
  <2>1. InValue(r, i, K, q) BY <1>1, <1>7 DEF InValue
  <2> QED BY <2>1 DEF Reads
<1>8. CASE InLastLine(r, K, p) BY <1>1, <1>8 DEF InLastLine, Reads
<1>9. CASE AtHeadersDone(r, K, p)
  <2>1. AtHeadersDone(r, K, q) BY <1>9, UnnotedIs DEF AtHeadersDone, Reading
  <2> QED BY <2>1 DEF Reads
<1>10. CASE InBody(r, K, p)
  <2>1. InBody(r, K, q) BY <1>2, <1>10 DEF InBody
  <2> QED BY <2>1 DEF Reads
<1>11. ASSUME r.chunks # <<>>, NEW i \in 1..Len(r.chunks), InChunk(r, i, K, p)
       PROVE  Reads(r, T, K, q)
  <2>1. CASE AtSize(r, i, K, p) BY <1>2, <1>11, <2>1 DEF AtSize, InChunk, Reads
  <2>2. CASE AtSizeLf(r, i, K, p) BY <1>2, <1>11, <2>2 DEF AtSizeLf, InChunk, Reads
  <2>3. CASE InData(r, i, K, p)
    <3>1. InData(r, i, K, q) BY <2>3, UnnotedIs DEF InData, Filling
    <3> QED BY <1>11, <3>1 DEF InChunk, Reads
  <2>4. CASE AtDataCr(r, i, K, p) BY <1>2, <1>11, <2>4 DEF AtDataCr, InChunk, Reads
  <2>5. CASE AtDataLf(r, i, K, p) BY <1>2, <1>11, <2>5 DEF AtDataLf, InChunk, Reads
  <2> QED BY <1>11, <2>1, <2>2, <2>3, <2>4, <2>5 DEF InChunk
<1>12. CASE AtTrailer(r, T, K, p)
  <2>1. AtTrailer(r, T, K, q) BY <1>2, <1>12 DEF AtTrailer
  <2> QED BY <2>1 DEF Reads
<1>13. CASE AtEnd(r, T, K, p) BY <1>13 DEF AtEnd, Framed, Stage
<1> QED BY <1>3, <1>4, <1>5, <1>6, <1>7, <1>8, <1>9, <1>10, <1>11, <1>12, <1>13 DEF Reads

\* Where the loop ends, the segment is read to its end.
LEMMA EndParsed ==
  ASSUME NEW r, NEW T, NEW a, NEW n, NEW seg, About(r, T, a, n, seg),
         NEW t, OnItsWay(r, T, a, n, seg, t), Http!Ended(t, seg)
  PROVE  Parsed(r, T, n, t.p)
<1>1. Known(r, T, a, n, seg) BY AboutIs
<1> USE DEF Known
<1>2. PICK K \in Nat : Reads(r, T, K, t.p) /\ Stands(T, a, n, seg, K, t) BY DEF OnItsWay
<1>3. /\ t.p.state # "S_ERROR" /\ t.p.skip_next_lf \in BOOLEAN
      /\ t.p.state = "S_COMPLETE" => AtEnd(r, T, K, t.p)
  BY <1>2, ReadsState
<1>4. PICK at \in Nat : at = t.at /\ at <= Len(seg) + 1 BY <1>2 DEF Stands
<1>5. CASE t.p.state = "S_COMPLETE"
  <2>1. K = Len(T) /\ ~t.p.skip_next_lf /\ t.p \in Framed("S_COMPLETE", r, r.body, <<>>)
    BY <1>3, <1>5 DEF AtEnd
  <2>2. K = a + at - 1
    <3>1. t.p.skip_next_lf = FALSE BY <1>3, <2>1
    <3> QED BY <1>2, <1>4, <3>1 DEF Stands
  <2>3. K <= n
    <3>1. PICK L \in Nat : L = Len(seg) BY <1>1
    <3>2. n = a + L /\ at <= L + 1 BY <1>1, <1>4, <3>1
    <3> QED BY <1>1, <1>4, <2>2, <3>1, <3>2
  <2>4. n = Len(T) BY <1>1, <2>1, <2>3
  <2> QED BY <2>1, <2>4 DEF Parsed
<1>6. CASE t.p.state # "S_COMPLETE"
  <2>1. t.p.state # "S_HEADERS_DONE" /\ at = Len(seg) + 1
    <3>1. CASE t.left BY <1>4, <3>1 DEF OnItsWay
    <3>2. CASE t.at > Len(seg) /\ t.p.state # "S_HEADERS_DONE" BY <1>1, <1>4, <3>2
    <3> QED BY <1>3, <1>6, <3>1, <3>2 DEF Http!Ended
  <2>2. t.p.skip_next_lf = FALSE => K = n
    <3> SUFFICES ASSUME t.p.skip_next_lf = FALSE PROVE K = n OBVIOUS
    <3>1. K = a + at - 1 BY <1>2, <1>4 DEF Stands
    <3> QED BY <1>1, <2>1, <3>1
  <2>3. t.p.skip_next_lf # FALSE => K = n + 1 /\ K <= Len(T) /\ T[K] = "LF"
    BY <1>2 DEF Stands
  <2>4. Between(r, T, n, t.p) BY <1>2, <1>6, <2>1, <2>2, <2>3 DEF Between
  <2>5. K < Len(T) BY <1>1, <1>2, <1>6, <2>1, ReadsShort
  <2>6. n # Len(T)
    <3>1. CASE t.p.skip_next_lf = FALSE BY <1>1, <2>2, <2>5, <3>1
    <3>2. CASE t.p.skip_next_lf # FALSE
      <4>1. K = n + 1 /\ K <= Len(T) BY <2>3, <3>2
      <4> QED BY <1>1, <4>1
    <3> QED BY <3>1, <3>2
  <2> QED BY <1>3, <2>4, <2>6 DEF Parsed
<1> QED BY <1>5, <1>6

\* One call of parse() with one segment.
LEMMA SegmentParsed ==
  ASSUME NEW r, NEW T, NEW a, NEW n, NEW seg, About(r, T, a, n, seg),
         NEW p, Between(r, T, a, p), NEW q, q = Http!Parse(p, seg)
  PROVE  Parsed(r, T, n, q)
<1>1. Known(r, T, a, n, seg) BY AboutIs
<1> USE DEF Known
<1>2. PICK K \in Nat :
         /\ Reads(r, T, K, p) /\ p.state # "S_COMPLETE" /\ p.state # "S_HEADERS_DONE"
         /\ p.skip_next_lf = FALSE => K = a
         /\ p.skip_next_lf # FALSE => K = a + 1 /\ K <= Len(T) /\ T[K] = "LF"
  BY DEF Between
<1>3. p.skip_next_lf \in BOOLEAN BY <1>2, ReadsState
<1>4. PICK z : z = Unnoted(p) OBVIOUS
<1>5. Reads(r, T, K, z) BY <1>2, <1>4, UnnotedReads
<1>6. z.skip_next_lf = FALSE BY <1>4 DEF Unnoted
<1>7. 1 <= Len(seg) BY <1>1
<1>8. seg[1] = T[a + 1] BY <1>1, <1>7
<1>9. PICK skips : skips = (p.skip_next_lf /\ seg # <<>> /\ seg[1] = "LF") OBVIOUS
<1>10. seg # <<>> BY <1>7
<1>11. PICK at : at = IF skips THEN 2 ELSE 1 OBVIOUS
<1>12. at \in Nat /\ 1 <= at /\ at <= Len(seg) + 1 /\ K = a + at - 1
  <2>1. CASE p.skip_next_lf = FALSE
    <3>1. at = 1 BY <1>9, <1>11, <2>1
    <3>2. K = a BY <1>2, <2>1
    <3>3. 1 <= Len(seg) + 1 BY <1>1
    <3>4. K = a + at - 1 BY <1>1, <3>1, <3>2
    <3> QED BY <3>1, <3>3, <3>4
  <2>2. CASE p.skip_next_lf = TRUE
    <3>1. seg[1] = "LF" BY Zenon, <1>2, <1>8, <2>2
    <3>2. at = 2 BY <1>9, <1>10, <1>11, <2>2, <3>1
    <3>3. K = a + 1 BY <1>2, <2>2
    <3>4. 2 <= Len(seg) + 1 BY <1>1, <1>7
    <3>5. K = a + at - 1 BY <1>1, <3>2, <3>3
    <3> QED BY <3>2, <3>4, <3>5
  <2> QED BY <1>3, <2>1, <2>2
<1>13. q = Http!Loop(z, seg, at)
  <2>1. q = Http!Loop([p EXCEPT !.skip_next_lf = @ /\ ~skips], seg, at)
    BY <1>9, <1>11, Zenon DEF Http!Parse
  <2>2. (p.skip_next_lf /\ ~skips) = FALSE
    <3>1. CASE p.skip_next_lf = FALSE BY <3>1
    <3>2. CASE p.skip_next_lf = TRUE
      <4>1. seg[1] = "LF" BY <1>2, <1>8, <3>2
      <4>2. skips BY Zenon, <1>9, <1>10, <3>2, <4>1
      <4> QED BY <4>2
    <3> QED BY <1>3, <3>1, <3>2
  <2>3. [p EXCEPT !.skip_next_lf = @ /\ ~skips] = z BY <1>4, <2>2 DEF Unnoted
  <2> QED BY <2>1, <2>3
<1>14. PICK u : u = Http!Go(z, at) OBVIOUS
<1>15. u.p = z /\ u.at = at /\ u.left = FALSE BY <1>14 DEF Http!Go
<1>16. Stands(T, a, n, seg, K, u) BY Zenon, <1>1, <1>6, <1>12, <1>15, StandsBefore
<1>17. OnItsWay(r, T, a, n, seg, u) BY <1>5, <1>15, <1>16 DEF OnItsWay
<1>18. PICK t : OnItsWay(r, T, a, n, seg, t) /\ Http!Ended(t, seg) /\ q = t.p
  BY <1>13, <1>14, <1>17, LoopEnds
<1> QED BY <1>18, EndParsed

-----------------------------------------------------------------------------
(* Requests. *)

\* A request has a text and its parser a beginning.
LEMMA NewBetween ==
  ASSUME NEW r, WellFormedRequest(r), NEW T, NEW a, a = 0
  PROVE  Between(r, T, a, Http!NewParser)
<1>1. PICK p : p = Http!NewParser OBVIOUS
<1>2. p \in Reading("S_METHOD", NoPart(r), <<>>, <<>>) BY <1>1, StageNew DEF Reading, NoPart
<1>3. p.state = "S_METHOD" /\ p.skip_next_lf = FALSE BY <1>1 DEF Http!NewParser
<1>4. PICK w \in Seq(Token) : w = r.method BY RequestIs
<1>5. PICK s \in Nat : s = 0 OBVIOUS
<1>6. InWord(p, s, "S_METHOD", NoPart(r), <<>>, s, w) BY <1>2, WordStarts
<1>7. InMethod(r, s, p) BY <1>4, <1>5, <1>6 DEF InMethod
<1>8. Reads(r, T, s, p) BY <1>7 DEF Reads
<1>9. Between(r, T, a, p) BY <1>3, <1>5, <1>8 DEF Between
<1> QED BY <1>1, <1>9

\* The request of a parser that is done is the one that was sent.
LEMMA DoneUnderstood ==
  ASSUME NEW r, WellFormedRequest(r), NEW q, q \in Framed("S_COMPLETE", r, r.body, <<>>)
  PROVE  q.state = "S_COMPLETE" /\ q.req = Understood(r)
<1>1. q.state = "S_COMPLETE" /\ q.req \in BodyPart(r, r.body) BY DEF Framed, Stage
<1>2. Hdrs(r, Len(r.headers)) = Understood(r).headers BY HdrsAll
<1>3. PICK h : h = Understood(r).headers OBVIOUS
<1>4. q.req \in Part(r.method, r.uri, r.protocol, h, r.body) BY <1>1, <1>2, <1>3 DEF BodyPart
<1>5. Understood(r) \in Part(r.method, r.uri, r.protocol, h, r.body)
  BY <1>3 DEF Understood, Part
<1>6. PICK u : u = Understood(r) OBVIOUS
<1>7. q.req = u BY <1>4, <1>5, <1>6, PartIsOne
<1> QED BY <1>1, <1>6, <1>7

\* A connection begins in front of its first request.
LEMMA HttpInit == StreamInit => HttpInv
<1> SUFFICES ASSUME StreamInit, job.kind = "http" PROVE HttpInv
  BY DEF HttpInv
<1>1. /\ WellFormed(job) /\ bytes = OnWire(job) /\ sent = Start(job).sent /\ rx = Start(job).rx
  BY JobsWellFormed DEF StreamInit
<1>2. /\ DOMAIN job.requests = 1..Len(job.requests)
      /\ \A i \in DOMAIN job.requests : WellFormedRequest(job.requests[i])
  BY <1>1 DEF WellFormed
<1>3. bytes = [i \in DOMAIN job.requests |-> RequestText(job.requests[i])] BY <1>1 DEF OnWire
<1>4. sent = [request |-> 1, at |-> 0] /\ rx = Http!NewConnection BY <1>1 DEF Start
<1>5. Len(job.requests) \in Nat BY <1>2
<1>6. /\ sent.request = 1 /\ sent.at = 0
      /\ sent \in [request : 1..(Len(job.requests) + 1), at : Nat]
  BY <1>4, <1>5
<1>7. PICK p : p = Http!NewParser OBVIOUS
<1>8. /\ rx.parser = p /\ rx.answered = <<>> /\ rx.closed = FALSE
      /\ rx = [parser |-> rx.parser, answered |-> rx.answered, closed |-> FALSE]
      /\ DOMAIN rx = {"parser", "answered", "closed"}
  BY <1>4, <1>7 DEF Http!NewConnection
<1>9. rx.answered = [i \in 1..(sent.request - 1) |-> Understood(job.requests[i])]
  <2>1. 1..(sent.request - 1) = {} BY <1>6
  <2>2. [i \in {} |-> Understood(job.requests[i])] = <<>> OBVIOUS
  <2> QED BY <1>8, <2>1, <2>2
<1>10. ASSUME sent.request <= Len(job.requests)
       PROVE  Between(job.requests[sent.request], RequestText(job.requests[sent.request]),
                      sent.at, rx.parser)
  <2>1. sent.request \in DOMAIN job.requests BY <1>2, <1>5, <1>6, <1>10
  <2>2. PICK r : r = job.requests[sent.request] OBVIOUS
  <2>3. WellFormedRequest(r) BY <1>2, <2>1, <2>2
  <2>4. PICK T : T = RequestText(r) OBVIOUS
  <2>5. Between(r, T, sent.at, p) BY <1>6, <1>7, <2>3, NewBetween
  <2> QED BY <1>8, <2>2, <2>4, <2>5
<1> QED BY <1>2, <1>3, <1>6, <1>8, <1>9, <1>10 DEF HttpInv

\* The worker answers a request that is complete and goes on with one that is not.
LEMMA SegmentReceived ==
  ASSUME NEW r, NEW T, NEW a, NEW n, NEW seg, About(r, T, a, n, seg),
         NEW p, Between(r, T, a, p), NEW answered, NEW c, c = Http!Receive(Held(p, answered), seg)
  PROVE  \/ n = Len(T) /\ c = Held(Http!NewParser, Append(answered, Understood(r)))
         \/ n # Len(T) /\ \E q : c = Held(q, answered) /\ Between(r, T, n, q)
<1>1. PICK d : d = Held(p, answered) OBVIOUS
<1>2. d.closed = FALSE /\ d.parser = p /\ d.answered = answered BY <1>1 DEF Held
<1>3. PICK q : q = Http!Parse(p, seg) OBVIOUS
<1>4. c = Http!Parsed(d, q) BY <1>1, <1>2, <1>3 DEF Http!Receive
<1>5. Parsed(r, T, n, q) BY <1>3, SegmentParsed
<1>6. WellFormedRequest(r) BY DEF About
<1>7. CASE n = Len(T) /\ q \in Framed("S_COMPLETE", r, r.body, <<>>)
  <2>1. q.state = "S_COMPLETE" /\ q.req = Understood(r) BY <1>6, <1>7, DoneUnderstood
  <2>2. c = [d EXCEPT !.parser = Http!TakeRequest(q), !.answered = Append(@, q.req)]
    BY <1>4, <2>1 DEF Http!Parsed
  <2>3. PICK f : f = Http!NewParser OBVIOUS
  <2>4. Http!TakeRequest(q) = f BY <2>3 DEF Http!TakeRequest
  <2>5. PICK g : g = Append(answered, Understood(r)) OBVIOUS
  <2>6. c = [d EXCEPT !.parser = f, !.answered = g] BY <1>2, <2>1, <2>2, <2>4, <2>5
  <2>7. c = Held(f, g) BY <1>1, <2>6 DEF Held
  <2> QED BY <1>7, <2>3, <2>5, <2>7
<1>8. CASE n # Len(T) /\ q.state # "S_ERROR" /\ Between(r, T, n, q)
  <2>1. q.state # "S_COMPLETE" BY <1>8 DEF Between
  <2>2. c = [d EXCEPT !.parser = q] BY <1>4, <1>8, <2>1 DEF Http!Parsed
  <2>3. c = Held(q, answered) BY <1>1, <2>2 DEF Held
  <2> QED BY <1>8, <2>3
<1> QED BY <1>5, <1>7, <1>8 DEF Parsed

\* One more answer.
LEMMA AnsweredGrows ==
  ASSUME NEW k \in Nat, k >= 1, NEW f, NEW s, s = [i \in 1..(k - 1) |-> f[i]],
         NEW z, z = f[k]
  PROVE  Append(s, z) = [i \in 1..((k + 1) - 1) |-> f[i]]
<1>1. PICK m \in Nat : m = k - 1 OBVIOUS
<1>2. k = m + 1 /\ (k + 1) - 1 = m + 1 BY <1>1
<1>3. DOMAIN s = 1..m /\ \A i \in 1..m : s[i] = f[i] BY <1>1
<1>4. s \in Seq({f[i] : i \in 1..m}) /\ Len(s) = m BY <1>1, <1>3
<1>5. Append(s, z) = [i \in 1..(m + 1) |-> IF i = m + 1 THEN z ELSE s[i]] BY <1>4
<1>6. ASSUME NEW i \in 1..(m + 1) PROVE (IF i = m + 1 THEN z ELSE s[i]) = f[i]
  BY <1>2, <1>3, <1>6
<1> QED BY <1>2, <1>5, <1>6

\* A segment keeps the invariant.
LEMMA SegmentStep ==
  ASSUME HttpInv, Segment PROVE HttpInv'
<1>1. /\ job.kind = "http" /\ sent.request <= Len(job.requests)
      /\ DOMAIN job.requests = 1..Len(job.requests)
      /\ \A i \in DOMAIN job.requests : WellFormedRequest(job.requests[i])
      /\ bytes = [i \in DOMAIN job.requests |-> RequestText(job.requests[i])]
      /\ sent \in [request : 1..(Len(job.requests) + 1), at : Nat]
      /\ rx = Held(rx.parser, rx.answered)
      /\ rx.answered = [i \in 1..(sent.request - 1) |-> Understood(job.requests[i])]
      /\ Between(job.requests[sent.request], RequestText(job.requests[sent.request]),
                 sent.at, rx.parser)
      /\ job' = job /\ bytes' = bytes
  BY DEF Segment, HttpInv, Held
<1>2. Len(job.requests) \in Nat BY <1>1
<1>3. PICK k : k = sent.request OBVIOUS
<1>4. PICK a : a = sent.at OBVIOUS
<1>5. k \in Nat /\ k >= 1 /\ k \in DOMAIN job.requests /\ a \in Nat /\ k <= Len(job.requests)
  <2>1. sent.request \in 1..(Len(job.requests) + 1) /\ sent.at \in Nat BY <1>1
  <2> QED BY <1>1, <1>2, <1>3, <1>4, <2>1
<1>6. PICK r : r = job.requests[k] OBVIOUS
<1>7. PICK T : T = RequestText(r) OBVIOUS
<1>8. WellFormedRequest(r) /\ bytes[k] = T BY <1>1, <1>5, <1>6, <1>7
<1>9. T \in Seq(Token) /\ Len(T) \in Nat BY <1>7, <1>8, TextLaid DEF Laid
<1>10. PICK n \in (a + 1)..Len(T) :
          /\ n \notin Fragile(r)
          /\ rx' = Http!Receive(rx, SubSeq(T, a + 1, n))
          /\ sent' = IF n = Len(T) THEN [request |-> k + 1, at |-> 0]
                     ELSE [sent EXCEPT !.at = n]
  BY <1>3, <1>4, <1>6, <1>8 DEF Segment
<1>11. n \in Nat /\ a < n /\ n <= Len(T)
  BY <1>5, <1>9, <1>10
<1>12. PICK seg : seg = SubSeq(T, a + 1, n) OBVIOUS
<1>13. About(r, T, a, n, seg) BY <1>5, <1>7, <1>8, <1>10, <1>11, <1>12 DEF About, SegOf
<1>14. PICK p : p = rx.parser OBVIOUS
<1>15. PICK answered : answered = rx.answered OBVIOUS
<1>16. Between(r, T, a, p) BY <1>1, <1>3, <1>4, <1>6, <1>7, <1>14
<1>17. PICK c : c = rx' OBVIOUS
<1>18. c = Http!Receive(Held(p, answered), seg) BY <1>1, <1>10, <1>12, <1>14, <1>15, <1>17
<1>19. \/ n = Len(T) /\ c = Held(Http!NewParser, Append(answered, Understood(r)))
       \/ n # Len(T) /\ \E q : c = Held(q, answered) /\ Between(r, T, n, q)
  BY <1>13, <1>16, <1>18, SegmentReceived
<1> DEFINE F == 1..(Len(job.requests) + 1)
           U == [i \in DOMAIN job.requests |-> Understood(job.requests[i])]
<1>20. ASSUME NEW q, NEW z, c = Held(q, z)
       PROVE  /\ c.parser = q /\ c.answered = z /\ ~c.closed
              /\ DOMAIN c = {"parser", "answered", "closed"}
              /\ c = [parser |-> c.parser, answered |-> c.answered, closed |-> FALSE]
  BY <1>20 DEF Held
<1>21. CASE n = Len(T) /\ c = Held(Http!NewParser, Append(answered, Understood(r)))
  <2>1. PICK z : z = Append(answered, Understood(r)) OBVIOUS
  <2>2. PICK q : q = Http!NewParser OBVIOUS
  <2>3. /\ c.parser = q /\ c.answered = z /\ ~c.closed
        /\ DOMAIN c = {"parser", "answered", "closed"}
        /\ c = [parser |-> c.parser, answered |-> c.answered, closed |-> FALSE]
    BY <1>20, <1>21, <2>1, <2>2
  <2>4. PICK k2 \in Nat : k2 = k + 1 BY <1>5
  <2>5. sent' = [request |-> k2, at |-> 0] BY <1>10, <1>21, <2>4
  <2>6. k2 \in F BY <1>2, <1>5, <2>4
  <2>7. sent'.request = k2 /\ sent'.at = 0 /\ sent' \in [request : F, at : Nat] BY <2>5, <2>6
  <2>8. z = [i \in 1..(k2 - 1) |-> Understood(job.requests[i])]
    <3>1. answered = [i \in 1..(k - 1) |-> U[i]]
      <4>1. \A i \in 1..(k - 1) : i \in DOMAIN job.requests BY <1>1, <1>2, <1>5
      <4>2. answered = [i \in 1..(k - 1) |-> Understood(job.requests[i])] BY <1>1, <1>3, <1>15
      <4> QED BY <4>1, <4>2
    <3>2. Understood(r) = U[k] BY <1>5, <1>6
    <3>3. \A i \in 1..((k + 1) - 1) : i \in DOMAIN job.requests BY <1>1, <1>2, <1>5
    <3>4. PICK V : V = U OBVIOUS
    <3>5. PICK t : t = Understood(r) OBVIOUS
    <3>6. z = [i \in 1..((k + 1) - 1) |-> V[i]]
      <4> HIDE DEF U
      <4>1. answered = [i \in 1..(k - 1) |-> V[i]] /\ t = V[k] /\ z = Append(answered, t)
        BY <2>1, <3>1, <3>2, <3>4, <3>5
      <4> QED BY <1>5, <4>1, AnsweredGrows
    <3>7. \A i \in 1..((k + 1) - 1) : V[i] = Understood(job.requests[i]) BY <3>3, <3>4
    <3> QED BY <2>4, <3>6, <3>7
  <2>9. ASSUME k2 <= Len(job.requests)
        PROVE  Between(job.requests[k2], RequestText(job.requests[k2]), sent'.at, q)
    <3>1. k2 \in DOMAIN job.requests BY <1>1, <1>2, <1>5, <2>4, <2>9
    <3>2. PICK r2 : r2 = job.requests[k2] OBVIOUS
    <3>3. WellFormedRequest(r2) BY <1>1, <3>1, <3>2
    <3>4. PICK T2 : T2 = RequestText(r2) OBVIOUS
    <3>5. PICK o : o = sent'.at OBVIOUS
    <3>6. Between(r2, T2, o, q) BY <2>2, <2>7, <3>3, <3>5, NewBetween
    <3> QED BY <3>2, <3>4, <3>5, <3>6
  <2> HIDE DEF U
  <2> QED BY Zenon, <1>1, <1>17, <2>3, <2>7, <2>8, <2>9 DEF HttpInv
<1>22. CASE n # Len(T) /\ \E q : c = Held(q, answered) /\ Between(r, T, n, q)
  <2>1. PICK q : c = Held(q, answered) /\ Between(r, T, n, q) BY <1>22
  <2>2. /\ c.parser = q /\ c.answered = answered /\ ~c.closed
        /\ DOMAIN c = {"parser", "answered", "closed"}
        /\ c = [parser |-> c.parser, answered |-> c.answered, closed |-> FALSE]
    BY <1>20, <2>1
  <2>3. sent' = [sent EXCEPT !.at = n] BY <1>10, <1>22
  <2>4. sent \in [request : F, at : Nat] BY <1>1
  <2> HIDE DEF F
  <2>5. sent'.request = k /\ sent'.at = n /\ sent' \in [request : F, at : Nat]
    BY <1>3, <1>11, <2>3, <2>4
  <2> USE DEF F
  <2>6. answered = [i \in 1..(k - 1) |-> Understood(job.requests[i])] BY <1>1, <1>3, <1>15
  <2>7. Between(job.requests[k], RequestText(job.requests[k]), n, q) BY <1>6, <1>7, <2>1
  <2> HIDE DEF U
  <2> QED BY Zenon, <1>1, <1>17, <2>2, <2>5, <2>6, <2>7 DEF HttpInv
<1> QED BY <1>19, <1>21, <1>22

\* The invariant of a connection with requests.
LEMMA HttpInvariant == StreamSpec => []HttpInv
<1>1. StreamInit => HttpInv BY HttpInit
<1>2. HttpInv /\ [StreamNext]_vars => HttpInv'
  <2> SUFFICES ASSUME HttpInv, [StreamNext]_vars PROVE HttpInv' OBVIOUS
  <2>1. CASE Segment BY <2>1, SegmentStep
  <2>2. CASE Pushed \/ HangUp \/ ConnectAgain \/ AudioPacket \/ HashPiece
    <3>1. job' = job /\ job.kind # "http"
      BY <2>2 DEF Pushed, HangUp, ConnectAgain, AudioPacket, HashPiece
    <3> QED BY <3>1 DEF HttpInv
  <2>3. CASE UNCHANGED vars
    <3>1. job' = job /\ bytes' = bytes /\ sent' = sent /\ rx' = rx BY <2>3 DEF vars
    <3> QED BY <3>1 DEF HttpInv
  <2> QED BY <2>1, <2>2, <2>3 DEF StreamNext
<1> QED BY <1>1, <1>2, PTL DEF StreamSpec

\* How a stream is cut into segments changes nothing: the requests, the screen
\* and the digest.  A cut in the line of a chunk's size, or between the CR and the
\* LF that complete a request, is not made (Fragile): the code minds those.
THEOREM CutsChangeNothing == StreamSpec => []CutsInvisible
<1>1. HttpInv => (job.kind = "http" => RequestsAgree) BY DEF HttpInv, RequestsAgree
<1>2. PushInv => (job.kind = "push" => ScreenShown) BY PushShows
<1>3. HashInv => (job.kind = "digest" => DigestAgrees) BY HashShows
<1>4. HttpInv /\ PushInv /\ HashInv => CutsInvisible BY <1>1, <1>2, <1>3 DEF CutsInvisible
<1> QED BY <1>4, HttpInvariant, PushInvariant, HashInvariant, PTL

=============================================================================
