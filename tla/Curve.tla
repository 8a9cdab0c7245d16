-------------------------------- MODULE Curve --------------------------------
(***************************************************************************)
(* crypto/curve25519.cpp: X25519 and Ed25519.  The arithmetic of the field *)
(* is modelled twice.  Its limbs, carries and final subtraction are those  *)
(* of the code with fewer and narrower limbs (Limbs of Width bits, for the *)
(* prime-shaped modulus 2^(Limbs * Width - 1) - 19).  The curves are the   *)
(* code's formulas over the small prime P, a field of the same kind        *)
(* (P % 8 = 5), with a curve of each form over it.                         *)
(***************************************************************************)
EXTENDS Integers, Sequences, SequencesExt

CONSTANTS
    Limbs, Width,     \* 16 limbs of 16 bits in the code
    P,                \* the prime, 2^255 - 19 in the code
    A24,              \* (A - 2) / 4 of the Montgomery curve, 121665
    EdD,              \* d of the Edwards curve
    BaseX, BaseY,     \* X and Y, its base point
    Order,            \* L, the order of the base point
    TopBit            \* the bit that clamping sets, 254

ASSUME CurveConstants ==
    /\ Limbs \in Nat \ {0, 1} /\ Width \in Nat /\ TopBit \in Nat
    /\ P \in Nat /\ P % 8 = 5
    /\ {A24, EdD, BaseX, BaseY} \subseteq 0 .. P - 1
    /\ Order \in Nat \ {0}

-----------------------------------------------------------------------------
(* Limbs.  A gf is a sequence of integers, least significant first.        *)

Base == 2 ^ Width

\* car25519: what exceeds a limb goes to the next, and from the last to the
\* first, 38 times, for 2^(Limbs * Width) is 38.
CarryAt(o, i) ==
    LET carry == o[i] \div Base
        to    == IF i = Limbs THEN 1 ELSE i + 1
        less  == [o EXCEPT ![i] = @ % Base]
    IN  [less EXCEPT ![to] = @ + (IF i = Limbs THEN 38 * carry ELSE carry)]

Car(o) == FoldLeft(CarryAt, o, [i \in 1..Limbs |-> i])

AddLimbs(a, b) == [i \in 1..Limbs |-> a[i] + b[i]]
SubLimbs(a, b) == [i \in 1..Limbs |-> a[i] - b[i]]

\* Column k of the product; the columns past the last limb come back 38 fold.
Column(a, b, k) ==
    FoldLeft(LAMBDA n, i : n + (IF k - i \in 0 .. Limbs - 1
                                THEN a[i + 1] * b[k - i + 1] ELSE 0),
             0, [i \in 1..Limbs |-> i - 1])

MulLimbs(a, b) ==
    Car(Car([i \in 1..Limbs |->
                Column(a, b, i - 1)
                + (IF i < Limbs THEN 38 * Column(a, b, i - 1 + Limbs) ELSE 0)]))

\* What pack25519 subtracts: the limbs of the modulus.
ModulusLimb(i) == IF i = 1 THEN Base - 19
                  ELSE IF i = Limbs THEN (Base \div 2) - 1 ELSE Base - 1

\* t less the modulus with its borrows, or t when that is negative.
SubtractOnce(t) ==
    LET step(s, i) == LET x == t[i] - ModulusLimb(i) - s.borrow
                      IN  [limbs  |-> Append(s.limbs, x % Base),
                           borrow |-> (x \div Base) % 2]
        r == FoldLeft(step, [limbs |-> <<>>, borrow |-> 0],
                      [i \in 1..Limbs |-> i])
    IN  IF r.borrow = 1 THEN t ELSE r.limbs

\* (Mutant: one round of carries.)
PackHasty(n) == SubtractOnce(SubtractOnce(Car(n)))

PackLimbs(n) == SubtractOnce(SubtractOnce(Car(Car(Car(n)))))

\* unpack25519 drops the top bit.
UnpackLimbs(n) == [n EXCEPT ![Limbs] = @ % (Base \div 2)]

-----------------------------------------------------------------------------
(* The field of P elements. *)

Mul(a, b) == (a * b) % P
Plus(a, b) == (a + b) % P
Minus(a, b) == (a - b) % P
Sq(a) == Mul(a, a)

\* Square, and multiply at the bits that are set, from the top: how
\* inv25519 and pow2523 go through their fixed exponents.
RECURSIVE Power(_, _)
Power(a, e) == IF e = 0 THEN 1
               ELSE IF e % 2 = 1 THEN Mul(Sq(Power(a, e \div 2)), a)
               ELSE Sq(Power(a, e \div 2))

Inv(a) == Power(a, P - 2)
Pow2523(a) == Power(a, (P - 5) \div 8)
SqrtMinus1 == Power(2, (P - 1) \div 4)      \* I

ScalarBit(n, i) == (n \div (2 ^ i)) % 2

-----------------------------------------------------------------------------
(* X25519. *)

\* The low three bits go, the top bit is set.
Clamp(n) == 8 * ((n % (2 ^ TopBit)) \div 8) + 2 ^ TopBit

\* One bit of the ladder: s is the pair of points (a : c) and (b : d).
Rung(s, x, bit) ==
    LET u == IF bit = 1 THEN [a |-> s.b, b |-> s.a, c |-> s.d, d |-> s.c] ELSE s
        e == Sq(Plus(u.a, u.c))
        f == Sq(Minus(u.a, u.c))
        g == Mul(Plus(u.b, u.d), Minus(u.a, u.c))
        h == Mul(Minus(u.b, u.d), Plus(u.a, u.c))
        k == Minus(e, f)
        v == [a |-> Mul(e, f), b |-> Sq(Plus(g, h)),
              c |-> Mul(k, Plus(Mul(k, A24), e)),
              d |-> Mul(Sq(Minus(g, h)), x)]
    IN  IF bit = 1 THEN [a |-> v.b, b |-> v.a, c |-> v.d, d |-> v.c] ELSE v

RECURSIVE Ladder(_, _, _, _)
Ladder(s, x, z, i) ==
    IF i < 0 THEN s ELSE Ladder(Rung(s, x, ScalarBit(z, i)), x, z, i - 1)

ScalarMultX(n, x) ==
    LET s == Ladder([a |-> 1, b |-> x, c |-> 0, d |-> 1], x, Clamp(n), TopBit)
    IN  Mul(s.a, Inv(s.c))

X25519Keygen(seed, base) ==
    [sk |-> Clamp(seed), pk |-> ScalarMultX(Clamp(seed), base)]

\* Fails when the shared value is zero.
X25519Shared(sk, their) ==
    LET u == ScalarMultX(sk, their) IN [ok |-> u # 0, shared |-> u]

-----------------------------------------------------------------------------
(* Ed25519.  A point is <<x, y, z, t>> in extended coordinates, a packed   *)
(* point its y and the parity of its x.                                    *)

AddPoints(p, q) ==
    LET a == Mul(Minus(p[2], p[1]), Minus(q[2], q[1]))
        b == Mul(Plus(p[1], p[2]), Plus(q[1], q[2]))
        c == Mul(Mul(p[4], q[4]), Plus(EdD, EdD))
        d == Mul(2, Mul(p[3], q[3]))
        e == Minus(b, a)
        f == Minus(d, c)
        g == Plus(d, c)
        h == Plus(b, a)
    IN  <<Mul(e, f), Mul(h, g), Mul(g, f), Mul(e, h)>>

RECURSIVE ScalarMultFrom(_, _, _, _)
ScalarMultFrom(p, q, s, i) ==
    IF i < 0 THEN p
    ELSE IF ScalarBit(s, i) = 1
    THEN ScalarMultFrom(AddPoints(p, q), AddPoints(q, q), s, i - 1)
    ELSE ScalarMultFrom(AddPoints(p, p), AddPoints(q, p), s, i - 1)

ScalarMult(q, s) == ScalarMultFrom(<<0, 1, 1, 0>>, q, s, TopBit + 1)

BasePoint == <<BaseX, BaseY, 1, Mul(BaseX, BaseY)>>

ScalarBase(s) == ScalarMult(BasePoint, s)

Pack(p) == [y |-> Mul(p[2], Inv(p[3])), odd |-> Mul(p[1], Inv(p[3])) % 2]

\* unpackneg: the negative of the packed point, or <<>> if there is none.
UnpackNeg(k) ==
    LET num  == Minus(Sq(k.y), 1)
        den  == Plus(1, Mul(Sq(k.y), EdD))
        den3 == Mul(Sq(den), den)
        t    == Mul(Pow2523(Mul(Mul(Sq(den3), num), den)), Mul(num, den3))
        x0   == IF Mul(Sq(t), den) # num THEN Mul(t, SqrtMinus1) ELSE t
        x    == IF x0 % 2 = k.odd THEN Minus(0, x0) ELSE x0
    IN  IF Mul(Sq(x0), den) # num THEN <<>> ELSE <<x, k.y, 1, Mul(x, k.y)>>

\* SHA-512 of two or three inputs, as a number: any function of them all.
Hash2(prefix, msg) == 31 * prefix + 17 * msg + 5
Hash3(r, pk, msg) ==
    7 * r.y + 29 * r.odd + 11 * pk.y + 23 * pk.odd + 13 * msg + 3

ModL(x) == x % Order

\* The clamped half of the seed's hash is the scalar, the other the prefix.
Ed25519Keygen(seed) ==
    [sk |-> Clamp(seed), prefix |-> seed, pk |-> Pack(ScalarBase(Clamp(seed)))]

Sign(key, msg) ==
    LET r  == ModL(Hash2(key.prefix, msg))
        rp == Pack(ScalarBase(r))
        h  == ModL(Hash3(rp, key.pk, msg))
    IN  [r |-> rp, s |-> ModL(r + h * key.sk)]

Verify(pk, msg, sig) ==
    LET q == UnpackNeg(pk)
        h == ModL(Hash3(sig.r, pk, msg))
    IN  /\ q # <<>>
        /\ Pack(AddPoints(ScalarMult(q, h), ScalarBase(sig.s))) = sig.r

=============================================================================
