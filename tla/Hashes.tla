------------------------------- MODULE Hashes -------------------------------
(***************************************************************************)
(* crypto/sha512.cpp: the buffering and padding of SHA-512, and what is    *)
(* built on it - HMAC, HKDF and PBKDF2.  The compression function is not   *)
(* the subject: Compress stands for it, a small mixing function of the     *)
(* same shape, and digests are 64 bytes drawn from its state.              *)
(***************************************************************************)
EXTENDS Integers, Sequences, SequencesExt, Ciphers

BlockSize  == 128
DigestSize == 64

Zeros(n) == [i \in 1..n |-> 0]

\* Stands for the 80 rounds: any function of the state and the whole block,
\* a word of 8 bytes at a time.
WordOf(block, i) ==
    LET b(k) == block[8 * i - 8 + k]
    IN  b(1) + 3 * b(2) + 7 * b(3) + 11 * b(4) + 13 * b(5) + 17 * b(6) + 19 * b(7) + 23 * b(8)

Compress(state, block) ==
    Iterate(LAMBDA h, i : (251 * h + WordOf(block, i) + 7) % 65521, state, 16)

DigestOf(state) ==
    Now([i \in 1..DigestSize |-> ((state \div (i + 3)) + 17 * i) % 256])

NewSha == [state |-> 1, buffer |-> <<>>, bits |-> 0]

\* One turn of update(): the buffer is filled as far as the data behind `at'
\* allow, and compressed when it is full.
Absorb(t, data) ==
    LET space == BlockSize - Len(t.sha.buffer)
        take  == IF Len(data) - t.at < space THEN Len(data) - t.at ELSE space
        full  == t.sha.buffer \o SubSeq(data, t.at + 1, t.at + take)
    IN  IF t.at = Len(data) THEN t
        ELSE [at  |-> t.at + take,
              sha |-> IF Len(full) = BlockSize
                      THEN [t.sha EXCEPT !.state = Compress(@, full), !.buffer = <<>>]
                      ELSE [t.sha EXCEPT !.buffer = full]]

Update(s, data) ==
    Iterate(LAMBDA t, i : Absorb(t, data),
            [sha |-> [s EXCEPT !.bits = @ + 8 * Len(data)], at |-> 0],
            (Len(data) \div BlockSize) + 2).sha

\* The 128-bit length; these messages are short of 2^31 bits.
LengthBytes(bits) ==
    Zeros(12) \o <<bits \div 16777216, (bits \div 65536) % 256,
                   (bits \div 256) % 256, bits % 256>>

FillUp(marked, n) == marked \o Zeros(n - Len(marked))

\* final, with the 0x80 behind the data: one block more when the length does
\* not fit behind it.
Finish(s, marked) ==
    IF Len(marked) > 112
    THEN Compress(Compress(s.state, FillUp(marked, BlockSize)),
                  Zeros(112) \o LengthBytes(s.bits))
    ELSE Compress(s.state, FillUp(marked, 112) \o LengthBytes(s.bits))

Digest(s) == DigestOf(Finish(s, Append(s.buffer, 128)))

Hash(data) == Digest(Update(NewSha, data))

\* A key longer than a block is hashed, a shorter one is filled with zeros.
HmacKey(key) == FillUp(IF Len(key) > BlockSize THEN Hash(key) ELSE key, BlockSize)

Keyed(key, x, msg) ==
    Digest(Update(Update(NewSha, XorSeq(key, [i \in 1..BlockSize |-> x])), msg))

HmacWith(key, msg) == Keyed(key, 92, Keyed(key, 54, msg))

Hmac(key, msg) == HmacWith(HmacKey(key), msg)

\* No salt is a salt of zeros.
HkdfExtract(salt, ikm) ==
    Hmac(IF salt = <<>> THEN Zeros(DigestSize) ELSE salt, ikm)

\* T(i) = HMAC(prk, T(i-1) | info | i); the last one is cut to fit.
NextT(prk, info, prev, i) == Hmac(prk, prev \o info \o <<i % 256>>)

Expanded(okm, t, len) ==
    [t |-> t, okm |-> okm \o SubSeq(t, 1, Min({DigestSize, len - Len(okm)}))]

HkdfExpand(prk, info, len) ==
    IF len = 0 \/ (len + DigestSize - 1) \div DigestSize > 255 THEN <<>>
    ELSE Iterate(LAMBDA s, i : Expanded(s.okm, NextT(prk, info, s.t, i), len),
                 [t |-> <<>>, okm |-> <<>>], (len + DigestSize - 1) \div DigestSize).okm

HkdfDerive(ikm, salt, info, len) == HkdfExpand(HkdfExtract(salt, ikm), info, len)

\* U(1) is xored with its successors.
NextU(s, u) == [u |-> u, t |-> XorSeq(s.t, u)]

DerivedFrom(pw, u1, iterations) ==
    Iterate(LAMBDA s, j : NextU(s, Hmac(pw, s.u)), [u |-> u1, t |-> u1], iterations - 1).t

Derived(pw, salt, iterations, i) ==
    DerivedFrom(pw, Hmac(pw, salt \o <<0, 0, i \div 256, i % 256>>), iterations)

Pbkdf2(pw, salt, iterations, len) ==
    LET blocks == (len + DigestSize - 1) \div DigestSize
    IN  SubSeq(Joined([i \in 1..blocks |-> Derived(pw, salt, iterations, i)], blocks), 1, len)

=============================================================================
