------------------------------- MODULE Ciphers -------------------------------
(***************************************************************************)
(* crypto/aes_ctr.cpp and crypto/aes_cbc.cpp: AES-128, its counter mode,   *)
(* which decrypts the audio of AirPlay 1 and the mirrored screen, and its  *)
(* block-chaining mode, which decrypts the audio of AirPlay 2, with the    *)
(* choice between the two that rtp_receiver.cpp makes for each packet.     *)
(*                                                                         *)
(* A byte is 0..255; a block, a key and a word are sequences of bytes, in  *)
(* the order of the arrays of the code (byte r of column c is at 4c + r).  *)
(***************************************************************************)
EXTENDS Integers, Sequences, SequencesExt, Loops

Byte == 0..255

\* Bitwise exclusive or: two bits are added modulo 2, by halves of a byte.
XorHalf == [a \in 0..15 |-> [b \in 0..15 |->
    ((a + b) % 2) + 2 * ((a \div 2 + b \div 2) % 2)
    + 4 * ((a \div 4 + b \div 4) % 2) + 8 * ((a \div 8 + b \div 8) % 2)]]

Xor(a, b) == 16 * XorHalf[a \div 16][b \div 16] + XorHalf[a % 16][b % 16]

XorSeq(s, t) == Now([i \in DOMAIN s |-> Xor(s[i], t[i])])

-----------------------------------------------------------------------------
(* The tables. *)

kSbox == <<
     99, 124, 119, 123, 242, 107, 111, 197,  48,   1, 103,  43, 254, 215, 171, 118,
    202, 130, 201, 125, 250,  89,  71, 240, 173, 212, 162, 175, 156, 164, 114, 192,
    183, 253, 147,  38,  54,  63, 247, 204,  52, 165, 229, 241, 113, 216,  49,  21,
      4, 199,  35, 195,  24, 150,   5, 154,   7,  18, 128, 226, 235,  39, 178, 117,
      9, 131,  44,  26,  27, 110,  90, 160,  82,  59, 214, 179,  41, 227,  47, 132,
     83, 209,   0, 237,  32, 252, 177,  91, 106, 203, 190,  57,  74,  76,  88, 207,
    208, 239, 170, 251,  67,  77,  51, 133,  69, 249,   2, 127,  80,  60, 159, 168,
     81, 163,  64, 143, 146, 157,  56, 245, 188, 182, 218,  33,  16, 255, 243, 210,
    205,  12,  19, 236,  95, 151,  68,  23, 196, 167, 126,  61, 100,  93,  25, 115,
     96, 129,  79, 220,  34,  42, 144, 136,  70, 238, 184,  20, 222,  94,  11, 219,
    224,  50,  58,  10,  73,   6,  36,  92, 194, 211, 172,  98, 145, 149, 228, 121,
    231, 200,  55, 109, 141, 213,  78, 169, 108,  86, 244, 234, 101, 122, 174,   8,
    186, 120,  37,  46,  28, 166, 180, 198, 232, 221, 116,  31,  75, 189, 139, 138,
    112,  62, 181, 102,  72,   3, 246,  14,  97,  53,  87, 185, 134, 193,  29, 158,
    225, 248, 152,  17, 105, 217, 142, 148, 155,  30, 135, 233, 206,  85,  40, 223,
    140, 161, 137,  13, 191, 230,  66, 104,  65, 153,  45,  15, 176,  84, 187,  22 >>

kInvSbox == <<
     82,   9, 106, 213,  48,  54, 165,  56, 191,  64, 163, 158, 129, 243, 215, 251,
    124, 227,  57, 130, 155,  47, 255, 135,  52, 142,  67,  68, 196, 222, 233, 203,
     84, 123, 148,  50, 166, 194,  35,  61, 238,  76, 149,  11,  66, 250, 195,  78,
      8,  46, 161, 102,  40, 217,  36, 178, 118,  91, 162,  73, 109, 139, 209,  37,
    114, 248, 246, 100, 134, 104, 152,  22, 212, 164,  92, 204,  93, 101, 182, 146,
    108, 112,  72,  80, 253, 237, 185, 218,  94,  21,  70,  87, 167, 141, 157, 132,
    144, 216, 171,   0, 140, 188, 211,  10, 247, 228,  88,   5, 184, 179,  69,   6,
    208,  44,  30, 143, 202,  63,  15,   2, 193, 175, 189,   3,   1,  19, 138, 107,
     58, 145,  17,  65,  79, 103, 220, 234, 151, 242, 207, 206, 240, 180, 230, 115,
    150, 172, 116,  34, 231, 173,  53, 133, 226, 249,  55, 232,  28, 117, 223, 110,
     71, 241,  26, 113,  29,  41, 197, 137, 111, 183,  98,  14, 170,  24, 190,  27,
    252,  86,  62,  75, 198, 210, 121,  32, 154, 219, 192, 254, 120, 205,  90, 244,
     31, 221, 168,  51, 136,   7, 199,  49, 177,  18,  16,  89,  39, 128, 236,  95,
     96,  81, 127, 169,  25, 181,  74,  13,  45, 229, 122, 159, 147, 201, 156, 239,
    160, 224,  59,  77, 174,  42, 245, 176, 200, 235, 187,  60, 131,  83, 153,  97,
     23,  43,   4, 126, 186, 119, 214,  38, 225, 105,  20,  99,  85,  33,  12, 125 >>

kRcon == <<1, 2, 4, 8, 16, 32, 64, 128, 27, 54>>

Sub(b) == kSbox[b + 1]
InvSub(b) == kInvSbox[b + 1]

\* Multiplication by x in GF(2^8), and by a constant: no constant of the
\* cipher has the fifth bit that gmul looks at too.
XTime(x) == IF x < 128 THEN 2 * x ELSE Xor((2 * x) % 256, 27)

Gmul(a, b) ==
    LET taken(x, w) == IF (b \div w) % 2 = 1 THEN x ELSE 0
    IN  Xor(Xor(taken(a, 1), taken(XTime(a), 2)),
            Xor(taken(XTime(XTime(a)), 4), taken(XTime(XTime(XTime(a))), 8)))

-----------------------------------------------------------------------------
(* AES-128.  A key schedule is 44 words, four of them to a round.          *)

\* The round function of the key schedule on the word before.
RotSub(word, i) ==
    Now([r \in 1..4 |->
            Xor(Sub(word[(r % 4) + 1]), IF r = 1 THEN kRcon[i] ELSE 0)])

\* Behind word i; w has the words up to it.
NextWord(w, i) ==
    Append(w, XorSeq(w[i - 3], IF i % 4 = 0 THEN RotSub(w[i], i \div 4) ELSE w[i]))

KeyExpansion(key) ==
    Iterate(LAMBDA w, n : NextWord(w, n + 3),
            [i \in 1..4 |-> SubSeq(key, 4 * i - 3, 4 * i)], 40)

RoundKey(w, round) ==
    w[4 * round + 1] \o w[4 * round + 2] \o w[4 * round + 3] \o w[4 * round + 4]

\* Row r of the state moves r columns to the left, or to the right.
ShiftRows(s)    == Now([i \in 1..16 |-> s[((5 * (i - 1)) % 16) + 1]])
InvShiftRows(s) == Now([i \in 1..16 |-> s[((13 * (i - 1)) % 16) + 1]])

\* Every column times the circulant matrix whose first row is m.
MixedByte(s, m, c, r) ==
    LET term(j) == Gmul(s[4 * c + ((r + j) % 4) + 1], m[j + 1])
    IN  Xor(Xor(term(0), term(1)), Xor(term(2), term(3)))

MixBy(s, m) == Now([i \in 1..16 |-> MixedByte(s, m, (i - 1) \div 4, (i - 1) % 4)])

MixColumns(s)    == MixBy(s, <<2, 3, 1, 1>>)
InvMixColumns(s) == MixBy(s, <<14, 11, 13, 9>>)

SubBytes(s)    == Now([i \in 1..16 |-> Sub(s[i])])
InvSubBytes(s) == Now([i \in 1..16 |-> InvSub(s[i])])

Round(w, s, i) == XorSeq(MixColumns(ShiftRows(SubBytes(s))), RoundKey(w, i))

\* Rounds 1 to 9 are the same, the tenth does not mix the columns.
EncryptRounds(w, s) == Iterate(LAMBDA t, i : Round(w, t, i), s, 9)

EncryptBlock(w, in) ==
    XorSeq(ShiftRows(SubBytes(EncryptRounds(w, XorSeq(in, RoundKey(w, 0))))),
           RoundKey(w, 10))

InvRound(w, s, i) ==
    InvMixColumns(XorSeq(InvSubBytes(InvShiftRows(s)), RoundKey(w, i)))

DecryptRounds(w, s) == Iterate(LAMBDA t, i : InvRound(w, t, 10 - i), s, 9)

DecryptBlock(w, in) ==
    XorSeq(InvSubBytes(InvShiftRows(DecryptRounds(w, XorSeq(in, RoundKey(w, 10))))),
           RoundKey(w, 0))

-----------------------------------------------------------------------------
(* Counter mode.  a is an AesCtr: a keystream block is used from position  *)
(* keystream_pos on, 16 when none is left, whatever the calls are cut into. *)

NewCtr == [ready |-> FALSE, round_keys |-> <<>>, iv |-> <<>>, counter |-> <<>>,
           keystream |-> <<>>, pos |-> 16]

ResetCounter(a) == [a EXCEPT !.counter = a.iv, !.pos = 16]

SetCtrKey(a, key, iv) ==
    ResetCounter([a EXCEPT !.ready = TRUE, !.iv = iv,
                           !.round_keys = KeyExpansion(key)])

\* The last byte counts first; a byte that becomes 0 carries to the left.
IncrementCounter(c) ==
    Now([i \in 1..16 |->
          IF \A j \in (i + 1)..16 : c[j] = 255 THEN (c[i] + 1) % 256 ELSE c[i]])

\* One byte of process().
Refilled(a) ==
    IF a.pos < 16 THEN a
    ELSE [a EXCEPT !.keystream = EncryptBlock(a.round_keys, a.counter), !.pos = 0,
                   !.counter = IncrementCounter(@)]

MaskByte(a, out, b) ==
    [ctr |-> [a EXCEPT !.pos = @ + 1],
     out |-> Append(out, Xor(b, a.keystream[a.pos + 1]))]

CtrByte(s, b) == MaskByte(Refilled(s.ctr), s.out, b)

Process(a, in) ==
    IF a.ready
    THEN Iterate(LAMBDA s, i : CtrByte(s, in[i]), [ctr |-> a, out |-> <<>>], Len(in))
    ELSE [ctr |-> a, out |-> in]

-----------------------------------------------------------------------------
(* Block chaining. *)

\* aes_cbc.cpp has its own copy of the cipher, written another way.
SetCbcKey(key) == KeyExpansion(key)
CbcEncryptBlock(w, in) == EncryptBlock(w, in)

\* Block b of s, from 1.
BlockOf(s, b) == SubSeq(s, 16 * b - 15, 16 * b)

\* PKCS#7: always at least one byte of padding.
Padded(in) == LET pad == 16 - (Len(in) % 16)
              IN  in \o [i \in 1..pad |-> pad]

\* One more block, xored with the last of the ciphertext before it.
Chain(w, iv, out, block) ==
    out \o CbcEncryptBlock(w, XorSeq(block, IF out = <<>> THEN iv
                                           ELSE BlockOf(out, Len(out) \div 16)))

CbcEncryptPadded(w, iv, tmp) ==
    Iterate(LAMBDA out, b : Chain(w, iv, out, BlockOf(tmp, b)), <<>>,
            Len(tmp) \div 16)

CbcEncrypt(w, iv, in) == CbcEncryptPadded(w, iv, Padded(in))

\* decrypt_raw: whole blocks, and the padding is data.
Unchained(w, iv, in, b) ==
    XorSeq(DecryptBlock(w, BlockOf(in, b)), IF b = 1 THEN iv ELSE BlockOf(in, b - 1))

CbcDecryptRaw(w, iv, in) ==
    Joined([b \in 1..(Len(in) \div 16) |-> Unchained(w, iv, in, b)], Len(in) \div 16)

Refused == [ok |-> FALSE, out |-> <<>>]

\* decrypt: the last byte says how many bytes like it to take off.
Unpadded(out, pad) ==
    LET data == Len(out) - pad
    IN  IF pad \notin 1..16 THEN Refused
        ELSE IF \E i \in (data + 1)..Len(out) : out[i] # pad THEN Refused
        ELSE [ok |-> TRUE, out |-> SubSeq(out, 1, data)]

UnpaddedEnd(out) == Unpadded(out, out[Len(out)])

CbcDecrypt(w, iv, in) ==
    IF in = <<>> \/ Len(in) % 16 # 0 THEN Refused
    ELSE UnpaddedEnd(CbcDecryptRaw(w, iv, in))

-----------------------------------------------------------------------------
(* A packet of audio (receiver_worker).  With a key of AirPlay 2 its whole *)
(* blocks are chained from the session's iv anew and the bytes behind them *)
(* are not encrypted; otherwise the counter runs on from packet to packet. *)

WholeBlocks(payload) == 16 * (Len(payload) \div 16)

CbcPayload(rx, payload, enc) ==
    CbcDecryptRaw(rx.cbc_keys, rx.cbc_iv, SubSeq(payload, 1, enc))
    \o SubSeq(payload, enc + 1, Len(payload))

Counted(rx, r) == [rx |-> [rx EXCEPT !.aes = r.ctr], out |-> r.out]

\* (Mutant: the chain runs on from packet to packet.)
DecryptChained(rx, payload) ==
    LET enc == WholeBlocks(payload)
    IN  IF rx.cbc_ready /\ payload # <<>>
        THEN [rx |-> IF enc = 0 THEN rx
                     ELSE [rx EXCEPT !.cbc_iv = SubSeq(payload, enc - 15, enc)],
              out |-> CbcPayload(rx, payload, enc)]
        ELSE Counted(rx, Process(rx.aes, payload))

DecryptPacket(rx, payload) ==
    IF rx.cbc_ready /\ payload # <<>>
    THEN [rx |-> rx, out |-> CbcPayload(rx, payload, WholeBlocks(payload))]
    ELSE Counted(rx, Process(rx.aes, payload))

-----------------------------------------------------------------------------
(* hex_to_bytes: spaces and colons between the digits do not count.        *)

HexChars == {"0", "1", "2", "3", "4", "5", "6", "7", "8", "9",
             "a", "b", "c", "d", "e", "f"}

HexValue(c) == CHOOSE v \in 0..15 :
    c = <<"0", "1", "2", "3", "4", "5", "6", "7", "8", "9",
          "a", "b", "c", "d", "e", "f">>[v + 1]

BadHex == [ok |-> FALSE, bytes |-> <<>>]

HexToBytes(text, room) ==
    LET digits == SelectSeq(text, LAMBDA c : c \notin {" ", ":"})
        n      == Len(digits) \div 2
    IN  IF \E i \in DOMAIN digits : digits[i] \notin HexChars THEN BadHex
        ELSE IF Len(digits) % 2 # 0 \/ n > room THEN BadHex
        ELSE [ok |-> TRUE,
              bytes |-> [i \in 1..n |-> 16 * HexValue(digits[2 * i - 1])
                                        + HexValue(digits[2 * i])]]

HexToVector(text) == HexToBytes(text, (Len(text) \div 2) + 1)

=============================================================================
