------------------------------- MODULE FairPlay -------------------------------
(***************************************************************************)
(* core/fairplay.cpp: the pairing of FairPlay SAP, its TLV messages byte   *)
(* by byte and the state machine of FairPlaySap behind them.  The hashes   *)
(* are those of Hashes; the key agreement is any that commutes.            *)
(***************************************************************************)
EXTENDS Integers, Sequences, SequencesExt

LOCAL H == INSTANCE Hashes

\* put_be32: what the server proposes to the client (20000 in the code).
Iterations == 2

KeySize == 32

\* X25519: a key is its number in every byte.
PublicKey(sk) == [i \in 1..KeySize |-> (3 ^ sk) % 251]
X25519(sk, pk) ==
    [i \in 1..KeySize |-> FoldLeft(LAMBDA n, k : (n * pk[1]) % 251, 1, [k \in 1..sk |-> k])]

-----------------------------------------------------------------------------
(* TLV: a byte of type, two of length, the value. *)

TlvState == 1
TlvPublicKey == 2
TlvSessionId == 3
TlvAuthTag == 5
TlvSignature == 6
TlvSalt == 7
TlvIterations == 8
TlvErrorCode == 10
TlvCertificate == 12
TlvNonce == 13

Item(type, value) == [type |-> type, value |-> value]

TlvEncode(items) ==
    FlattenSeq([i \in DOMAIN items |->
        LET v == items[i].value
        IN  <<items[i].type, Len(v) \div 256, Len(v) % 256>> \o v])

\* The items, and whether the buffer ends with the last of them.
RECURSIVE TlvDecode(_)
Behind(item, rest) == [ok |-> rest.ok, items |-> <<item>> \o rest.items]

TlvDecode(d) ==
    IF Len(d) < 3 THEN [ok |-> d = <<>>, items |-> <<>>]
    ELSE LET end == 3 + 256 * d[2] + d[3]
         IN  IF end > Len(d) THEN [ok |-> FALSE, items |-> <<>>]
             ELSE Behind(Item(d[1], SubSeq(d, 4, end)),
                         TlvDecode(SubSeq(d, end + 1, Len(d))))

Has(items, type) == \E i \in DOMAIN items : items[i].type = type

\* fp_tlv_find: the first of a type.
Value(items, type) ==
    IF ~Has(items, type) THEN <<>>
    ELSE items[Min({i \in DOMAIN items : items[i].type = type})].value

-----------------------------------------------------------------------------
(* FairPlaySap. *)

\* reset() with the key pair sk.
NewSap(sk, pin) ==
    [state |-> "IDLE", sk |-> sk, pin |-> pin, session_id |-> [i \in 1..8 |-> i],
     session_key |-> <<>>]

Prefix(a, b, n) ==
    LET c == IF Len(b) > n THEN n ELSE Len(b) IN SubSeq(a, 1, c) = SubSeq(b, 1, c)

\* kdf_sap_key, with one byte for the label of the session key; the key of the
\* other label only checks an AUTH_TAG for the log.
KdfSapKey(shared, info) == H!HkdfExpand(H!HkdfExtract(<<>>, shared), info, KeySize)
Enc == <<69>>

Answer(f, items, need_pin, pin_ok) ==
    [rc |-> 0, sap |-> f, out |-> TlvEncode(items),
     need_pin |-> need_pin, pin_ok |-> pin_ok]
FailWith(f, items) ==
    [rc |-> -1, sap |-> [f EXCEPT !.state = "FAILED"], out |-> TlvEncode(items),
     need_pin |-> FALSE, pin_ok |-> FALSE]
Fail(f) == FailWith(f, <<>>)

M1(f) ==
    Answer([f EXCEPT !.state = "M1_SENT"],
           <<Item(TlvState, <<2>>), Item(TlvPublicKey, PublicKey(f.sk)),
             Item(TlvSessionId, f.session_id)>>, FALSE, FALSE)

\* g has the session key.
M3Keyed(g, salt) ==
    IF g.pin # <<>>
    THEN Answer([g EXCEPT !.state = "M3_DONE"],
                <<Item(TlvState, <<4>>), Item(TlvSalt, salt),
                  Item(TlvIterations, <<0, 0, 0, Iterations>>)>>, TRUE, FALSE)
    ELSE Answer([g EXCEPT !.state = "COMPLETE"],
                <<Item(TlvState, <<6>>),
                  Item(TlvAuthTag, SubSeq(H!Hmac(g.session_key, <<79, 75>>), 1, 16))>>,
                FALSE, TRUE)

\* A wrong AUTH_TAG is only logged.
M3(f, in, salt) ==
    LET pk == Value(in, TlvPublicKey)
    IN  IF Len(pk) # KeySize THEN Fail(f)
        ELSE M3Keyed([f EXCEPT !.session_key = KdfSapKey(X25519(f.sk, pk), Enc)], salt)

IterationsOf(it) == IF Len(it) >= 4 THEN 256 * it[3] + it[4] ELSE Iterations

M5(f, in) ==
    IF f.state # "M3_DONE" \/ f.pin = <<>>
       \/ ~(Has(in, TlvSalt) /\ Has(in, TlvIterations) /\ Has(in, TlvAuthTag))
    THEN Fail(f)
    ELSE IF ~Prefix(H!Pbkdf2(f.pin, Value(in, TlvSalt),
                             IterationsOf(Value(in, TlvIterations)), 32),
                    Value(in, TlvAuthTag), 16)
    THEN FailWith(f, <<Item(TlvState, <<7>>), Item(TlvErrorCode, <<1>>)>>)
    ELSE Answer([f EXCEPT !.state = "COMPLETE"],
                <<Item(TlvState, <<6>>),
                  Item(TlvAuthTag, SubSeq(H!Hmac(f.session_key, <<80>>), 1, 16))>>,
                FALSE, TRUE)

\* The first byte of the item STATE.
StateOf(items) ==
    LET v == Value(items, TlvState) IN IF v = <<>> THEN 0 ELSE v[1]

SetupAnswer(f, items, st, salt) ==
    CASE st = 1 -> M1(f)
      [] st = 3 -> M3(f, items, salt)
      [] st = 5 -> M5(f, items)
      [] OTHER  -> Fail(f)

SetupDecoded(f, d, salt) ==
    IF ~d.ok \/ ~Has(d.items, TlvState) THEN Fail(f)
    ELSE SetupAnswer(f, d.items, StateOf(d.items), salt)

HandlePairSetup(f, body, salt) ==
    IF body = <<>> THEN [Fail(f) EXCEPT !.sap = f]
    ELSE SetupDecoded(f, TlvDecode(body), salt)

\* V1 gives the certificate and a nonce, V3 is taken for complete: the
\* client's signature is not looked at.  An item STATE without a value is read
\* past its end in the code; here it is any other state.
VerifyAnswer(f, st, cert, nonce) ==
    CASE st = 1 -> Answer(f, <<Item(TlvState, <<2>>), Item(TlvCertificate, cert),
                               Item(TlvNonce, nonce)>>, FALSE, FALSE)
      [] st = 3 -> Answer([f EXCEPT !.state = "COMPLETE"],
                          <<Item(TlvState, <<4>>), Item(TlvSignature, cert)>>, FALSE, FALSE)
      [] OTHER  -> [Fail(f) EXCEPT !.sap = f]

VerifyDecoded(f, d, cert, nonce) ==
    VerifyAnswer(f, IF d.ok THEN StateOf(d.items) ELSE 0, cert, nonce)

HandlePairVerify(f, body, cert, nonce) == VerifyDecoded(f, TlvDecode(body), cert, nonce)
=============================================================================
