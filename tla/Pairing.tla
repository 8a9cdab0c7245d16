------------------------------- MODULE Pairing -------------------------------
(***************************************************************************)
(* core/airplay_pairing.cpp: the state one connection has in a pairing and *)
(* what pair-setup and pair-verify do with it.                             *)
(*                                                                         *)
(* Keys are numbers, 0 is none.  The cryptography is that of its laws: both*)
(* sides of an exchange get the same secret; what was masked at one place  *)
(* of a key stream reads as itself only with the same secret at the same   *)
(* place; a signature is who signed and what.  That the code computes      *)
(* functions with these laws is in Curve, Ciphers and Wire.                *)
(***************************************************************************)
EXTENDS Integers

Shared(a, b) == {a, b}

Signed(by, first, second) == [by |-> by, first |-> first, second |-> second]
Garbage == Signed(0, 0, 0)

\* Ctr over 64 bytes, at the first or the second round of the stream.
Masked(secret, round, plain) == [secret |-> secret, round |-> round, plain |-> plain]
Unmasked(secret, round, m) ==
    IF m.secret = secret /\ m.round = round THEN m.plain ELSE Garbage

-----------------------------------------------------------------------------
\* VerifyState; the default that operator[] makes is as good as no entry.
NewVerify == [ours |-> 0, theirs |-> 0, ed |-> 0, secret |-> {}, stage |-> 0,
              setup_done |-> FALSE]

\* What a client sends to /pair-verify: M1 its two keys, M2 its signature.
M1Body(key, ed) == [step |-> 1, key |-> key, ed |-> ed]
M2Body(sig)     == [step |-> 0, sig |-> sig]

\* M1: new keys for this round, and the answer: our key and our signature.
VerifyM1(st, body, ours) ==
    [st EXCEPT !.ours = ours, !.theirs = body.key, !.ed = body.ed,
               !.secret = Shared(ours, body.key), !.stage = 1]

M1Answer(identity, st) ==
    [key |-> st.ours,
     sig |-> Masked(st.secret, 1, Signed(identity, st.ours, st.theirs))]

\* Variant: the client's signature is read where ours was masked.
SignatureHoldsUnskipped(st, body) ==
    Unmasked(st.secret, 1, body.sig) = Signed(st.ed, st.theirs, st.ours)

\* M2: the first 64 bytes of the stream were ours, the client's follow them;
\* it signs the keys in the other order.
SignatureHolds(st, body) ==
    Unmasked(st.secret, 2, body.sig) = Signed(st.ed, st.theirs, st.ours)

\* Variant: a signature that does not hold is let through.
VerifyM2Unchecked(st, body) == [st EXCEPT !.stage = 2, !.setup_done = TRUE]

VerifyM2(st, body) ==
    IF SignatureHolds(st, body) THEN [st EXCEPT !.stage = 2, !.setup_done = TRUE] ELSE st

\* Without a PIN, once a connection is set up every pair-verify is answered
\* with nothing, and so is an M2 that no M1 came before.
Waved(st, body) == st.setup_done \/ (body.step = 0 /\ st.stage # 1)

Verify(st, body, ours) ==
    CASE Waved(st, body) -> st
      [] ~Waved(st, body) /\ body.step = 1 -> VerifyM1(st, body, ours)
      [] ~Waved(st, body) /\ body.step = 0 -> VerifyM2(st, body)

\* pin_ok: the client is let pass.
PinOk(st, body) ==
    Waved(st, body) \/ (body.step = 0 /\ SignatureHolds(st, body))

\* It puts the address on the list of the paired ones.
Pairs(st, body) == ~Waved(st, body) /\ body.step = 0 /\ SignatureHolds(st, body)
=============================================================================
