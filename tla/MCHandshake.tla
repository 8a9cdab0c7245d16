----------------------------- MODULE MCHandshake -----------------------------
(* Instances of Handshake for TLC: two connections, of one device or two.  *)
EXTENDS Handshake, TLC

Swap == Permutations(Conns)
=============================================================================
