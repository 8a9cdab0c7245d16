---------------------------- MODULE MCSession ----------------------------
(* Instances of Session for TLC.                                           *)
EXTENDS Session

(* The behaviours of PushingSpec of a client that streams no video: every  *)
(* one of them is a behaviour of PushingSpec, on a third of the states.    *)
AudioSpec ==
    /\ Init /\ [][Next /\ ~videoPort' /\ ~videoCfg']_vars
    /\ Progress /\ WF_vars(FrameCame)
=============================================================================
