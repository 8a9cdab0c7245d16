----------------------------- MODULE MCPlayback -----------------------------
(* Playback for TLC.                                                       *)
EXTENDS Playback
=============================================================================
