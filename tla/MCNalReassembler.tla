------------------------ MODULE MCNalReassembler ------------------------
(* Instances of NalReassembler for TLC.                                    *)
EXTENDS NalReassembler
=========================================================================
