------------------------------- MODULE MCMdns -------------------------------
(* An instance of Mdns for TLC.                                            *)
EXTENDS Mdns
=============================================================================
