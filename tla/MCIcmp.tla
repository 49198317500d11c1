------------------------------- MODULE MCIcmp -------------------------------
(***************************************************************************)
(* An instance of Icmp for TLC.                                            *)
(***************************************************************************)
EXTENDS Icmp, TLC
=============================================================================
