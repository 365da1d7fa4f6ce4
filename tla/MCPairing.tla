----------------------------- MODULE MCPairing ------------------------------
(* Instances of Pairing. *)
EXTENDS Pairing, TLC
=============================================================================
