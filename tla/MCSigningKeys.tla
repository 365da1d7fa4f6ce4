--------------------------- MODULE MCSigningKeys ----------------------------
(* Instances of SigningKeys. *)
EXTENDS SigningKeys, TLC
=============================================================================
