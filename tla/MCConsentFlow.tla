--------------------------- MODULE MCConsentFlow ----------------------------
(* Instances of ConsentFlow. *)
EXTENDS ConsentFlow, TLC

Symmetry == Permutations(Grants) \cup Permutations(Interactions)
=============================================================================
