------------------------ MODULE MCRevocationDelivery ------------------------
(* Two events of one site and, with a third id, one of another site.        *)
EXTENDS RevocationDelivery, TLC

MCSiteOf == [e \in Events |-> IF e = 2 /\ LastId > 2 THEN "other" ELSE "site"]

Symmetry == Permutations(Workers)
=============================================================================
