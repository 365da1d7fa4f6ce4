------------------------ MODULE MCDeletionLifecycle ------------------------
(* Grant 1 is the first owner's, the others are the second owner's; all are *)
(* for one site, which the first owner pairs.                               *)
EXTENDS DeletionLifecycle, TLC

CONSTANTS a1, a2, s1

MCSubjectOf == [g \in Grants |-> IF g = 1 THEN a1 ELSE a2]
MCSiteOf    == [g \in Grants |-> s1]
MCInitiator == [s \in Sites |-> a1]

Symmetry == Permutations(Jobs)
=============================================================================
