------------------------- MODULE MCGrantRevocation -------------------------
(***************************************************************************)
(* Instances of GrantRevocation.  All grants are for site s1: g3 is        *)
(* another party's, the others are successive consents of the same party.  *)
(* A second site, where a configuration has one, only hears of keys.       *)
(***************************************************************************)
EXTENDS GrantRevocation, TLC

CONSTANTS s1, g3, p1, p2

MCSiteOf  == [g \in Grants |-> s1]
MCPartyOf == [g \in Grants |-> IF g = g3 THEN p2 ELSE p1]

Symmetry == Permutations(Sessions) \cup Permutations(Grants \ {g3})
=============================================================================
