--------------------------- MODULE MCTenantAccess ---------------------------
(* Instances of TenantAccess: "ann" owns its home tenant "t1"; "bob" is a member
   there, and owns a home of its own only once it has asked for one. *)
EXTENDS TenantAccess, TLC

CONSTANTS ann, bob, t1, t2, g1

FirstRoles == {[t |-> t1, a |-> ann, role |-> "owner"], [t |-> t1, a |-> bob, role |-> "member"]}
FirstHomes == {[t |-> t1, a |-> ann]}
Subjects == (g1 :> bob)
TenantsOf == (g1 :> t1)

Symmetry == Permutations(Calls)
=============================================================================
