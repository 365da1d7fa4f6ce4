--------------------------- MODULE MCAccountLogin ---------------------------
(* Instances of AccountLogin. *)
EXTENDS AccountLogin, TLC

Symmetry == Permutations(Requests) \cup Permutations(Sessions) \cup Permutations(Txs)
              \cup Permutations(Users)
=============================================================================
