-------------------------- MODULE MCTokenIssuance --------------------------
(* Requests, codes and tokens are interchangeable. *)
EXTENDS TokenIssuance, TLC

Symmetry == Permutations(Requests) \cup Permutations(Codes) \cup Permutations(Tokens)
=============================================================================
