-------------------------- MODULE MCConsoleSession --------------------------
(* Instances of ConsoleSession. *)
EXTENDS ConsoleSession, TLC

Symmetry == Permutations(Users) \cup Permutations(Browsers) \cup Permutations(Sessions)
              \cup Permutations(Handoffs) \cup Permutations(Consoles) \cup Permutations(Requests)
=============================================================================
