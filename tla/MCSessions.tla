----------------------------- MODULE MCSessions -----------------------------
(* Instances of Sessions for TLC. *)
EXTENDS Sessions, TLC

Symmetry == Permutations(Threads) \cup Permutations(Tokens) \cup Permutations(Roles)
=============================================================================
