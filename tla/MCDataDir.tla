------------------------------ MODULE MCDataDir ------------------------------
(* Instances of DataDir for TLC. *)
EXTENDS DataDir, TLC

Symmetry == Permutations(Voters)
=============================================================================
