----------------------------- MODULE MCDataStore -----------------------------
(* Instances of DataStore for TLC. *)
EXTENDS DataStore, TLC

(* Threads, vote ids and voters are interchangeable within their sets; the *)
(* ids no file knows stay apart.                                           *)
Symmetry == Permutations(Threads) \cup Permutations(VoteIds) \cup Permutations(Voters)
=============================================================================
