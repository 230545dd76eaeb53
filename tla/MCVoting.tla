------------------------------ MODULE MCVoting ------------------------------
(* Instances of Voting for TLC. *)
EXTENDS Voting, TLC

CONSTANTS c1, c2, c9

(* Ballots of earlier voters: thirds of what is listed, and a fourth for a *)
(* candidate who was taken off the list.                                   *)
MCOldBoxes == {[i \in CandidateIds |-> CASE i = c1 -> 2 [] i = c2 -> 1 [] i = c9 -> 1]}

Symmetry == Permutations(Conns) \cup Permutations(Voters)
=============================================================================
