------------------------------ MODULE BallotBox ------------------------------
(***************************************************************************)
(* What the data directory of the voting server promises, whatever crashes *)
(* and failed writes happen: a ballot box.                                 *)
(*                                                                         *)
(* A voter is first marked as having voted ("spent"), and only then may    *)
(* one ballot of hers be counted.  Marks and counted ballots are never     *)
(* taken back, and nothing is marked or counted while the box is shut.     *)
(* A mark without a ballot is a vote lost in a crash: the voter may not    *)
(* vote again.  DataStore implements this specification.                   *)
(***************************************************************************)
EXTENDS FiniteSets

CONSTANTS Voters, Candidates, VoteIds

VARIABLES
  spent,    \* voters marked as having voted
  ballots,  \* the counted ballots
  open      \* is the box open?

vars == <<spent, ballots, open>>

CastBallot == [vote_id : VoteIds, voter : Voters, candidate_id : Candidates]

Init ==
  /\ spent = {}
  /\ ballots = {}
  /\ open = FALSE

(* Some voters are marked. *)
Mark ==
  /\ open
  /\ spent \subseteq spent'
  /\ spent' \subseteq Voters
  /\ UNCHANGED <<ballots, open>>

(* At most one ballot of a voter, and only of a marked one. *)
OneBallotEach(box, marked) ==
  /\ \A b \in box : b.voter \in marked
  /\ \A b1, b2 \in box : b1.voter = b2.voter => b1 = b2

(* Ballots of marked voters are put in. *)
Count ==
  /\ open
  /\ ballots \subseteq ballots'
  /\ ballots' \subseteq CastBallot
  /\ OneBallotEach(ballots', spent)
  /\ UNCHANGED <<spent, open>>

(* The box is opened or shut: by an administrator, or because the server   *)
(* stops or comes back.                                                    *)
SetOpen ==
  /\ open' \in BOOLEAN
  /\ UNCHANGED <<spent, ballots>>

Next == Mark \/ Count \/ SetOpen

Spec == Init /\ [][Next]_vars
=============================================================================
