----------------------------- MODULE AtomicStore -----------------------------
(***************************************************************************)
(* The store as its callers take it (src/store.py:121, "records a vote     *)
(* atomically"): each call is one step, which is durable when it is done.  *)
(* A crash may cut off the one vote that is being recorded: its voter is   *)
(* marked and has no ballot.                                               *)
(*                                                                         *)
(* DataStore implements this specification as long as no write fails, and  *)
(* Voting, whose handlers call the store in single steps, implements it.   *)
(***************************************************************************)
EXTENDS Naturals

CONSTANTS Voters, Candidates

VARIABLES
  status,    \* the election's status
  hasVoted,  \* the voters marked
  ballots,   \* who voted for whom: pairs that no file holds
  crashes    \* how many crashes there were

vars == <<status, hasVoted, ballots, crashes>>

(* The election has yet to begin, or was opened in an earlier run. *)
Init ==
  /\ status \in {"not_started", "open"}
  /\ hasVoted = {}
  /\ ballots = {}
  /\ crashes = 0

(* record_vote accepts the vote of v for c. *)
Accepts(v, c) ==
  /\ status = "open"
  /\ c \in Candidates
  /\ v \in Voters \ hasVoted

RecordVote(v, c) ==
  /\ Accepts(v, c)
  /\ hasVoted' = hasVoted \cup {v}
  /\ ballots' = ballots \cup {<<v, c>>}
  /\ UNCHANGED <<status, crashes>>

SetElectionStatus(s) ==
  /\ status' = s
  /\ UNCHANGED <<hasVoted, ballots, crashes>>

(* The process dies, with a vote in progress or with none. *)
Crash ==
  /\ crashes' = crashes + 1
  /\ \/ UNCHANGED hasVoted
     \/ \E v \in Voters, c \in Candidates : Accepts(v, c) /\ hasVoted' = hasVoted \cup {v}
  /\ UNCHANGED <<status, ballots>>

Next ==
  \/ \E v \in Voters, c \in Candidates : RecordVote(v, c)
  \/ \E s \in {"open", "closed"} : SetElectionStatus(s)
  \/ Crash

Spec == Init /\ [][Next]_vars
=============================================================================
