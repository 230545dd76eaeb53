------------------------------ MODULE DataStore ------------------------------
(***************************************************************************)
(* src/store.py: the state of an election in RAM, its three JSON files,    *)
(* and the threads that use it, one per client connection.                 *)
(*                                                                         *)
(* Every operation runs inside one critical section of the store's lock,   *)
(* but two things break its atomicity: each _write_json is a step of its   *)
(* own, which may fail (OSError) or never come (crash), and a status       *)
(* request keeps a reference to the voter's record and reads has_voted     *)
(* after it has left the lock.  _write_json itself is one step, because it *)
(* fills a temporary file and puts it in place with os.replace.            *)
(*                                                                         *)
(* The random vote_id is any id no ballot has.  Names, descriptions,       *)
(* passwords and the values of timestamps are left out.                    *)
(***************************************************************************)
EXTENDS Naturals, FiniteSets

CONSTANTS
  Voters,        \* the voter ids of voters.json
  VoterIds,      \* the voter ids a call may name
  Candidates,    \* the ids of candidates.json
  CandidateIds,  \* the candidate ids a call may name
  VoteIds,       \* what secrets.token_hex may return
  Threads,       \* the threads that serve connections
  NoThread,      \* the owner of a free lock
  MaxCrashes,    \* bound: crashes of the process
  MaxFailures    \* bound: writes that raise OSError

ASSUME ConstantsAssumption ==
  /\ Voters \subseteq VoterIds
  /\ Candidates \subseteq CandidateIds
  /\ NoThread \notin Threads
  /\ MaxCrashes \in Nat
  /\ MaxFailures \in Nat

VARIABLES
  phase,       \* "down", "secret" (creating server_secret) or "up"
  election,    \* _election
  hasVoted,    \* the voters of _voters_by_id with has_voted
  votes,       \* _votes
  secret,      \* _server_secret
  disk,        \* election.json, voters.json and votes.json
  secretFile,  \* the file server_secret
  lock,        \* the owner of _lock
  pc,          \* where each thread is
  vote,        \* the vote_id of the thread's record_vote, if any
  who,         \* the voter of the thread's status request, if any
  answer,      \* what the thread's call returned or raised
  known,       \* ghost: had who's vote been acknowledged at the start?
  castBy,      \* ghost: who cast each ballot; no file holds this
  acked,       \* ghost: the ballots whose receipt was returned
  refused,     \* ghost: the ballots whose record_vote raised OSError
  crashes,     \* crashes so far
  failures     \* failed writes so far

ram == <<election, hasVoted, votes, secret>>
files == <<disk, secretFile>>
call == <<vote, who, answer, known>>
history == <<castBy, acked, refused>>
counters == <<crashes, failures>>
vars == <<phase, ram, files, lock, pc, call, history, counters>>

Ballot == [vote_id : VoteIds, candidate_id : Candidates]

Ids(box) == {b.vote_id : b \in box}

(* A timestamp is modelled by whether it has been set. *)
Election ==
  [status : {"not_started", "open", "closed"},
   opened_at : BOOLEAN, closed_at : BOOLEAN]

Seed == [status |-> "not_started", opened_at |-> FALSE, closed_at |-> FALSE]

Writing == {"write_voters", "write_votes", "write_election"}

Answers ==
  {"none", "ok", "voted", "not_voted", "ELECTION_NOT_OPEN", "ELECTION_CLOSED",
   "CANDIDATE_NOT_FOUND", "UNAUTHENTICATED", "ALREADY_VOTED", "INTERNAL_ERROR"}

TypeOK ==
  /\ phase \in {"down", "secret", "up"}
  /\ election \in Election
  /\ hasVoted \subseteq Voters
  /\ votes \subseteq Ballot
  /\ secret \in {"absent", "empty", "written"}
  /\ disk \in [election : Election, voters : SUBSET Voters, votes : SUBSET Ballot]
  /\ secretFile \in {"absent", "empty", "written"}
  /\ lock \in Threads \cup {NoThread}
  /\ pc \in [Threads -> {"idle", "get_election", "read_flag", "reply"} \cup Writing]
  /\ vote \in [Threads -> SUBSET VoteIds]
  /\ who \in [Threads -> SUBSET VoterIds]
  /\ answer \in [Threads -> Answers]
  /\ known \in [Threads -> BOOLEAN]
  /\ castBy \in [VoteIds -> Voters \cup {NoThread}]
  /\ acked \subseteq VoteIds
  /\ refused \subseteq VoteIds
  /\ crashes \in 0..MaxCrashes
  /\ failures \in 0..MaxFailures

(* The program is started on the files of tools/seed_data.py; a data       *)
(* directory made by hand may lack server_secret.                          *)
Init ==
  /\ phase = "down"
  /\ election = Seed
  /\ hasVoted = {}
  /\ votes = {}
  /\ secret = "absent"
  /\ disk = [election |-> Seed, voters |-> {}, votes |-> {}]
  /\ secretFile \in {"absent", "written"}
  /\ lock = NoThread
  /\ pc = [t \in Threads |-> "idle"]
  /\ vote = [t \in Threads |-> {}]
  /\ who = [t \in Threads |-> {}]
  /\ answer = [t \in Threads |-> "none"]
  /\ known = [t \in Threads |-> FALSE]
  /\ castBy = [i \in VoteIds |-> NoThread]
  /\ acked = {}
  /\ refused = {}
  /\ crashes = 0
  /\ failures = 0
-----------------------------------------------------------------------------
(***************************************************************************)
(* Start and crash.                                                        *)
(***************************************************************************)
MustCreateSecretMutant == TRUE
MustCreateSecret == secretFile = "absent"

LoadedFlagsMutant == {}
LoadedFlags == disk.voters

LoadedVotesMutant == {}
LoadedVotes == disk.votes

(* The files are read; the secret is read too, or its file is opened for   *)
(* writing, which creates it empty.                                        *)
Load ==
  /\ phase = "down"
  /\ election' = disk.election
  /\ hasVoted' = LoadedFlags
  /\ votes' = LoadedVotes
  /\ IF MustCreateSecret
     THEN /\ phase' = "secret"
          /\ secretFile' = "empty"
          /\ UNCHANGED secret
     ELSE /\ phase' = "up"
          /\ secret' = secretFile
          /\ UNCHANGED secretFile
  /\ UNCHANGED <<disk, lock, pc, call, history, counters>>

WriteSecret ==
  /\ phase = "secret"
  /\ phase' = "up"
  /\ secretFile' = "written"
  /\ secret' = "written"
  /\ UNCHANGED <<election, hasVoted, votes, disk, lock, pc, call, history, counters>>

(* The process dies, or exits while its daemon threads are still at work.  *)
(* RAM and the calls in progress are gone, the files stay as they are.     *)
Crash ==
  /\ phase # "down"
  /\ crashes < MaxCrashes
  /\ crashes' = crashes + 1
  /\ phase' = "down"
  /\ election' = Seed
  /\ hasVoted' = {}
  /\ votes' = {}
  /\ secret' = "absent"
  /\ lock' = NoThread
  /\ pc' = [t \in Threads |-> "idle"]
  /\ vote' = [t \in Threads |-> {}]
  /\ who' = [t \in Threads |-> {}]
  /\ answer' = [t \in Threads |-> "none"]
  /\ known' = [t \in Threads |-> FALSE]
  /\ UNCHANGED <<files, history, failures>>
-----------------------------------------------------------------------------
(***************************************************************************)
(* record_vote and set_election_status.                                    *)
(***************************************************************************)
LockIsFreeMutant == TRUE
LockIsFree == lock = NoThread

(* A thread between two requests enters the lock. *)
Enter(t) ==
  /\ phase = "up"
  /\ pc[t] = "idle"
  /\ LockIsFree

Reply(t, a) ==
  /\ pc' = [pc EXCEPT ![t] = "reply"]
  /\ answer' = [answer EXCEPT ![t] = a]

AlreadyVotedMutant(v) == v \in disk.voters
AlreadyVoted(v) == v \in hasVoted

RefusalMutant(v, c) ==
  IF election.status = "closed" THEN "ELECTION_CLOSED"
  ELSE IF election.status # "open" THEN "ELECTION_NOT_OPEN"
  ELSE IF c \notin Candidates THEN "CANDIDATE_NOT_FOUND"
  ELSE IF AlreadyVoted(v) THEN "ALREADY_VOTED"
  ELSE "none"

(* The exception record_vote raises on its checks, in their order. *)
Refusal(v, c) ==
  IF election.status = "closed" THEN "ELECTION_CLOSED"
  ELSE IF election.status # "open" THEN "ELECTION_NOT_OPEN"
  ELSE IF c \notin Candidates THEN "CANDIDATE_NOT_FOUND"
  ELSE IF v \notin Voters THEN "UNAUTHENTICATED"
  ELSE IF AlreadyVoted(v) THEN "ALREADY_VOTED"
  ELSE "none"

RefuseVote(t, v, c) ==
  /\ Enter(t)
  /\ Refusal(v, c) # "none"
  /\ Reply(t, Refusal(v, c))
  /\ UNCHANGED <<phase, ram, files, lock, vote, who, known, history, counters>>

NextWriteSwapped(p) ==
  CASE p = "vote" -> "write_votes"
    [] p = "write_votes" -> "write_voters"
    [] p = "status" -> "write_election"
    [] p \in {"write_voters", "write_election"} -> "reply"

NextWriteNoVotes(p) ==
  CASE p = "vote" -> "write_voters"
    [] p = "status" -> "write_election"
    [] p \in {"write_voters", "write_election"} -> "reply"

NextWriteNoElection(p) ==
  CASE p = "vote" -> "write_voters"
    [] p = "write_voters" -> "write_votes"
    [] p \in {"status", "write_votes"} -> "reply"

(* The write that comes next; "reply" when there is none left. *)
NextWrite(p) ==
  CASE p = "vote" -> "write_voters"
    [] p = "write_voters" -> "write_votes"
    [] p = "status" -> "write_election"
    [] p \in {"write_votes", "write_election"} -> "reply"

(* record_vote up to its first write: the ballot and the flag are in RAM.  *)
AcceptVote(t, v, c) ==
  /\ Enter(t)
  /\ Refusal(v, c) = "none"
  /\ \E i \in VoteIds \ Ids(votes) :
       /\ votes' = votes \cup {[vote_id |-> i, candidate_id |-> c]}
       /\ vote' = [vote EXCEPT ![t] = {i}]
       /\ castBy' = [castBy EXCEPT ![i] = v]
  /\ hasVoted' = hasVoted \cup {v}
  /\ lock' = t
  /\ pc' = [pc EXCEPT ![t] = NextWrite("vote")]
  /\ UNCHANGED <<phase, election, secret, files, who, answer, known, acked, refused, counters>>

WithStatusMutant(e, s) ==
  [status |-> s, opened_at |-> e.opened_at, closed_at |-> e.closed_at \/ s = "closed"]

WithStatus(e, s) ==
  [status |-> s,
   opened_at |-> e.opened_at \/ s = "open",
   closed_at |-> e.closed_at \/ s = "closed"]

(* set_election_status up to its write. *)
SetElectionStatus(t, s) ==
  /\ Enter(t)
  /\ election' = WithStatus(election, s)
  /\ lock' = t
  /\ pc' = [pc EXCEPT ![t] = NextWrite("status")]
  /\ UNCHANGED <<phase, hasVoted, votes, secret, files, call, history, counters>>

(* After a write the thread goes to its next one or leaves with a result.  *)
Advance(t) ==
  IF NextWrite(pc[t]) = "reply"
  THEN Reply(t, "ok") /\ lock' = NoThread
  ELSE /\ pc' = [pc EXCEPT ![t] = NextWrite(pc[t])]
       /\ UNCHANGED <<answer, lock>>

FlushVoters(t) ==
  /\ pc[t] = "write_voters"
  /\ disk' = [disk EXCEPT !.voters = hasVoted]
  /\ Advance(t)
  /\ UNCHANGED <<phase, ram, secretFile, vote, who, known, history, counters>>

FlushVotes(t) ==
  /\ pc[t] = "write_votes"
  /\ disk' = [disk EXCEPT !.votes = votes]
  /\ Advance(t)
  /\ UNCHANGED <<phase, ram, secretFile, vote, who, known, history, counters>>

FlushElection(t) ==
  /\ pc[t] = "write_election"
  /\ disk' = [disk EXCEPT !.election = election]
  /\ Advance(t)
  /\ UNCHANGED <<phase, ram, secretFile, vote, who, known, history, counters>>

(* _write_json raises: the file keeps its contents, the call is abandoned, *)
(* the lock is released, and RAM stays as the call left it.                *)
WriteFails(t) ==
  /\ pc[t] \in Writing
  /\ failures < MaxFailures
  /\ failures' = failures + 1
  /\ refused' = refused \cup vote[t]
  /\ Reply(t, "INTERNAL_ERROR")
  /\ lock' = NoThread
  /\ UNCHANGED <<phase, ram, files, vote, who, known, castBy, acked, crashes>>

(* The result reaches the client and the thread reads its next request.    *)
Respond(t) ==
  /\ pc[t] = "reply"
  /\ pc' = [pc EXCEPT ![t] = "idle"]
  /\ acked' = IF answer[t] = "ok" THEN acked \cup vote[t] ELSE acked
  /\ vote' = [vote EXCEPT ![t] = {}]
  /\ who' = [who EXCEPT ![t] = {}]
  /\ answer' = [answer EXCEPT ![t] = "none"]
  /\ known' = [known EXCEPT ![t] = FALSE]
  /\ UNCHANGED <<phase, ram, files, lock, castBy, refused, counters>>
-----------------------------------------------------------------------------
(***************************************************************************)
(* Status requests: find_voter and get_election each take the lock and     *)
(* release it; has_voted is read from the record after that.               *)
(***************************************************************************)
FindVoter(t, v) ==
  /\ Enter(t)
  /\ who' = [who EXCEPT ![t] = {v}]
  /\ known' = [known EXCEPT ![t] = \E i \in acked : castBy[i] = v]
  /\ pc' = [pc EXCEPT ![t] = "get_election"]
  /\ UNCHANGED <<phase, ram, files, lock, vote, answer, history, counters>>

GetElection(t) ==
  /\ pc[t] = "get_election"
  /\ LockIsFree
  /\ pc' = [pc EXCEPT ![t] = "read_flag"]
  /\ UNCHANGED <<phase, ram, files, lock, call, history, counters>>

FlagOf(v) == IF v \in hasVoted THEN "voted" ELSE "not_voted"

ReadFlag(t) ==
  /\ pc[t] = "read_flag"
  /\ \E v \in who[t] : Reply(t, FlagOf(v))
  /\ UNCHANGED <<phase, ram, files, lock, vote, who, known, history, counters>>
-----------------------------------------------------------------------------
Step(t) ==
  \/ FlushVoters(t)
  \/ FlushVotes(t)
  \/ FlushElection(t)
  \/ WriteFails(t)

Next ==
  \/ Load
  \/ WriteSecret
  \/ Crash
  \/ \E t \in Threads :
       \/ \E v \in VoterIds, c \in CandidateIds : RefuseVote(t, v, c) \/ AcceptVote(t, v, c)
       \/ \E s \in {"open", "closed"} : SetElectionStatus(t, s)
       \/ Step(t)
       \/ Respond(t)
       \/ \E v \in VoterIds : FindVoter(t, v)
       \/ GetElection(t)
       \/ ReadFlag(t)

Spec == Init /\ [][Next]_vars
-----------------------------------------------------------------------------
(***************************************************************************)
(* Properties.                                                             *)
(***************************************************************************)

(* Every ballot of a box was cast by a voter marked as having voted, and   *)
(* no voter cast two of them.                                              *)
OneEach(box, marked) ==
  /\ \A b \in box : castBy[b.vote_id] \in marked
  /\ \A b1, b2 \in box : castBy[b1.vote_id] = castBy[b2.vote_id] => b1 = b2

(* No voter has two ballots, in RAM or in the files, whatever writes fail  *)
(* and whenever the server dies and comes back; and every ballot's voter   *)
(* is marked next to it (record_vote's checks and its order of writes).    *)
OneBallotPerVoter ==
  /\ OneEach(disk.votes, disk.voters)
  /\ phase # "down" => OneEach(votes, hasVoted)

(* A ballot whose receipt reached the voter is in votes.json from then on, *)
(* across crashes, restarts and later failed writes.                       *)
AckedVotesSurvive == acked \subseteq Ids(disk.votes)

(* Marked voters of whom there is no ballot: they can never vote again.    *)
Lost == {v \in hasVoted : \A b \in votes : castBy[b.vote_id] # v}

(* Each vote that is lost is the cost of a crash or of a failed write: the *)
(* order of the two writes of record_vote loses nothing else.              *)
LossesAccountedFor == phase = "up" => Cardinality(Lost) <= crashes + failures

(* A status request that starts after the voter's vote was acknowledged    *)
(* answers has_voted, though it reads the flag outside the lock and the    *)
(* server may have restarted since the vote.                               *)
ReadYourVote ==
  \A t \in Threads : pc[t] = "reply" /\ known[t] => answer[t] = "voted"

(* Without failed writes, RAM and election.json differ only while          *)
(* set_election_status is at work: a status an administrator was told of   *)
(* is the status after a restart.                                          *)
ElectionSettled ==
  failures = 0 /\ phase = "up" /\ (\A t \in Threads : pc[t] # "write_election")
    => disk.election = election

(* Without failed writes, the files never hold ballots of an election      *)
(* which, by its own file, was never opened: the three files are written   *)
(* apart, but a crash leaves no such combination of them.                  *)
OpenedBeforeBallots ==
  failures = 0 /\ disk.votes # {} => disk.election.opened_at

(* Once a receipt was given, the file with the secret it was made from is  *)
(* never changed, so the receipt can be checked after any restart.         *)
SecretKept == [][acked # {} => secretFile' = secretFile]_vars
-----------------------------------------------------------------------------
(* The parts of the inductive invariant.  Exactly the thread at a write is *)
(* inside the lock, and a server that is not up has no calls in progress;  *)
CriticalSection ==
  /\ \A t \in Threads : pc[t] \in Writing <=> lock = t
  /\ phase # "up" => \A t \in Threads : pc[t] = "idle"

(* RAM is never behind the files, so no write takes anything back;         *)
RamAhead ==
  phase # "down" => disk.voters \subseteq hasVoted /\ disk.votes \subseteq votes

(* a vote being written was accepted by an open election that is still     *)
(* open, and its flag is in voters.json before votes.json is written;      *)
VoteInProgress ==
  \A t \in Threads :
    /\ pc[t] \in {"write_voters", "write_votes"} =>
         election.status = "open" /\ vote[t] \subseteq Ids(votes)
    /\ pc[t] \in {"idle", "get_election", "read_flag", "write_election"} => vote[t] = {}
    /\ pc[t] = "write_votes" => disk.voters = hasVoted
    /\ pc[t] = "reply" /\ answer[t] = "ok" => vote[t] \subseteq Ids(disk.votes)

(* a status request that owes the answer "voted" finds the flag set.       *)
StatusInProgress ==
  \A t \in Threads :
    /\ pc[t] \in Writing \cup {"idle"} => ~known[t]
    /\ known[t] => who[t] \subseteq hasVoted

(* The secret's file is in place before the first call is served.          *)
SecretInPlace ==
  /\ phase = "up" => secretFile # "absent"
  /\ acked # {} => secretFile # "absent" /\ phase # "secret"

(* What record_vote keeps true at every step, in every interleaving.       *)
CoreInv ==
  /\ TypeOK
  /\ CriticalSection
  /\ OneBallotPerVoter
  /\ RamAhead
  /\ VoteInProgress
  /\ AckedVotesSurvive
  /\ StatusInProgress
  /\ ReadYourVote
  /\ SecretInPlace

(* The marked voters with no ballot in votes.json: the next crash may take *)
(* each of their votes.                                                    *)
Owed ==
  {v \in hasVoted \cup disk.voters : \A b \in disk.votes : castBy[b.vote_id] # v}

Recording == \E t \in Threads : pc[t] \in {"write_voters", "write_votes"}

(* Each vote that a crash would take, but for the one being recorded, is   *)
(* of a call whose write failed or of one an earlier crash cut off.        *)
DebtsCovered ==
  /\ IsFiniteSet(hasVoted) /\ IsFiniteSet(disk.voters)
  /\ Cardinality(Lost) <= crashes + failures
  /\ Cardinality(Owed) <= crashes + failures + (IF Recording THEN 1 ELSE 0)

(* The election's own file.  Without failed writes it is behind RAM only   *)
(* while a thread writes it, and whoever has ballots has an election that  *)
(* was opened.                                                             *)
Settled == phase # "down" /\ (\A t \in Threads : pc[t] # "write_election") => disk.election = election

FileOpened == disk.votes # {} \/ disk.election.status = "open" => disk.election.opened_at

RamOpened ==
  phase # "down" =>
    (votes # {} \/ election.status = "open" \/ disk.election.opened_at => election.opened_at)

ElectionInv == failures = 0 => Settled /\ FileOpened /\ RamOpened

(* Without failed writes, RAM is ahead of the files by the vote being      *)
(* recorded and by nothing else.                                           *)
AheadByOne ==
  failures = 0 =>
    /\ phase # "down" /\ ~Recording => disk.voters = hasVoted /\ disk.votes = votes
    /\ \A t \in Threads : pc[t] \in {"write_voters", "write_votes"} =>
         \E i \in VoteIds, c \in Candidates :
           /\ vote[t] = {i} /\ castBy[i] \in hasVoted
           /\ votes = disk.votes \cup {[vote_id |-> i, candidate_id |-> c]}
           /\ pc[t] = "write_voters" => disk.voters = hasVoted \ {castBy[i]}
    /\ \A t \in Threads : pc[t] = "write_election" => election.status \in {"open", "closed"}

(* The inductive invariant.                                                *)
IInv == CoreInv /\ DebtsCovered /\ ElectionInv /\ AheadByOne
-----------------------------------------------------------------------------
(* The files seen as a ballot box, which is open while a server is up with *)
(* an open election.                                                       *)
BoxBallots ==
  {[vote_id |-> b.vote_id, voter |-> castBy[b.vote_id], candidate_id |-> b.candidate_id] :
     b \in disk.votes}

Box == INSTANCE BallotBox WITH
  spent <- disk.voters,
  ballots <- BoxBallots,
  open <- (election.status = "open")

(* The store implements the ballot box: a voter is marked before her       *)
(* ballot is in, nothing is taken back, and nothing changes while the      *)
(* election is not open.                                                   *)
BoxSpec == Box!Spec
-----------------------------------------------------------------------------
(* The store as its callers see it.  The lock hides a call until its last  *)
(* write: a vote counts from the moment votes.json is replaced, a status   *)
(* when election.json is, and the mark of a vote that is being recorded    *)
(* shows only if the process dies after it was written.                    *)
InProgress ==
  {castBy[i] : i \in UNION {vote[t] : t \in {u \in Threads : pc[u] \in {"write_voters", "write_votes"}}}}

Marked == (IF phase = "down" THEN disk.voters ELSE hasVoted) \ InProgress

Atomic == INSTANCE AtomicStore WITH
  status <- disk.election.status,
  hasVoted <- Marked,
  ballots <- {<<castBy[b.vote_id], b.candidate_id>> : b \in disk.votes}

(* As long as no write has failed, each call takes effect in one step, in  *)
(* every interleaving, and a crash cuts off one vote at the most: what     *)
(* store.py:121-124 claims of record_vote.                                 *)
AtomicSpec == Atomic!Init /\ [][failures' = 0 => Atomic!Next]_(Atomic!vars)

(* A call that enters the lock decides on what the atomic store holds then. *)
DecidesOnStore ==
  failures = 0 /\ phase = "up" /\ LockIsFree =>
    \A v \in VoterIds, c \in CandidateIds : (Refusal(v, c) = "none") <=> Atomic!Accepts(v, c)
-----------------------------------------------------------------------------
(* What comments in the code say, and the code does not do.                *)

(* store.py:121, "records a vote atomically": an error means no vote.      *)
ErrorMeansNotRecorded == refused \cap Ids(votes) = {}
=============================================================================
