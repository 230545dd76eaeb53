------------------------------- MODULE Voting -------------------------------
(***************************************************************************)
(* Whole requests: the command-line client (tools/cli_client.py) with its  *)
(* saved token, the connection's thread that dispatches a request          *)
(* (connection.py), require_role (handlers/__init__.py), the handlers, the *)
(* session table and the store.                                            *)
(*                                                                         *)
(* A client waits ten seconds, the server may take longer: it goes on with *)
(* a request whose client has given up, while the client asks again on a   *)
(* new connection.  The store's operations are single steps here, durable  *)
(* when they are done (AtomicStore, which DataStore implements); a crash   *)
(* in the middle of a vote may leave its mark alone.  Logins are with the  *)
(* right password, and requests are well formed but for the candidate's id *)
(* (RateLimiter and Framing have the others).  Requests that only read are *)
(* left out, but for what administrators are told of the ballots (Tally);  *)
(* DataStore has the voter's status request, LivePush the live results.    *)
(***************************************************************************)
EXTENDS Tally

CONSTANTS
  Voters,
  Admins,
  Conns,        \* the connections a server may have at a time
  NoOne,
  Choices,      \* the candidate ids that requests name
  OldBoxes,     \* the ballots votes.json may hold of earlier voters
  MaxLogins,    \* bound: tokens handed out; they are numbered
  MaxRequests,  \* bound: requests the clients send, beside logins and logouts
  MaxCrashes    \* bound: crashes of the server

Users == Voters \cup Admins
Tokens == 1..MaxLogins

ASSUME VotingAssumption ==
  /\ Voters \cap Admins = {}
  /\ NoOne \notin Users \cup Nat \cup CandidateIds
  /\ MaxLogins \in Nat
  /\ Choices \subseteq CandidateIds
  /\ OldBoxes \subseteq [CandidateIds -> Nat]
  /\ MaxRequests \in Nat
  /\ MaxCrashes \in Nat

VARIABLES
  status,    \* the election's status
  hasVoted,  \* the voters marked
  votes,     \* the ballots, which name no voter
  session,   \* the session table: whose each token is
  at,        \* where each connection's thread is
  owner,     \* the client at the other end, if it has not given up
  req,       \* the request being served
  ctx,       \* ctx.session of each connection
  answer,    \* the answer's code
  saved,     \* .cli_token of each client
  issued,    \* how many tokens have been handed out
  ballotOf,  \* ghost: the candidate each voter's ballot is for
  old,       \* ghost: the ballots of earlier voters, from before the start
  receipts,  \* ghost: the voters who hold a receipt
  informed,  \* ghost: the voters who were told that they have voted
  clean,     \* ghost: the requests to close that no request to open overlaps
  final,     \* ghost: was such a request confirmed, and no opening asked since?
  requests,  \* how many requests were sent
  crashes    \* how many crashes there were

store == <<status, hasVoted, votes, ballotOf, old>>
sessions == <<session, issued>>
conn == <<at, owner, req, ctx, answer>>
client == <<saved, receipts, informed>>
closing == <<clean, final>>
counters == <<requests, crashes>>
vars == <<store, sessions, conn, client, closing, counters>>

ForAdmins == {"OPEN_ELECTION", "CLOSE_ELECTION"}
Types == {"CAST_VOTE"} \cup ForAdmins

Codes ==
  {"ok", "UNAUTHENTICATED", "FORBIDDEN",
   "ELECTION_NOT_OPEN", "ELECTION_CLOSED", "CANDIDATE_NOT_FOUND", "ALREADY_VOTED"}

Request == [user : Users, type : Types, token : Tokens, choice : Choices \cup {NoOne}]

NoRequest == [user |-> NoOne, type |-> "none", token |-> NoOne, choice |-> NoOne]

TypeOK ==
  /\ status \in {"not_started", "open", "closed"}
  /\ hasVoted \subseteq Voters
  /\ votes \in [CandidateIds -> Nat] /\ old \in [CandidateIds -> Nat]
  /\ session \in [Tokens -> Users \cup {NoOne}]
  /\ at \in [Conns -> {"free", "read", "request", "run", "reply"}]
  /\ owner \in [Conns -> Users \cup {NoOne}]
  /\ req \in [Conns -> Request \cup {NoRequest}]
  /\ ctx \in [Conns -> Users \cup {NoOne}]
  /\ answer \in [Conns -> Codes \cup {"none"}]
  /\ saved \in [Users -> Tokens \cup {NoOne}]
  /\ issued \in 0..MaxLogins
  /\ ballotOf \in [Voters -> Candidates \cup {NoOne}]
  /\ receipts \subseteq Voters /\ informed \subseteq Voters
  /\ clean \subseteq Conns
  /\ final \in BOOLEAN
  /\ requests \in 0..MaxRequests
  /\ crashes \in 0..MaxCrashes

(* The election has yet to begin, or was opened in an earlier run and has  *)
(* ballots of other voters.                                                *)
Init ==
  /\ \/ status = "not_started" /\ votes = [i \in CandidateIds |-> 0]
     \/ status = "open" /\ votes \in OldBoxes
  /\ old = votes
  /\ hasVoted = {}
  /\ session = [t \in Tokens |-> NoOne]
  /\ at = [c \in Conns |-> "free"]
  /\ owner = [c \in Conns |-> NoOne]
  /\ req = [c \in Conns |-> NoRequest]
  /\ ctx = [c \in Conns |-> NoOne]
  /\ answer = [c \in Conns |-> "none"]
  /\ saved = [u \in Users |-> NoOne]
  /\ issued = 0
  /\ ballotOf = [v \in Voters |-> NoOne]
  /\ receipts = {} /\ informed = {}
  /\ clean = {} /\ final = FALSE
  /\ requests = 0 /\ crashes = 0
-----------------------------------------------------------------------------
(***************************************************************************)
(* The client.                                                             *)
(***************************************************************************)
Opening(c) == at[c] \in {"request", "run"} /\ req[c].type = "OPEN_ELECTION"

(* The client waits for no answer. *)
Idle(u) == \A c \in Conns : owner[c] = u => at[c] = "read"

NewTokenMutant == 1

(* A new token is one that was never handed out. *)
NewToken == issued + 1

(* LOGIN and ADMIN_LOGIN, with the answer, on a connection of their own;   *)
(* an old token that the client replaces stays valid.                      *)
LogIn(u) ==
  /\ issued < MaxLogins
  /\ Idle(u)
  /\ issued' = issued + 1
  /\ session' = [session EXCEPT ![NewToken] = u]
  /\ saved' = [saved EXCEPT ![u] = NewToken]
  /\ UNCHANGED <<store, conn, receipts, informed, closing, counters>>

Dropped(t) == [session EXCEPT ![t] = NoOne]

(* LOGOUT, likewise.  Where its answer is lost, the saved token stays, and *)
(* is as one whose session has expired.                                    *)
LogOut(u) ==
  /\ Idle(u)
  /\ saved[u] # NoOne
  /\ session' = Dropped(saved[u])
  /\ saved' = [saved EXCEPT ![u] = NoOne]
  /\ UNCHANGED <<store, issued, conn, receipts, informed, closing, counters>>

(* A command sends its request with the saved token, on a new connection   *)
(* or on the one the client keeps.  Any client may try any command.        *)
Send(u, c, type, choice) ==
  /\ requests < MaxRequests
  /\ saved[u] # NoOne
  /\ \/ at[c] = "free" /\ \A d \in Conns : owner[d] # u
     \/ at[c] = "read" /\ owner[c] = u
  /\ at' = [at EXCEPT ![c] = "request"]
  /\ owner' = [owner EXCEPT ![c] = u]
  /\ req' = [req EXCEPT ![c] = [user |-> u, type |-> type, token |-> saved[u], choice |-> choice]]
  /\ requests' = requests + 1
  /\ clean' = IF type = "OPEN_ELECTION" THEN {}
              ELSE IF type = "CLOSE_ELECTION" /\ \A d \in Conns : ~Opening(d) THEN clean \cup {c}
              ELSE clean
  /\ final' = (final /\ type # "OPEN_ELECTION")
  /\ UNCHANGED <<store, sessions, ctx, answer, client, crashes>>

(* The command ends, is interrupted, or its socket's timeout ends it; the  *)
(* server's thread sees that when it next uses the connection.             *)
GiveUp(u, c) ==
  /\ owner[c] = u
  /\ owner' = [owner EXCEPT ![c] = NoOne]
  /\ at' = [at EXCEPT ![c] = IF @ = "read" THEN "free" ELSE @]
  /\ UNCHANGED <<store, sessions, req, ctx, answer, client, closing, counters>>
-----------------------------------------------------------------------------
(***************************************************************************)
(* The connection's thread, up to the handler.                             *)
(***************************************************************************)
Answer(c, code) ==
  /\ answer' = [answer EXCEPT ![c] = code]
  /\ at' = [at EXCEPT ![c] = "reply"]

RoleOf(u) == IF u \in Admins THEN "admin" ELSE "voter"

RoleFor(type) == IF type \in ForAdmins THEN "admin" ELSE "voter"

SharedContext(c) == CHOOSE d \in Conns : TRUE

(* The connection whose HandlerContext a handler gets. *)
Context(c) == c

(* require_role.  A session whose time is up is found so, and dropped, when *)
(* its token is next used (Sessions has the clock).                         *)
Authorise(c) ==
  /\ at[c] = "request"
  /\ LET t == req[c].token
         s == session[t]
     IN \/ /\ Answer(c, "UNAUTHENTICATED")
           /\ session' = Dropped(t)
           /\ UNCHANGED ctx
        \/ /\ s # NoOne
           /\ UNCHANGED session
           /\ IF RoleOf(s) # RoleFor(req[c].type)
              THEN Answer(c, "FORBIDDEN") /\ UNCHANGED ctx
              ELSE /\ ctx' = [ctx EXCEPT ![Context(c)] = s]
                   /\ at' = [at EXCEPT ![c] = "run"]
                   /\ UNCHANGED answer
  /\ UNCHANGED <<store, issued, owner, req, client, closing, counters>>
-----------------------------------------------------------------------------
(***************************************************************************)
(* The handlers.                                                           *)
(***************************************************************************)
Running(c, type) == at[c] = "run" /\ req[c].type = type

Who(c) == ctx[Context(c)]

VotingOpenMutant == status # "not_started"
VotingOpen == status = "open"

(* The checks of record_vote. *)
Refusal(v, choice) ==
  IF ~VotingOpen THEN
    IF status = "closed" THEN "ELECTION_CLOSED" ELSE "ELECTION_NOT_OPEN"
  ELSE IF choice \notin Candidates THEN "CANDIDATE_NOT_FOUND"
  ELSE IF v \notin Voters THEN "UNAUTHENTICATED"
  ELSE IF v \in hasVoted THEN "ALREADY_VOTED"
  ELSE "ok"

CastVote(c) ==
  /\ Running(c, "CAST_VOTE")
  /\ LET v == Who(c)
         i == req[c].choice
     IN /\ Answer(c, Refusal(v, i))
        /\ IF Refusal(v, i) = "ok"
           THEN /\ votes' = [votes EXCEPT ![i] = @ + 1]
                /\ hasVoted' = hasVoted \cup {v}
                /\ ballotOf' = [ballotOf EXCEPT ![v] = i]
           ELSE UNCHANGED <<votes, hasVoted, ballotOf>>
  /\ UNCHANGED <<status, old, sessions, owner, req, ctx, client, closing, counters>>

ChangeStatus(c) ==
  /\ \/ Running(c, "OPEN_ELECTION") /\ status' = "open"
     \/ Running(c, "CLOSE_ELECTION") /\ status' = "closed"
  /\ Answer(c, "ok")
  /\ UNCHANGED <<hasVoted, votes, ballotOf, old, sessions, owner, req, ctx, client, closing, counters>>
-----------------------------------------------------------------------------
(***************************************************************************)
(* The answer.                                                             *)
(***************************************************************************)
Tells(c, type, code) == req[c].type = type /\ answer[c] = code

(* Nothing of the request is left: the context is cleared before the next. *)
Leave(c, place) ==
  /\ at' = [at EXCEPT ![c] = place]
  /\ req' = [req EXCEPT ![c] = NoRequest]
  /\ ctx' = [ctx EXCEPT ![c] = NoOne]
  /\ answer' = [answer EXCEPT ![c] = "none"]
  /\ clean' = clean \ {c}

(* The client takes the answer, and the thread reads the next request;     *)
Deliver(c) ==
  /\ at[c] = "reply"
  /\ owner[c] # NoOne
  /\ Leave(c, "read")
  /\ LET u == owner[c]
     IN /\ receipts' = IF Tells(c, "CAST_VOTE", "ok") THEN receipts \cup {u} ELSE receipts
        /\ informed' = IF Tells(c, "CAST_VOTE", "ALREADY_VOTED")
                       THEN informed \cup {u} ELSE informed
  /\ final' = (final \/ (c \in clean /\ Tells(c, "CLOSE_ELECTION", "ok")))
  /\ UNCHANGED <<store, sessions, owner, saved, counters>>

(* or there is nobody to send it to, and the connection ends. *)
SendFails(c) ==
  /\ at[c] = "reply"
  /\ owner[c] = NoOne
  /\ Leave(c, "free")
  /\ UNCHANGED <<store, sessions, owner, client, final, counters>>
-----------------------------------------------------------------------------
KeptMarksMutant == {}
KeptMarks == hasVoted

(* The server dies and is started again: the sessions and the connections  *)
(* are gone, the files are not.  A vote being recorded may be marked only. *)
Restart ==
  /\ crashes < MaxCrashes
  /\ crashes' = crashes + 1
  /\ \/ hasVoted' = KeptMarks
     \/ \E c \in Conns :
          /\ Running(c, "CAST_VOTE")
          /\ Refusal(Who(c), req[c].choice) = "ok"
          /\ hasVoted' = KeptMarks \cup {Who(c)}
  /\ session' = [t \in Tokens |-> NoOne]
  /\ at' = [c \in Conns |-> "free"]
  /\ owner' = [c \in Conns |-> NoOne]
  /\ req' = [c \in Conns |-> NoRequest]
  /\ ctx' = [c \in Conns |-> NoOne]
  /\ answer' = [c \in Conns |-> "none"]
  /\ clean' = {}
  /\ UNCHANGED <<status, votes, ballotOf, old, issued, client, final, requests>>

Thread(c) ==
  \/ Authorise(c)
  \/ CastVote(c) \/ ChangeStatus(c)
  \/ Deliver(c) \/ SendFails(c)

Client(u, c) ==
  \/ LogIn(u) \/ LogOut(u)
  \/ \E i \in Choices : Send(u, c, "CAST_VOTE", i)
  \/ \E type \in Types \ {"CAST_VOTE"} : Send(u, c, type, NoOne)
  \/ GiveUp(u, c)

Next ==
  \/ \E c \in Conns : Thread(c) \/ \E u \in Users : Client(u, c)
  \/ Restart

Spec == Init /\ [][Next]_vars
-----------------------------------------------------------------------------
(* The inductive invariant.                                                *)

(* Who has a request in progress, and where.                               *)
Busy(c) == at[c] \in {"request", "run", "reply"}

RequestsHaveSenders ==
  \A c \in Conns : Busy(c) => req[c] \in Request /\ owner[c] \in {req[c].user, NoOne}

(* A token that a client or a request holds is that user's or nobody's.    *)
Holds(u, t) == t \in 1..issued /\ session[t] \in {u, NoOne}

TokensAreOwn ==
  /\ \A u \in Users : saved[u] # NoOne => Holds(u, saved[u])
  /\ \A c \in Conns : at[c] = "request" => Holds(req[c].user, req[c].token)

(* A handler runs, and has succeeded, for its sender and in her role.      *)
RoleFits(c) == RoleOf(req[c].user) = RoleFor(req[c].type)

ContextsAreOwn ==
  /\ \A c \in Conns : at[c] = "run" => ctx[c] = req[c].user /\ RoleFits(c)
  /\ \A c \in Conns : at[c] = "reply" /\ answer[c] \in {"ok", "ALREADY_VOTED"} => RoleFits(c)

(* A ballot's voter is marked; a mark without a ballot is a crash's.       *)
BallotsAreMarked ==
  /\ \A v \in Voters : ballotOf[v] # NoOne => v \in hasVoted
  /\ crashes = 0 => \A v \in hasVoted : ballotOf[v] # NoOne
  /\ \A v \in receipts : ballotOf[v] # NoOne
  /\ informed \subseteq hasVoted
  /\ \A c \in Conns : at[c] = "reply" /\ Tells(c, "CAST_VOTE", "ok") => ballotOf[req[c].user] # NoOne
  /\ \A c \in Conns : at[c] = "reply" /\ Tells(c, "CAST_VOTE", "ALREADY_VOTED") => req[c].user \in hasVoted

(* While a clean request to close is under way or confirmed, none to open  *)
(* is, and the election has been closed when the request says so.          *)
ClosingsAreClean ==
  /\ final \/ clean # {} => \A c \in Conns : ~Opening(c)
  /\ final => status = "closed"
  /\ \A c \in clean : at[c] = "reply" /\ Tells(c, "CLOSE_ELECTION", "ok") => status = "closed"

-----------------------------------------------------------------------------
(* Properties.                                                             *)

(* Whatever requests are in progress at once, and whatever stale tokens    *)
(* clients have kept: a ballot is cast only as its voter's own client asks *)
(* for, and the status changes only as an administrator's does.            *)
ActsInOwnName ==
  [][/\ \A v \in Voters : ballotOf'[v] # ballotOf[v] =>
          \E c \in Conns : /\ Running(c, "CAST_VOTE")
                          /\ req[c].user = v /\ req[c].choice = ballotOf'[v]
     /\ status' # status => \E c \in Conns : req[c].user \in Admins /\ at[c] = "run"]_vars

(* The receipts in a voter's hand and on their way to her.                 *)
OnItsWay(c, v) == at[c] = "reply" /\ req[c].user = v /\ Tells(c, "CAST_VOTE", "ok")

(* A voter who never saw the answer to her vote and votes again, on a new  *)
(* connection, with a new session, or after a restart, gets no second      *)
(* receipt (store.py:139).                                                 *)
OneReceipt ==
  \A v \in Voters, c \in Conns : OnItsWay(c, v) =>
    v \notin receipts /\ \A d \in Conns \ {c} : ~OnItsWay(d, v)

(* voted_count of stats. *)
VotedCount == Cardinality(hasVoted)

(* What administrators are told by GET_STATS and by GET_RESULTS agrees:    *)
(* the voters marked are as many as the ballots that were added, and there *)
(* is at most one mark more for each crash, whatever was retried, answered *)
(* late or never, and by whichever session (store.py:144-157, 186).        *)
TurnoutAgrees == VotedCount - (TotalVotes(votes) - TotalVotes(old)) \in 0..crashes

(* Each candidate has the ballots from before and one of each voter whose  *)
(* ballot is for her.                                                      *)
EachBallotCounted ==
  \A i \in CandidateIds : votes[i] = old[i] + Cardinality({v \in Voters : ballotOf[v] = i})

(* The inductive invariant: TypeOK, the parts above, and the properties    *)
(* that are inductive with them.                                           *)
IInv ==
  /\ TypeOK
  /\ RequestsHaveSenders
  /\ TokensAreOwn
  /\ ContextsAreOwn
  /\ BallotsAreMarked
  /\ ClosingsAreClean
  /\ OneReceipt
  /\ IsFiniteSet(hasVoted) /\ TurnoutAgrees
  /\ EachBallotCounted

(* A voter with a receipt has a ballot in the box, and so has one who was  *)
(* only told that she has voted, unless a crash took it.                   *)
TellsTrue ==
  /\ \A v \in receipts : ballotOf[v] # NoOne
  /\ \A v \in informed : v \in hasVoted /\ (crashes = 0 => ballotOf[v] # NoOne)

(* Once an administrator has been told that the election is closed, the    *)
(* results stay as they are until somebody asks to open it, with votes     *)
(* still in progress, restarts, and requests whose clients have given up.  *)
(* (A request to open that was still under way would reopen it.)           *)
ClosedIsFinal == [][final => votes' = votes]_vars

(* The percentages of any tally are in order and add up as far as rounding *)
(* one by one allows.                                                      *)
ResultsAddUp == AddsUp(votes)

(* The store that the requests use is the one DataStore implements while   *)
(* no write fails: whatever clients, connections and sessions do, calls    *)
(* are its single steps, and a restart is its crash.                       *)
Store == INSTANCE AtomicStore WITH
  ballots <- {<<v, ballotOf[v]>> : v \in {w \in Voters : ballotOf[w] # NoOne}}

StoreSpec == Store!Spec
=============================================================================
