------------------------------ MODULE LivePush ------------------------------
(***************************************************************************)
(* The realtime pushes: src/broadcast.py, the sending and closing side of  *)
(* src/connection.py, and the handlers that subscribe and publish.         *)
(*                                                                         *)
(* A voter's thread records a vote, then takes the tally, copies the set   *)
(* of subscribers and sends to them one by one, each of the three outside  *)
(* the lock of the one before.  An administrator's thread does the same    *)
(* with a change of status, and serves its own connection, the one pushes  *)
(* go to: both kinds of threads write to one socket, under its send lock.  *)
(* A write ends when the peer reads, times out when it does not            *)
(* (_READ_TIMEOUT is the timeout of the socket's sends too), or raises.    *)
(*                                                                         *)
(* A push is modelled by the news it carries: how many votes and how many  *)
(* changes of status it tells of.  The store is the pair of these numbers, *)
(* moved inside its lock (DataStore); a failed request publishes nothing   *)
(* and is left out.                                                        *)
(***************************************************************************)
EXTENDS Naturals

CONSTANTS
  Voters,      \* the threads that serve voters
  Admins,      \* the administrators' connections, each with its thread
  MaxVotes,    \* bound: votes recorded
  MaxChanges   \* bound: changes of the election's status

ASSUME PushAssumption ==
  /\ Voters \cap Admins = {}
  /\ MaxVotes \in Nat
  /\ MaxChanges \in Nat

Threads == Voters \cup Admins

VARIABLES
  store,     \* the news: votes recorded and status changes made so far
  subs,      \* _subscribers
  pc,        \* where each thread is
  msg,       \* the message the thread publishes
  targets,   \* the subscribers it has yet to send to
  dead,      \* the subscribers its send failed for
  writers,   \* the thread inside a connection's send (its send lock)
  peer,      \* the client at the other end: "reading", "stalled" or "gone"
  torn,      \* was a frame to the client cut off by a timeout?
  garbled,   \* did bytes of a frame follow inside another one?
  seen,      \* ghost: the pushes that went out whole
  since,     \* ghost: the news at the time of the subscription in force, if any
  failed     \* ghost: the connections a push has failed on

work == <<pc, msg, targets, dead>>
socket == <<writers, peer, torn, garbled>>
ghost == <<seen, since, failed>>
vars == <<store, subs, work, socket, ghost>>

News == [votes : 0..MaxVotes, changes : 0..MaxChanges]

NoNews == [votes |-> 0, changes |-> 0]

TypeOK ==
  /\ store \in News
  /\ subs \subseteq Admins
  /\ pc \in [Threads -> {"idle", "tally", "copy", "send", "write", "answer", "reply",
                         "closing", "unhooked", "closed"}]
  /\ msg \in [Threads -> News]
  /\ targets \in [Threads -> SUBSET Admins]
  /\ dead \in [Threads -> SUBSET Admins]
  /\ writers \in [Admins -> SUBSET Threads]
  /\ peer \in [Admins -> {"reading", "stalled", "gone"}]
  /\ torn \in [Admins -> BOOLEAN]
  /\ garbled \in [Admins -> BOOLEAN]
  /\ seen \in [Admins -> SUBSET News]
  /\ since \in [Admins -> SUBSET News]
  /\ failed \subseteq Admins

(* The server is up, the administrators are connected and logged in.       *)
Init ==
  /\ store = NoNews
  /\ subs = {}
  /\ pc = [t \in Threads |-> "idle"]
  /\ msg = [t \in Threads |-> NoNews]
  /\ targets = [t \in Threads |-> {}]
  /\ dead = [t \in Threads |-> {}]
  /\ writers = [a \in Admins |-> {}]
  /\ peer = [a \in Admins |-> "reading"]
  /\ torn = [a \in Admins |-> FALSE]
  /\ garbled = [a \in Admins |-> FALSE]
  /\ seen = [a \in Admins |-> {}]
  /\ since = [a \in Admins |-> {}]
  /\ failed = {}

Goto(t, place) == pc' = [pc EXCEPT ![t] = place]
-----------------------------------------------------------------------------
(***************************************************************************)
(* Votes and status changes, and their publication.                        *)
(***************************************************************************)
RecordVoteMutant(v) ==
  /\ pc[v] = "idle"
  /\ store.votes < MaxVotes
  /\ msg' = [msg EXCEPT ![v] = store]
  /\ store' = [store EXCEPT !.votes = @ + 1]
  /\ Goto(v, "copy")
  /\ UNCHANGED <<subs, targets, dead, socket, ghost>>

(* handle_cast_vote: record_vote, *)
RecordVote(v) ==
  /\ pc[v] = "idle"
  /\ store.votes < MaxVotes
  /\ store' = [store EXCEPT !.votes = @ + 1]
  /\ Goto(v, "tally")
  /\ UNCHANGED <<subs, msg, targets, dead, socket, ghost>>

(* then the tally, in the store's lock once more; *)
Tally(v) ==
  /\ pc[v] = "tally"
  /\ msg' = [msg EXCEPT ![v] = store]
  /\ Goto(v, "copy")
  /\ UNCHANGED <<store, subs, targets, dead, socket, ghost>>

(* handle_open_election, handle_close_election: the message has the new    *)
(* status, which set_election_status returned, and no tally.               *)
ChangeStatus(a) ==
  /\ pc[a] = "idle"
  /\ store.changes < MaxChanges
  /\ store' = [store EXCEPT !.changes = @ + 1]
  /\ msg' = [msg EXCEPT ![a] = [NoNews EXCEPT !.changes = store.changes + 1]]
  /\ Goto(a, "copy")
  /\ UNCHANGED <<subs, targets, dead, socket, ghost>>

(* publish: the subscribers are copied in the hub's lock, *)
CopySubscribers(t) ==
  /\ pc[t] = "copy"
  /\ targets' = [targets EXCEPT ![t] = subs]
  /\ Goto(t, "send")
  /\ UNCHANGED <<store, subs, msg, dead, socket, ghost>>

SendLockIsFreeMutant(c) == TRUE
SendLockIsFree(c) == writers[c] = {}

(* The first byte of a frame is written to c. *)
StartFrame(t, c) ==
  /\ SendLockIsFree(c)
  /\ writers' = [writers EXCEPT ![c] = @ \cup {t}]
  /\ garbled' = [garbled EXCEPT ![c] = @ \/ writers[c] # {}]
  /\ UNCHANGED <<peer, torn>>

(* and sent to in any order (they are a set), whether they still are       *)
(* subscribers or not.                                                     *)
StartPush(t, c) ==
  /\ pc[t] = "send"
  /\ c \in targets[t]
  /\ targets' = [targets EXCEPT ![t] = @ \ {c}]
  /\ StartFrame(t, c)
  /\ Goto(t, "write")
  /\ UNCHANGED <<store, subs, msg, dead, ghost>>
-----------------------------------------------------------------------------
(***************************************************************************)
(* The three ends of a write, of a push or of a response.                  *)
(***************************************************************************)
Release(t, c) == writers' = [writers EXCEPT ![c] = @ \ {t}]

(* All bytes went out; behind a cut-off frame they are taken for its rest. *)
FrameDone(t, c) ==
  /\ t \in writers[c]
  /\ peer[c] = "reading"
  /\ pc[c] # "closed"
  /\ Release(t, c)
  /\ garbled' = [garbled EXCEPT ![c] = @ \/ torn[c]]
  /\ UNCHANGED <<peer, torn>>

HasTimeoutMutant == FALSE
HasTimeout == TRUE

(* sendall gives up after some of the bytes, or before the first one. *)
FrameTimesOut(t, c) ==
  /\ HasTimeout
  /\ t \in writers[c]
  /\ peer[c] = "stalled"
  /\ Release(t, c)
  /\ \/ /\ torn' = [torn EXCEPT ![c] = TRUE]
        /\ garbled' = [garbled EXCEPT ![c] = @ \/ torn[c]]
     \/ UNCHANGED <<torn, garbled>>
  /\ UNCHANGED peer

(* The peer has gone, or c's own thread has closed the socket. *)
FrameFails(t, c) ==
  /\ t \in writers[c]
  /\ peer[c] = "gone" \/ pc[c] = "closed"
  /\ Release(t, c)
  /\ UNCHANGED <<peer, torn, garbled>>

PushDone(t, c) ==
  /\ pc[t] = "write"
  /\ FrameDone(t, c)
  /\ seen' = [seen EXCEPT ![c] = IF torn[c] THEN @ ELSE @ \cup {msg[t]}]
  /\ Goto(t, "send")
  /\ UNCHANGED <<store, subs, msg, targets, dead, since, failed>>

(* Any exception in a push only puts the connection on the list; it is not *)
(* closed.                                                                 *)
PushFails(t, c) ==
  /\ pc[t] = "write"
  /\ FrameTimesOut(t, c) \/ FrameFails(t, c)
  /\ dead' = [dead EXCEPT ![t] = @ \cup {c}]
  /\ failed' = failed \cup {c}
  /\ Goto(t, "send")
  /\ UNCHANGED <<store, subs, msg, targets, seen, since>>

DiscardedMutant(t) == IF dead[t] # {} THEN Admins ELSE {}
Discarded(t) == dead[t]

(* Those on the list are taken out of the hub, whatever they did meanwhile.*)
EndPublish(t) ==
  /\ pc[t] = "send"
  /\ targets[t] = {}
  /\ subs' = subs \ Discarded(t)
  /\ dead' = [dead EXCEPT ![t] = {}]
  /\ Goto(t, "answer")
  /\ UNCHANGED <<store, msg, targets, socket, ghost>>
-----------------------------------------------------------------------------
(***************************************************************************)
(* The administrators' connections.                                        *)
(***************************************************************************)
Subscribe(a) ==
  /\ pc[a] = "idle"
  /\ subs' = subs \cup {a}
  /\ since' = [since EXCEPT ![a] = IF @ = {} THEN {store} ELSE @]
  /\ Goto(a, "answer")
  /\ UNCHANGED <<store, msg, targets, dead, socket, seen, failed>>

Unsubscribe(a) ==
  /\ pc[a] = "idle"
  /\ subs' = subs \ {a}
  /\ since' = [since EXCEPT ![a] = {}]
  /\ Goto(a, "answer")
  /\ UNCHANGED <<store, msg, targets, dead, socket, seen, failed>>

(* A voter's connection gets no pushes: its answer needs no detail. *)
AnswerVoter(v) ==
  /\ pc[v] = "answer"
  /\ Goto(v, "idle")
  /\ UNCHANGED <<store, subs, msg, targets, dead, socket, ghost>>

(* The response goes through the send lock like a push; *)
StartReply(a) ==
  /\ pc[a] = "answer"
  /\ StartFrame(a, a)
  /\ Goto(a, "reply")
  /\ UNCHANGED <<store, subs, msg, targets, dead, ghost>>

ReplyDone(a) ==
  /\ pc[a] = "reply"
  /\ FrameDone(a, a)
  /\ Goto(a, "idle")
  /\ UNCHANGED <<store, subs, msg, targets, dead, ghost>>

(* when it fails, unlike a push, the connection's loop is left. *)
ReplyFails(a) ==
  /\ pc[a] = "reply"
  /\ FrameTimesOut(a, a) \/ FrameFails(a, a)
  /\ Goto(a, "closing")
  /\ UNCHANGED <<store, subs, msg, targets, dead, ghost>>

(* recv finds the connection closed. *)
EndOfStream(a) ==
  /\ pc[a] = "idle"
  /\ peer[a] = "gone"
  /\ Goto(a, "closing")
  /\ UNCHANGED <<store, subs, msg, targets, dead, socket, ghost>>

UnhookedMutant(a) == subs
Unhooked(a) == subs \ {a}

(* run's finally: the hub first, then the socket. *)
Unhook(a) ==
  /\ pc[a] = "closing"
  /\ subs' = Unhooked(a)
  /\ since' = [since EXCEPT ![a] = {}]
  /\ Goto(a, "unhooked")
  /\ UNCHANGED <<store, msg, targets, dead, socket, seen, failed>>

Close(a) ==
  /\ pc[a] = "unhooked"
  /\ Goto(a, "closed")
  /\ UNCHANGED <<store, subs, msg, targets, dead, socket, ghost>>

(* The client stops reading for a while, reads again, or goes for good.    *)
PeerChanges(a) ==
  /\ peer[a] # "gone"
  /\ \E p \in {"reading", "stalled", "gone"} \ {peer[a]} : peer' = [peer EXCEPT ![a] = p]
  /\ UNCHANGED <<store, subs, work, writers, torn, garbled, ghost>>
-----------------------------------------------------------------------------
Publish(t) ==
  \/ CopySubscribers(t)
  \/ \E c \in Admins : StartPush(t, c) \/ PushDone(t, c) \/ PushFails(t, c)
  \/ EndPublish(t)

Serve(a) ==
  \/ StartReply(a)
  \/ ReplyDone(a)
  \/ ReplyFails(a)
  \/ EndOfStream(a)
  \/ Unhook(a)
  \/ Close(a)

Next ==
  \/ \E v \in Voters : RecordVote(v) \/ Tally(v) \/ Publish(v) \/ AnswerVoter(v)
  \/ \E a \in Admins :
       ChangeStatus(a) \/ Subscribe(a) \/ Unsubscribe(a) \/ Publish(a) \/ Serve(a)
         \/ PeerChanges(a)

Spec == Init /\ [][Next]_vars

(* A thread with something to do is scheduled, and no call in it blocks    *)
(* for ever: locks are held for a while, sends have a timeout.  A send     *)
(* lock that is free again and again is had in the end by who waits for it.*)
FairSpec ==
  /\ Spec
  /\ \A v \in Voters : WF_vars(Tally(v) \/ Publish(v) \/ AnswerVoter(v))
  /\ \A a \in Admins : WF_vars(Publish(a) \/ Serve(a)) /\ SF_vars(StartReply(a))
  /\ \A t \in Threads : SF_vars(\E c \in Admins : StartPush(t, c))
-----------------------------------------------------------------------------
(***************************************************************************)
(* Properties.                                                             *)
(***************************************************************************)

(* A client that reads whole frames: subscribed, without a failed push.    *)
Watching(a) == since[a] # {} /\ a \notin failed /\ ~torn[a]

(* When no thread is at work, every such client has been sent the latest   *)
(* count of votes and the latest change of status made since it subscribed *)
(* - whatever order the threads recorded, counted and sent in, and         *)
(* whichever other clients were slow or gone.                              *)
CaughtUp ==
  (\A t \in Threads : pc[t] \in {"idle", "closed"}) =>
    \A a \in Admins : Watching(a) =>
      \A n \in since[a] :
        /\ store.votes > n.votes => \E m \in seen[a] : m.votes = store.votes
        /\ store.changes > n.changes => \E m \in seen[a] : m.changes = store.changes

(* No publisher takes a subscriber out of the hub for another one's fault. *)
StaysSubscribed ==
  \A a \in Admins : since[a] # {} /\ a \notin failed => a \in subs

(* A connection that has left its loop is not in the hub, and no thread    *)
(* puts it back.                                                           *)
NoClosedSubscriber ==
  \A a \in Admins : pc[a] \in {"unhooked", "closed"} => a \notin subs

(* Frames to one client do not mix, however many threads send to it, but   *)
(* for what follows a frame that a timeout cut off.                        *)
FramesApart == \A a \in Admins : garbled[a] => torn[a]

(* A voter gets an answer, though subscribers have stopped reading.        *)
VoteAnswered == \A v \in Voters : pc[v] = "tally" ~> pc[v] = "idle"

(* A client that watches is told of every vote, by a push with that vote   *)
(* or a later one, unless it stops watching.                               *)
EventuallyTold ==
  \A a \in Admins, k \in 1..MaxVotes :
    (Watching(a) /\ store.votes >= k /\ \A n \in since[a] : n.votes < k)
      ~> (~Watching(a) \/ \E m \in seen[a] : m.votes >= k)
-----------------------------------------------------------------------------
(* The inductive invariant.  A thread writes to one socket at a time;      *)
OneWrite ==
  /\ \A a \in Admins : \A t \in writers[a] :
       pc[t] = "write" \/ (pc[t] = "reply" /\ t = a)
  /\ \A a, b \in Admins : writers[a] \cap writers[b] # {} => a = b
  /\ \A a \in Admins : \A t, u \in writers[a] : t = u

(* a publisher's list holds only subscribers its send failed for;          *)
DeadFailed ==
  \A t \in Threads : dead[t] \subseteq failed

(* and a thread that has the news of a push sends it to a,                 *)
OnItsWay(t, a) ==
  \/ pc[t] = "copy"
  \/ pc[t] \in {"send", "write"} /\ a \in targets[t]
  \/ pc[t] = "write" /\ t \in writers[a]

(* unless a has been sent it, or a voter's thread is yet to count.         *)
NewsOut ==
  \A a \in Admins : Watching(a) =>
    \A n \in since[a] :
      /\ store.votes > n.votes =>
           \/ \E m \in seen[a] : m.votes = store.votes
           \/ \E v \in Voters : pc[v] = "tally"
           \/ \E t \in Threads : msg[t].votes = store.votes /\ OnItsWay(t, a)
      /\ store.changes > n.changes =>
           \/ \E m \in seen[a] : m.changes = store.changes
           \/ \E t \in Threads : msg[t].changes = store.changes /\ OnItsWay(t, a)

IInv ==
  /\ TypeOK
  /\ OneWrite
  /\ DeadFailed
  /\ NoClosedSubscriber
  /\ StaysSubscribed
  /\ FramesApart
  /\ NewsOut
-----------------------------------------------------------------------------
(* What comments in the code say, and the code does not do.                *)

(* connection.py:37, frames of the two kinds of threads never interleave.  *)
FramesWhole == \A a \in Admins : ~garbled[a]
=============================================================================
