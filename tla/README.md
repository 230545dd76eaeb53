# A TLA+ model of voting-server

voting-server is an election server in Python: clients connect over TCP or TLS,
log in, vote once, and administrators open and close the election and watch the
tally live. Each connection has a thread of its own; the state is in RAM and in
JSON files. This directory models its stateful parts, checks them with TLC and
proves the main results with TLAPS. Paths below are relative to `src/` of the
repository (`store.py` is `src/store.py`).

## 1. The system's parts

| Part | State | Operations | What makes it correct |
|---|---|---|---|
| `store.py` DataStore | the election, voters, votes in RAM; `election.json`, `voters.json`, `votes.json`, `server_secret` on disk; one RLock | loading, `record_vote`, `set_election_status`, `tally`, `stats`, lookups | one ballot per voter through any crash or failed write; an acknowledged ballot stays; the receipt's key stays |
| `sessions.py` SessionManager | token -> session, one lock | `create`, `resolve`, `revoke`, `purge_expired` | no session ends early, none that is over comes back, expired ones go |
| `sessions.py` LoginRateLimiter | identity -> failures and lock | `check`, `record_failure`, `record_success` | locks are earned, bounded and end |
| `broadcast.py` BroadcastHub | the set of subscribers, one lock | `subscribe`, `unsubscribe`, `publish` | who watches is sent the latest news; one client's fault costs no other |
| `connection.py`, `framing.py` | one byte stream each way, the send lock | the receive loop, `send`, `interrupt` | each frame answered in order; frames do not mix |
| `server.py`, `main.py` | the listener, the lists of threads and connections, the stop flag | `serve_forever`, `request_stop`, `shutdown`, the purge loop | shutdown reaches every connection and ends |
| `handlers/` | none | thirteen message types | call the parts above in the right order |
| `tools/seed_data.py` | the files of the data directory | writes them all, once or with `--force` | the server can start from what it leaves |
| `tools/cli_client.py` | `.cli_token`, one connection per command | login, logout, one command per request type | a retry does no harm |
| `protocol.py`, `errors.py`, `security.py` | none | message and error tables, hashing, tokens | (not stateful) |

How they interact: the accept loop starts a thread per connection. The thread
reads a frame, calls the handler, which calls store, sessions, limiter or hub,
each inside that part's own lock and never inside two at once, and sends the
response. A voter's thread, after `record_vote`, takes the tally and sends it
itself to every subscriber's connection before it answers the voter: that is
where threads meet on one socket.

Hard to test, and what the properties aim at (PROJECT.json lists each at its
line): crashes and failed writes between the two writes of `record_vote`; state
read outside a lock (`has_voted`, clocks); tallies taken and sent by several
threads; a subscriber that stalls, leaves or returns while it is being sent to;
timeouts in the middle of a frame in either direction; answers that do not get
out, or cannot be encoded; signals on top of signals; logins that overlap
between the limiter's check and its count; shutdown while connections are at
every stage of their lives, or while a thread cannot be started; power failures
inside `_write_json`; requests whose client has given up and asked again, with
another session; votes that reach the store after a close; rounded percentages.

## 2. Modules

| Module | Models | EXTENDS / used by |
|---|---|---|
| `BallotBox` | what the store promises whatever fails, with no threads, files or crashes | instantiated by `DataStore` |
| `AtomicStore` | the store as callers take it: each call one step, a crash may cut one vote off | instantiated by `DataStore` and `Voting` |
| `DataStore` | `store.py` with crashes, failed writes and status requests | `MCDataStore`, `DataStoreProofs` |
| `LivePush` | `broadcast.py`, the sending and closing side of `connection.py`, the handlers that subscribe and publish | `MCLivePush`, `LivePushProofs` |
| `DataDir` | `seed_data.py`, the start-up of `main.py`, and `_write_json` step by step, with power failures | `MCDataDir`, `DataDirProofs` |
| `Tally` | the counts and percentages of `tally`, as functions | `Voting` |
| `Voting` | whole requests: the client, `_process`, `require_role`, the handlers that vote, open and close, sessions and store | `MCVoting`, `VotingProofs` |
| `Framing` | `framing.py` and the receive loop of `connection.py` | `MCFraming`, `FramingProofs` |
| `Sessions` | SessionManager with `require_role`, logout and the purge thread | `MCSessions`, `SessionsProofs` |
| `RateLimiter` | LoginRateLimiter with the two login handlers | `MCRateLimiter`, `RateLimiterProofs` |
| `Lifecycle` | `server.py` with the signal handler | `MCLifecycle`, `LifecycleProofs` |

The modules overlap on purpose, each with the steps its properties need: a file
write is one step in `DataStore`, four in `DataDir`; a vote is three steps in
`DataStore`, one in `Voting`, which has the request around it. What ties those two
together is `AtomicStore`: `DataStore` implements it while no write fails
(`AtomicSpec`), and what `Voting`'s requests do to the store are its steps
(`StoreSpec`).

The `MC` modules only add symmetry sets, and the initial ballots of `Voting`, for TLC. Operators named `...Mutant`, or
like a definition with a suffix (`NextWriteSwapped`, `MissingUnchanged`), stand
next to the definition they are a wrong version of and are not used by it: a
property is worth having only if TLC finds it violated when the definition is
replaced by such a version (PROJECT.json, "mutants").

### DataStore

`election`, `hasVoted`, `votes`, `secret` are the fields in RAM, `disk` and
`secretFile` the files. A thread inside the lock has `lock = t` and its place in
`pc`: `AcceptVote` is `record_vote` up to its first write, `FlushVoters` and
`FlushVotes` the two writes, each ending in `os.replace`, `WriteFails` an
`OSError` of either, after which RAM stays as it is. `RefuseVote` raises the
errors in the order of the code. `SetElectionStatus` and `FlushElection` are
`set_election_status`. `FindVoter`, `GetElection`, `ReadFlag` are
`handle_get_my_status`, which reads the flag from the record after it left the
lock. (The status that `GetElection` reads is only passed on, and is left out.) `Crash` ends the process at any step; `Load` and `WriteSecret` start it
again. `castBy`, `acked`, `refused`, `known` are history that no file holds.
`NextWrite` is the order of the writes, one operator because the order is the
point of the design (the comment at store.py:153). For `AtomicStore` a vote
happens when votes.json is replaced and a status when election.json is, since
the lock hides what RAM holds before that (`InProgress`, `Marked`).

A timestamp is whether it has been set; a `vote_id` is any id no ballot has;
names and receipts' texts are left out. `_write_json` is one step, atomic and
durable, which is right for a crash of the process; `DataDir` has its steps.

### DataDir

One program at a time uses the directory: `proc` says which, `at` the file it is
writing, `tmp` how far. `StartSeed`, `PlainOpen`, `PlainClose`, `EndSeed` are
`seed_data.py`, which writes each file in place (`open` empties it, `close` fills
it); `PlainOpen` and `PlainClose` also create the secret in the store. `Load` is
the constructor, which fails on a torn file; `Serve` the rest of `main`. `Vote`
and `SetElectionStatus` then call `_write_json` once or twice: three `FillTmp`
steps (open, write, fsync), then `Replace`. A file's content is only who is
marked or has a ballot, and its state says whether its data is complete and on
the disk. `older` holds every directory since the last write-back: `PowerFails`
returns to any one of them and tears any file whose data was not synced.
`WriteBack` is the file system's own, at any time; `fresh` and `safe` remember
what it covered. `Crash` and `WriteFails` may come between any two steps.

### Voting and Tally

A client (`LogIn`, `LogOut`, `Send`, `GiveUp`) holds one saved token, as
`.cli_token` does, and one connection at a time; `GiveUp` is its ten seconds, its
Ctrl-C, or the end of the command, after which the server's thread still has the
request (`owner = NoOne`). The thread goes from `Authorise` (`require_role`, which
puts the session into the connection's `ctx`) to `CastVote` or `ChangeStatus`, and
then to `Deliver` or `SendFails`. A session may be found expired at any use: its
clock is in `Sessions`. `Restart` forgets sessions and connections and keeps the
files; of a vote in progress it may keep the mark alone. `ballotOf`, `receipts`,
`informed`, `clean` and `final` are history. Percentages are tenths; `Percent` may
be either of two equally near values, since Python rounds a binary fraction.

### LivePush

`store` counts the votes and the status changes made; a message carries the
numbers it tells of. `RecordVote`, `Tally`, `CopySubscribers`, `StartPush`,
`PushDone`, `PushFails`, `EndPublish` are the steps of `handle_cast_vote` and of
`publish`, each outside the lock of the one before; `ChangeStatus` starts the
same for an administrator. A write to a socket has a start, in which the send
lock is taken, and one of three ends: all of it went out, the socket's 30 s
timeout (part of the frame may be out), or an error. `Subscribe`, `Unsubscribe`
and the responses run in the connection's own thread, `Unhook` and `Close` are
the `finally` of `ClientConnection.run`. The client may stall, read again or go
at any step. Voters' connections receive no pushes, so their answers need no
socket. A vote whose write failed is not among these: its ballot is in RAM, no
push is made for it, and the next vote's tally tells of it (`DataStore` has the
failure).

### Framing, Sessions, RateLimiter, Lifecycle

`Framing` cuts one client's frames, of ten kinds by what the server makes of
them, into pieces of any size; a header read off the boundary of a frame may
name any length. `replies` are the answers the loop has sent or tried to, `lost`
those among them that did not get out whole. `peer` is what the client does about
them: once it has left answers unread, or the connection has broken, a send may
fail (`SendFails`), which ends the loop as `except OSError: return` does, or, in
`_safe_send`, is dropped. A kind without an answer ends the loop as an exception
nothing catches does: `FrameTooLarge` or `UnicodeEncodeError` from `send_frame`
(`unframed_answer`), or what the parser raises. `Sessions` splits each operation between reading the clock and
taking the lock. `RateLimiter` splits a login between `check`, the password and
the count, and measures a lock by the time it has left. `Lifecycle` follows
each connection's thread from `accept` through handshake, registration and loop
to its end, and the main thread through `serve_forever` and `shutdown`. `handler`
is a signal's handler on top of the main thread: Python runs it there, between
two instructions of whatever that thread does. `Signal` starts it, in any number,
`RequestStop` is the rest of it. Both `request_stop` and `shutdown` (`SetStop`,
`CloseListener`) call `_stop.set`, which holds the event's lock; a `Signal` inside
it finds the lock taken by its own thread, and `handler` is "stuck" for good. An
`OSError` of `accept` is possible at any time and ends the loop, as in the code,
and so is a `thread.start` that raises (`StartFails`): the thread stays in the
list, and `shutdown`'s `join` of it raises in turn (`JoinRaises`).

## 3. Runs

| Run | Instance | Distinct states | Shows |
|---|---|---|---|
| `DataStore` | 2 voters and one deleted id, 3 vote ids, 2 threads, 2 crashes, 1 failed write, symmetry | 280 000 | inductive invariant; `OneBallotPerVoter`, `AckedVotesSurvive`, `LossesAccountedFor`, `ReadYourVote`, `ElectionSettled`, `OpenedBeforeBallots`; the refinements `BoxSpec` and `AtomicSpec`; `SecretKept` |
| `LivePush_order` | 2 voters, 1 administrator, 2 votes | 63 000 | `CaughtUp`, `VoteAnswered`, `EventuallyTold` |
| `LivePush_hub` | 2 administrators, 2 status changes, symmetry | 1 900 000 | `StaysSubscribed`, `NoClosedSubscriber`, `FramesApart` |
| `Sessions` | 2 threads, 1 token, 2 roles, lifetime 1, clock to 2 | 183 000 | `NoEarlyExpiry`, `OverForGood`, `TableDrained` |
| `RateLimiter` | 3 threads, 2 identities, 2 attempts, lock of 2 | 22 000 | `FailsBounded`, `LockEarned`, `LockEnds` |
| `Framing` | up to 2 frames of 2 + 2 units | 926 000 | `AnsweredInOrder`, `HangsUpWithCause`, `AllAnswered` |
| `DataDir` | 2 voters, 3 seed runs or faults, symmetry | 170 000 | `AlwaysLoads`, `MarkedBeforeCounted`, `ReceiptsKept` |
| `Voting` | 2 voters, 1 administrator, 2 connections, 2 logins, 3 requests, 1 restart, symmetry | 479 000 | inductive invariant, `OneReceipt`, `TellsTrue`, `ResultsAddUp`, `TurnoutAgrees`, `ActsInOwnName`, `ClosedIsFinal`; the refinement `StoreSpec` |
| `Lifecycle` | 3 connections, any number of signals | 241 000 | inductive invariant with `TableOfConns`, `NoThreadForgotten`, `StopReachesAll`, `StopEnds` |
| `DataStore_error`, `LivePush_torn`, `Framing_pause` | small | | one counterexample each, section 4 |

Why the bounds are enough. In `DataStore`, two threads and two voters give
every conflict over one flag and over the order of writes of two votes; two
crashes allow one between the writes and one after the restart; the third
vote id lets a ballot be lost and its voter's neighbour still vote. In
`LivePush_order` two votes race from record to send; in `LivePush_hub` two
administrators publish to each other, so each subscriber is a publisher, a
target and a client at once, and its response races the other's push. A token
is independent of the others except for the purge, which treats all alike. Three logins
pass the check of a limit of two together. Two frames are enough for one to be
cut off and the next misread. Three connections are in three different stages
when shutdown copies its tables. Three events in `DataDir` are one seed run and
two faults, enough for a failed write before a power failure, or two power
failures around a vote. In `Voting` two logins are a retry with a new session or
a voter beside an administrator; three requests are a vote, a close and a late
vote, or a vote, its retry and the other voter's. Its boxes hold old ballots in
thirds and for a candidate since removed, and up to three more, so percentages
round both ways. `MaxCrashes`, `MaxFailures`, `MaxVotes`,
`MaxChanges`, `MaxTime`, `MaxFrames`, `MaxEvents`, `MaxLogins` and `MaxRequests`
are the bounds; each only disables the steps that would exceed it.

`CHECK_DEADLOCK FALSE` stands where the system really stops: closed connections
and used-up news (`LivePush`), a closed connection (`Framing`), an exited
process (`Lifecycle`), clients that have no request left (`Voting`). `DataStore`,
`DataDir`, `Sessions` and `RateLimiter` are checked for deadlock. Symmetry is used in runs without liveness only.

### Fairness

- `LivePush`: each thread with something to do is scheduled (weak fairness of a
  thread's steps): sends have a timeout, so no call blocks for ever. Strong
  fairness of taking a send lock is assumed: a lock that is free again and again
  is had in the end by who waits for it; Python's locks promise no order, but the
  holder does blocking I/O outside it between two sends. Nothing is assumed of
  clients: they may stall for ever, and no request need ever arrive.
- `Sessions`: the purge thread runs once in every interval. `RateLimiter`: time
  passes. `Framing`: the connection's thread runs; it waits for no send longer
  than the socket's 30 s.
- `Lifecycle`: only the main thread runs; the connections' threads may hang,
  because `join` has a timeout. Fairness of `Main` is strong because signals may
  come without end: each handler keeps the main thread from its work while it
  runs, but the interpreter executes at least one instruction of that work
  between two rounds of handlers, and `accept` and `join`, when a signal
  interrupts them, wait only for what is left of their timeouts. A handler that
  is "stuck" has no step, and nothing is assumed of it.

## 4. Where the code and its comments differ

Each has a run whose property states the comment, and a counterexample:

- `DataStore_error` (store.py:121, "nguyên tử"): a failed write raises after the
  ballot is in RAM; the voter is told of an error, the ballot counts.
- `LivePush_torn` (connection.py:37): after a push timed out half-way the
  connection stays open, and the next frame is read as part of the torn one.
- `Framing_pause` (connection.py:21-22, 58): a timeout in the middle of a frame
  is not only a wake-up: the bytes read so far are lost.

The models contain further behaviour a maintainer may want to know, without a
run of its own: `server_secret` is not written by `_write_json` (against
store.py:3), so a crash while it is created leaves an empty secret, which the
next start accepts; the payload `null` is taken for the end of the stream, and
what `json.loads` raises beyond `JSONDecodeError` is not caught, nor is the
`UnicodeEncodeError` (framing.py:41) of an answer that repeats a lone surrogate from
the request's `req_id` or `type`, so the connection is closed without an answer
(`HangsUpWithCause` lists the causes, against docs/PROTOCOL.md:125); an INVALID_JSON
that is cut off by a send timeout leaves the connection open (`SendFails`), with the
next answer inside the torn one; `os.replace` is durable only with the directory, which is
not synced, so receipts given since the last write-back may not survive a power
failure (`ReceiptsKept`); a `--force` seed run that is interrupted may leave cleared
marks beside old ballots; votes whose write failed wait in RAM, so one crash may lose
several of them (`LossesAccountedFor` gives the exact bound, against "at most
one" at store.py:153-154); a status request may answer `has_voted` for a vote
whose writes are still going on (`ReadFlag`); a client that has failed once and
subscribed again may be removed by a publisher's late discard (`EndPublish`,
against handlers/admin.py:19); any `OSError` of `accept` stops the server
(`AcceptFails`, against server.py:64), and after it a connection that registers
between the copy of the table and the stop flag is not interrupted (`Snapshot`,
`SetStop`, against server.py:120), for which reason `StopReachesAll` speaks of
stops by signal; and a signal delivered while the main thread is inside
`_stop.set` makes it wait for a lock it holds itself (`Signal`): a second Ctrl-C
inside the handler of the first, or one as `shutdown` sets the flag, leaves a
process that does not stop and has to be killed (against main.py:107, which
promises an orderly stop for both signals). `StopEnds` therefore says "exited, or
stuck in this way", and TLC shows that nothing else keeps the process alive.

## 5. What is proved

For every value of the constants, from the named assumptions
(`ConstantsAssumption`, `PushAssumption`, `SessionsAssumption`, `LimiterAssumption`,
`FramingAssumption`, `DataDirAssumption`, `VotingAssumption`, `CandidatesAssumption`;
`Lifecycle` needs none). The one that is more than a typing of the constants is
that the candidate ids a message may name are finitely many, which the limit on
the size of a frame (framing.py:11) gives; a sum of counts needs it. Voters need
not be finitely many: that those marked are is part of the invariants.

| Theorem | Statement |
|---|---|
| `DataStoreProofs!TypeCorrect`, `Invariance` | `Spec => []TypeOK`, `Spec => []IInv` |
| `DataStoreProofs!NoDoubleVote` | `Spec => []OneBallotPerVoter` |
| `DataStoreProofs!ReceiptsHonoured` | `Spec => []AckedVotesSurvive` |
| `DataStoreProofs!StatusTellsOfVote` | `Spec => []ReadYourVote` |
| `DataStoreProofs!LossesAreAccounted` | `Spec => []LossesAccountedFor` |
| `DataStoreProofs!ReceiptsStayChecked` | `Spec => SecretKept` |
| `DataStoreProofs!Implementation` | `Spec => BoxSpec`, the refinement of `BallotBox` |
| `DataStoreProofs!CallsAreAtomic` | `Spec => AtomicSpec`: steps of `AtomicStore` as long as no write has failed |
| `DataStoreProofs!AtomicWithoutFailures` | if `MaxFailures = 0`, `Spec => Atomic!Spec` |
| `DataStoreProofs!CallsDecideOnStore` | a vote is accepted exactly when `AtomicStore` accepts it, at the moment of the lock |
| `DataStoreProofs!StatusSettles`, `BallotsOfOpened` | `ElectionSettled`, `OpenedBeforeBallots` |
| `DataDirProofs!ServerCanStart`, `MarksOutliveFaults`, `ReceiptsOutliveFaults` | `AlwaysLoads`, `MarkedBeforeCounted`, `ReceiptsKept` |
| `VotingProofs!ReceiptsAreSingle`, `VotersAreToldTheTruth` | `OneReceipt`, `TellsTrue` |
| `VotingProofs!HandlersActForSenders`, `ResultsAreFinal` | `Spec => ActsInOwnName`, `Spec => ClosedIsFinal` |
| `VotingProofs!PercentagesAddUp` | `Spec => []ResultsAddUp` |
| `VotingProofs!FiguresAgree`, `BallotsCountOnce` | `Spec => []TurnoutAgrees`, `Spec => []EachBallotCounted` |
| `VotingProofs!RequestsUseAtomicStore` | `Spec => StoreSpec`, the refinement of `AtomicStore` |
| `FramingProofs!AnswersKeepOrder`, `HangUpsHaveCause` | `AnsweredInOrder`, `HangsUpWithCause` |
| `Invariance` of each of the other modules | `Spec => []IInv`, which the module's results follow from |
| `LivePushProofs!WatchersCaughtUp` | `Spec => []CaughtUp` |
| `LivePushProofs!HubKeepsSubscribers`, `HubKeepsNoClosed`, `SendLockSuffices` | `StaysSubscribed`, `NoClosedSubscriber`, `FramesApart` |
| `LifecycleProofs!ThreadsJoined`, `TableExact`, `SignalReachesAll` | `NoThreadForgotten`, `TableOfConns`, `StopReachesAll` |
| `SessionsProofs!SessionsLast`, `NoComeback` | `NoEarlyExpiry`, `OverForGood` |
| `RateLimiterProofs!OverlapIsBounded`, `LocksAreEarned` | `FailsBounded`, `LockEarned` |

The arguments. In each module `IInv`, which contains the types, is the inductive
invariant. The runs of `DataStore`, `Voting` and `Lifecycle` check it as well; for
the other modules TLC found it true on the same instances before it was proved,
and the runs keep the properties that follow from it.

*DataStore.* `OneBallotPerVoter` is not inductive alone: that the voters' file
marks the voter of every ballot in the votes' file needs that a thread at
`write_votes` finds `disk.voters = hasVoted` (it has just written it, and holds
the lock: `CriticalSection`, `VoteInProgress`), and that RAM is never behind the
files (`RamAhead`), or a restart could forget a mark. `AckedVotesSurvive` needs
that an "ok" comes after the last write. `ReadYourVote` needs that a mark, once
its ballot is acknowledged, is in every state of RAM (`StatusInProgress`).
The refinement maps the marks to `disk.voters`, the ballots to `disk.votes` with
their voters, and "open" to the election's status in RAM: a write of the voters'
file marks voters, one of the votes' file adds ballots of marked voters, and
everything else is a stutter or opens or shuts the box.
Without failed writes the election's file follows RAM (`ElectionInv`): the two
differ only in the critical section, and a file with ballots or with status "open"
has `opened_at`, which no step takes back.

`LossesAccountedFor` counts the marked voters without a ballot in RAM, of which a
restart makes more: those without one in the file. So `DebtsCovered` counts these
too (`Owed`), at every moment: they are at most the crashes and failed writes so
far, and one more while a vote is being recorded. That one more is what a crash
or a failed write then pays for; a good write of votes.json pays for all.

`CallsAreAtomic` needs, besides `ElectionInv`, that without failed writes RAM is
ahead of the files by the vote in progress and by nothing else (`AheadByOne`).
Then replacing votes.json adds that one ballot, in an election that is open in
its file too, and a crash in between shows the mark alone, or nothing. Failed
writes are what makes this false, and `DataStore_error` shows how.

*DataDir.* What a power failure brings back must be as good as what it replaces.
So `AllRecoverable` asks of every directory in `older`, and not only of the one in
use, that its files are durable, mark each voter who has a ballot, and hold the
ballots of `safe`. `Replace` puts a new directory beside the old ones: it is
durable because of the fsync (`Synced`), and marks its ballots because
voters.json already holds `flags` when votes.json is replaced (`Progress`) and
RAM's ballots are marked (`RamAhead`). `Seeding` counts the files a seed run has
filled, so that its end gives the loadable directory everything rests on.

*Voting.* `ActsInOwnName` needs that the token a request carries is its sender's
or nobody's (`TokensAreOwn`: tokens are never handed out twice), and that the
context of a running handler is its request's user (`ContextsAreOwn`).
`OneReceipt` needs that a voter with a receipt, in hand or under way, is marked
(`BallotsAreMarked`), through every restart. `ClosedIsFinal` needs that after a
close that no opening overlapped, none is under way (`ClosingsAreClean`); a vote
may still be, and is refused. `TurnoutAgrees` and `EachBallotCounted` are
inductive with the rest: only a vote that is accepted changes either side, and
`BallotsAreMarked` says that its voter had no ballot; a restart may add a mark,
and counts as a crash. Both are about the numbers that two different requests
report, of marks in one file and of ballots in another.

*Tally.* `PercentagesAddUp` holds of any box, whatever its numbers. The fold that
sums a box is an iteration over the ids in an order that `CHOOSE` picks.
`SumIterates`, `IteratesExists` and `IteratesUnique` say that such an iteration
exists and is the only one, `SumTakeOut` that any element may be taken out
first; then sums are what one expects (`SumSame`, `SumOneMore`, `SumPart`). A
percentage is a nearest value (`PercentNearest`), so it keeps the order
(`PercentOrder`) and is off by half a tenth at most, which adds up over the
candidates (`SumDistance`). The induction is over the subsets of a finite set. The
library's theorems take the predicate as a parameter, which the provers cannot
instantiate; `SubsetInduction` takes the set of the subsets that have the property
instead, and follows from the well-founded order of finite sets.

*Framing.* Until a pause, the reader's position follows from the number of its
answers and from what it still needs (`InPlace`); with the lemmas on division
(`Order`, `Division`, `SmallerNumber`, `FrameEnds`) the frame it is in is the next one
of the script, so the answer it gives is that frame's. That a lost answer ends the
loop (`LossEndsLoop`, part of `HangsUpWithCause`) holds with pauses too; why a hang-up
has its cause is read off the last answer, which is lost or belongs to the frame
that ends the loop (`ReplyKeeps`).

*LivePush.* `CaughtUp` speaks of a server at rest; its strengthening `NewsOut`
says where the latest news is meanwhile: seen, or not yet counted by a voter's
thread, or in a message that is on its way to this client (`OnItsWay`). That it
is on its way from the copy of the hub on needs `StaysSubscribed`, and that in
turn `DeadFailed`: a publisher's list holds only clients its pushes failed for.
`OneWrite` keeps a writer tied to one socket.

*Lifecycle.* A signal only sets the flag, so `SignalStep` needs no case for each
place of the main thread. `Listed` says where a live thread is known, before and after the
copy of the list; `Reached`, that a signal's flag is set before the copy, so who
registers later does not read any more.

*Sessions.* A token is made outside the lock and is given to one session only
(`OneLife`, `TokensFresh`), and the time a thread has read lies in the past, so a
session it finds expired is expired; a token that was reported over, or
is about to be, is already out of the table (`OverIsOut`), and nothing puts it back.

*RateLimiter.* `FailsBounded` alone says nothing of the failures still to come.
`PendingBounded` counts them in: while an identity is locked its failures and
the logins already let in (`Pending`) together stay below the bound, since no
new one is let in and each that fails leaves that set. `CountsAreTrue` ties the
table's count to the failures that really happened.

## 6. Only model-checked

Liveness (`VoteAnswered`, `EventuallyTold`, `TableDrained`, `LockEnds`,
`AllAnswered`, `StopEnds`): fairness and ENABLED are beyond the prover. Every
invariant, action property and refinement that a passing run checks is also
proved. TLC alone gives the counterexamples of section 4.

## 7. Not modelled

- The read-only handlers and lookups (`GET_CANDIDATES`, `PING`; of `GET_STATS`
  the voters it counts are in `Voting`, its percentage is not), the validation of arguments and the shape of JSON: they
  change no state, and their answers depend on one read.
- TLS records, the password hash and the receipt's HMAC: calls of libraries.
- Settings, logging, the sample data's contents and what the client prints.
- Two programs on one data directory at a time, and a file system that reorders
  renames: nothing in the code provides for either (`DataDir` assumes neither
  happens).
- A clock that goes back: `time.monotonic` does not, and the system's clock,
  which may, is in `Sessions` (`SetWall`) because the code does not use it there.

## 8. Plan

Done, in this order: the store and its box, the hub, sessions, limiter, framing,
lifecycle with their proofs; then the data directory with power failures, whole
requests, percentages, the proofs of framing and of the election's file; then the
proofs about counts and sums, and the atomic store between `DataStore` and
`Voting`. Left:

1. `DataDir` shown to implement the writes of `DataStore` (a refinement that maps
   a durable file to `disk`), so that the two share their conclusions formally.
2. An abstract session table between `Sessions` and `Voting`, as `AtomicStore` is
   between the store and the requests.
3. Subscriptions inside `Voting`, to see a close and the live results together
   from the administrator's side; `LivePush` has them without sessions.
4. A wider `Voting` instance (three connections) if runs of more than five
   minutes are acceptable.
