---------------------------- MODULE LivePushProofs ----------------------------
(***************************************************************************)
(* For any voters, administrators and bounds: the hub loses no subscriber  *)
(* for another one's fault and keeps no closed connection, frames do not   *)
(* mix, and a client that watches is sent the latest news.                 *)
(***************************************************************************)
EXTENDS LivePush, TLAPS

(* The invariant's parts about the hub and the sockets; IInv adds the news.*)
HubInv ==
  /\ OneWrite
  /\ DeadFailed
  /\ NoClosedSubscriber
  /\ StaysSubscribed
  /\ FramesApart

(* The server starts without news and without subscribers. *)
LEMMA InvInit == Init => IInv
<1> SUFFICES ASSUME Init PROVE IInv
  OBVIOUS
<1>1. TypeOK
  BY PushAssumption DEF Init, TypeOK, News, NoNews
<1>2. OneWrite /\ DeadFailed /\ NoClosedSubscriber /\ StaysSubscribed /\ FramesApart
  BY DEF Init, OneWrite, DeadFailed, NoClosedSubscriber, StaysSubscribed, FramesApart
<1>3. NewsOut
  BY DEF Init, NewsOut, Watching
<1> QED
  BY <1>1, <1>2, <1>3 DEF IInv


(* The variables keep their types. *)
LEMMA TypeStep ==
  ASSUME TypeOK, [Next]_vars
  PROVE  TypeOK'
<1> USE PushAssumption DEF TypeOK, Goto, Threads, work, socket, ghost
<1>1. ASSUME NEW v \in Voters, RecordVote(v) PROVE TypeOK'
  <2>1. store.votes + 1 \in 0..MaxVotes
    BY <1>1 DEF RecordVote, News
  <2>2. store' = [votes |-> store.votes + 1, changes |-> store.changes]
    BY <1>1 DEF RecordVote, News
  <2>3. store' \in News
    BY <2>1, <2>2 DEF News
  <2> QED
    BY <1>1, <2>3 DEF RecordVote
<1>2. ASSUME NEW v \in Voters, Tally(v) PROVE TypeOK'
  BY <1>2 DEF Tally, News, NoNews
<1>3. ASSUME NEW a \in Admins, ChangeStatus(a) PROVE TypeOK'
  BY <1>3 DEF ChangeStatus, News, NoNews
<1>4. ASSUME NEW t \in Threads, CopySubscribers(t) PROVE TypeOK'
  BY <1>4 DEF CopySubscribers
<1>5. ASSUME NEW t \in Threads, NEW c \in Admins, StartPush(t, c) PROVE TypeOK'
  BY <1>5 DEF StartPush, StartFrame, SendLockIsFree
<1>6. ASSUME NEW t \in Threads, NEW c \in Admins, PushDone(t, c) PROVE TypeOK'
  BY <1>6 DEF PushDone, FrameDone, Release
<1>7. ASSUME NEW t \in Threads, NEW c \in Admins, PushFails(t, c) PROVE TypeOK'
  <2>1. CASE FrameTimesOut(t, c)
    BY <1>7, <2>1 DEF PushFails, FrameTimesOut, Release
  <2>2. CASE FrameFails(t, c)
    BY <1>7, <2>2 DEF PushFails, FrameFails, Release
  <2> QED
    BY <1>7, <2>1, <2>2 DEF PushFails
<1>8. ASSUME NEW t \in Threads, EndPublish(t) PROVE TypeOK'
  BY <1>8 DEF EndPublish, Discarded
<1>9. ASSUME NEW a \in Admins, Subscribe(a) PROVE TypeOK'
  BY <1>9 DEF Subscribe
<1>10. ASSUME NEW a \in Admins, Unsubscribe(a) PROVE TypeOK'
  BY <1>10 DEF Unsubscribe
<1>11. ASSUME NEW v \in Voters, AnswerVoter(v) PROVE TypeOK'
  BY <1>11 DEF AnswerVoter
<1>12. ASSUME NEW a \in Admins, StartReply(a) PROVE TypeOK'
  BY <1>12 DEF StartReply, StartFrame, SendLockIsFree
<1>13. ASSUME NEW a \in Admins, ReplyDone(a) PROVE TypeOK'
  BY <1>13 DEF ReplyDone, FrameDone, Release
<1>14. ASSUME NEW a \in Admins, ReplyFails(a) PROVE TypeOK'
  <2>1. CASE FrameTimesOut(a, a)
    BY <1>14, <2>1 DEF ReplyFails, FrameTimesOut, Release
  <2>2. CASE FrameFails(a, a)
    BY <1>14, <2>2 DEF ReplyFails, FrameFails, Release
  <2> QED
    BY <1>14, <2>1, <2>2 DEF ReplyFails
<1>15. ASSUME NEW a \in Admins, EndOfStream(a) PROVE TypeOK'
  BY <1>15 DEF EndOfStream
<1>16. ASSUME NEW a \in Admins, Unhook(a) PROVE TypeOK'
  BY <1>16 DEF Unhook, Unhooked
<1>17. ASSUME NEW a \in Admins, Close(a) PROVE TypeOK'
  BY <1>17 DEF Close
<1>18. ASSUME NEW a \in Admins, PeerChanges(a) PROVE TypeOK'
  BY <1>18 DEF PeerChanges
<1>19. CASE UNCHANGED vars
  BY <1>19 DEF vars
<1> QED
  BY <1>1, <1>2, <1>3, <1>4, <1>5, <1>6, <1>7, <1>8, <1>9, <1>10, <1>11, <1>12,
     <1>13, <1>14, <1>15, <1>16, <1>17, <1>18, <1>19 DEF Next, Publish, Serve

(* Sockets have one writer, frames do not mix, and the hub holds whom it   *)
(* should: the publisher's list has only those its own pushes failed for.  *)
LEMMA HubStep ==
  ASSUME TypeOK, HubInv, [Next]_vars
  PROVE  HubInv'
<1> USE DEF HubInv, TypeOK, Goto, Threads, work, socket, ghost
<1>1. ASSUME NEW v \in Voters, RecordVote(v) PROVE HubInv'
  BY <1>1, PushAssumption DEF RecordVote, OneWrite, DeadFailed,
     NoClosedSubscriber, StaysSubscribed, FramesApart
<1>2. ASSUME NEW v \in Voters, Tally(v) PROVE HubInv'
  BY <1>2, PushAssumption DEF Tally, OneWrite, DeadFailed, NoClosedSubscriber,
     StaysSubscribed, FramesApart
<1>3. ASSUME NEW a \in Admins, ChangeStatus(a) PROVE HubInv'
  BY <1>3, PushAssumption DEF ChangeStatus, OneWrite, DeadFailed,
     NoClosedSubscriber, StaysSubscribed, FramesApart
<1>4. ASSUME NEW t \in Threads, CopySubscribers(t) PROVE HubInv'
  BY <1>4, PushAssumption DEF CopySubscribers, OneWrite, DeadFailed,
     NoClosedSubscriber, StaysSubscribed, FramesApart
<1>5. ASSUME NEW t \in Threads, NEW c \in Admins, StartPush(t, c) PROVE HubInv'
  BY <1>5, PushAssumption DEF StartPush, StartFrame, SendLockIsFree, OneWrite,
     DeadFailed, NoClosedSubscriber, StaysSubscribed, FramesApart
<1>6. ASSUME NEW t \in Threads, NEW c \in Admins, PushDone(t, c) PROVE HubInv'
  BY <1>6, PushAssumption DEF PushDone, FrameDone, Release, OneWrite,
     DeadFailed, NoClosedSubscriber, StaysSubscribed, FramesApart
<1>7. ASSUME NEW t \in Threads, NEW c \in Admins, PushFails(t, c) PROVE HubInv'
  <2>1. CASE FrameTimesOut(t, c)
    BY <1>7, <2>1 DEF PushFails, FrameTimesOut, Release, OneWrite, DeadFailed,
       NoClosedSubscriber, StaysSubscribed, FramesApart
  <2>2. CASE FrameFails(t, c)
    BY <1>7, <2>2 DEF PushFails, FrameFails, Release, OneWrite, DeadFailed,
       NoClosedSubscriber, StaysSubscribed, FramesApart
  <2> QED
    BY <1>7, <2>1, <2>2 DEF PushFails
<1>8. ASSUME NEW t \in Threads, EndPublish(t) PROVE HubInv'
  BY <1>8, PushAssumption DEF EndPublish, Discarded, OneWrite, DeadFailed,
     NoClosedSubscriber, StaysSubscribed, FramesApart
<1>9. ASSUME NEW a \in Admins, Subscribe(a) PROVE HubInv'
  BY <1>9, PushAssumption DEF Subscribe, OneWrite, DeadFailed,
     NoClosedSubscriber, StaysSubscribed, FramesApart
<1>10. ASSUME NEW a \in Admins, Unsubscribe(a) PROVE HubInv'
  BY <1>10, PushAssumption DEF Unsubscribe, OneWrite, DeadFailed,
     NoClosedSubscriber, StaysSubscribed, FramesApart
<1>11. ASSUME NEW v \in Voters, AnswerVoter(v) PROVE HubInv'
  BY <1>11, PushAssumption DEF AnswerVoter, OneWrite, DeadFailed,
     NoClosedSubscriber, StaysSubscribed, FramesApart
<1>12. ASSUME NEW a \in Admins, StartReply(a) PROVE HubInv'
  BY <1>12, PushAssumption DEF StartReply, StartFrame, SendLockIsFree, OneWrite,
     DeadFailed, NoClosedSubscriber, StaysSubscribed, FramesApart
<1>13. ASSUME NEW a \in Admins, ReplyDone(a) PROVE HubInv'
  BY <1>13, PushAssumption DEF ReplyDone, FrameDone, Release, OneWrite,
     DeadFailed, NoClosedSubscriber, StaysSubscribed, FramesApart
<1>14. ASSUME NEW a \in Admins, ReplyFails(a) PROVE HubInv'
  BY <1>14, PushAssumption DEF ReplyFails, FrameTimesOut, FrameFails, Release,
     OneWrite, DeadFailed, NoClosedSubscriber, StaysSubscribed, FramesApart
<1>15. ASSUME NEW a \in Admins, EndOfStream(a) PROVE HubInv'
  BY <1>15, PushAssumption DEF EndOfStream, OneWrite, DeadFailed,
     NoClosedSubscriber, StaysSubscribed, FramesApart
<1>16. ASSUME NEW a \in Admins, Unhook(a) PROVE HubInv'
  BY <1>16, PushAssumption DEF Unhook, Unhooked, OneWrite, DeadFailed,
     NoClosedSubscriber, StaysSubscribed, FramesApart
<1>17. ASSUME NEW a \in Admins, Close(a) PROVE HubInv'
  BY <1>17, PushAssumption DEF Close, OneWrite, DeadFailed, NoClosedSubscriber,
     StaysSubscribed, FramesApart
<1>18. ASSUME NEW a \in Admins, PeerChanges(a) PROVE HubInv'
  BY <1>18, PushAssumption DEF PeerChanges, OneWrite, DeadFailed,
     NoClosedSubscriber, StaysSubscribed, FramesApart
<1>19. CASE UNCHANGED vars
  BY <1>19 DEF vars, OneWrite, DeadFailed, NoClosedSubscriber, StaysSubscribed,
     FramesApart
<1> QED
  BY <1>1, <1>2, <1>3, <1>4, <1>5, <1>6, <1>7, <1>8, <1>9, <1>10, <1>11, <1>12,
     <1>13, <1>14, <1>15, <1>16, <1>17, <1>18, <1>19 DEF Next, Publish, Serve

-----------------------------------------------------------------------------
(* A message stays on its way to a client, or the client has seen it, in   *)
(* a step that makes no news and lets nobody watch who did not before.     *)
LEMMA NewsKept ==
  ASSUME NewsOut,
         store' = store,
         \A v \in Voters : pc[v] = "tally" => pc'[v] = "tally",
         \A a \in Admins : Watching(a)' =>
           Watching(a) /\ since'[a] = since[a] /\ seen[a] \subseteq seen'[a],
         \A a \in Admins, t \in Threads : Watching(a)' /\ OnItsWay(t, a) =>
           (OnItsWay(t, a)' /\ msg'[t] = msg[t]) \/ msg[t] \in seen'[a]
  PROVE  NewsOut'
BY DEF NewsOut, Threads

(* A step in which no publisher takes part keeps it, too. *)
LEMMA QuietStep ==
  ASSUME NewsOut,
         UNCHANGED <<store, msg, targets, seen>>,
         \A t \in Threads : pc[t] \in {"tally", "copy", "send", "write"} => pc'[t] = pc[t],
         \A t \in Threads, a \in Admins :
           pc[t] = "write" /\ t \in writers[a] => t \in writers'[a],
         \A a \in Admins : Watching(a)' => Watching(a) /\ since'[a] = since[a]
  PROVE  NewsOut'
<1>1. \A v \in Voters : pc[v] = "tally" => pc'[v] = "tally"
  BY DEF Threads
<1>2. \A a \in Admins, t \in Threads : OnItsWay(t, a) => OnItsWay(t, a)' /\ msg'[t] = msg[t]
  BY DEF OnItsWay
<1> QED
  BY <1>1, <1>2, NewsKept

(* All news is on its way to those who watch, or has been seen. *)
LEMMA NewsStep ==
  ASSUME TypeOK, HubInv, NewsOut, [Next]_vars
  PROVE  NewsOut'
<1> USE PushAssumption DEF TypeOK, Goto, Threads, work, socket, ghost
(* A vote is told of when its thread counts; a change of status at once.   *)
<1>1. ASSUME NEW v \in Voters, RecordVote(v) PROVE NewsOut'
  BY <1>1 DEF RecordVote, News, NewsOut, Watching, OnItsWay
<1>2. ASSUME NEW v \in Voters, Tally(v) PROVE NewsOut'
  BY <1>2 DEF Tally, News, NewsOut, Watching, OnItsWay
<1>3. ASSUME NEW a \in Admins, ChangeStatus(a) PROVE NewsOut'
  BY <1>3 DEF ChangeStatus, News, NoNews, NewsOut, Watching, OnItsWay
(* Who watches is in the hub, and so among the targets. *)
<1>4. ASSUME NEW t \in Threads, CopySubscribers(t) PROVE NewsOut'
  <2>1. \A a \in Admins, u \in Threads :
          Watching(a) /\ OnItsWay(u, a) => OnItsWay(u, a)'
    BY <1>4 DEF CopySubscribers, Watching, OnItsWay, HubInv, StaysSubscribed
  <2> QED
    BY <1>4, <2>1, NewsKept DEF CopySubscribers, Watching
<1>5. ASSUME NEW t \in Threads, NEW c \in Admins, StartPush(t, c) PROVE NewsOut'
  <2>1. \A a \in Admins, u \in Threads :
          Watching(a)' /\ OnItsWay(u, a) => OnItsWay(u, a)'
    BY <1>5 DEF StartPush, StartFrame, OnItsWay
  <2> QED
    BY <1>5, <2>1, NewsKept DEF StartPush, StartFrame, Watching
(* A push that is done has been seen; one that fails ends the watching.    *)
<1>6. ASSUME NEW t \in Threads, NEW c \in Admins, PushDone(t, c) PROVE NewsOut'
  <2>1. \A a \in Admins : Watching(a)' =>
          Watching(a) /\ since'[a] = since[a] /\ seen[a] \subseteq seen'[a]
    BY <1>6 DEF PushDone, FrameDone, Watching
  <2>2. \A a \in Admins, u \in Threads : Watching(a)' /\ OnItsWay(u, a) =>
          (OnItsWay(u, a)' /\ msg'[u] = msg[u]) \/ msg[u] \in seen'[a]
    BY <1>6 DEF PushDone, FrameDone, Release, Watching, OnItsWay, HubInv, OneWrite
  <2> QED
    BY <1>6, <2>1, <2>2, NewsKept DEF PushDone, FrameDone
<1>7. ASSUME NEW t \in Threads, NEW c \in Admins, PushFails(t, c) PROVE NewsOut'
  <2>1. \A a \in Admins : Watching(a)' => Watching(a) /\ a # c
    BY <1>7 DEF PushFails, FrameTimesOut, FrameFails, Watching
  <2>2. \A a \in Admins, u \in Threads :
          Watching(a)' /\ OnItsWay(u, a) => OnItsWay(u, a)'
    BY <1>7, <2>1 DEF PushFails, FrameTimesOut, FrameFails, Release, OnItsWay, HubInv, OneWrite
  <2> QED
    BY <1>7, <2>1, <2>2, NewsKept DEF PushFails, FrameTimesOut, FrameFails
<1>8. ASSUME NEW t \in Threads, EndPublish(t) PROVE NewsOut'
  <2>1. \A a \in Admins, u \in Threads :
          Watching(a)' /\ OnItsWay(u, a) => OnItsWay(u, a)'
    BY <1>8 DEF EndPublish, OnItsWay
  <2> QED
    BY <1>8, <2>1, NewsKept DEF EndPublish, Watching
(* A new subscription is owed nothing yet. *)
<1>9. ASSUME NEW a \in Admins, Subscribe(a) PROVE NewsOut'
  <2> SUFFICES ASSUME NEW b \in Admins, Watching(b)', NEW n \in since'[b],
                      store.votes > n.votes \/ store.changes > n.changes
               PROVE  Watching(b) /\ n \in since[b]
    BY <1>9 DEF Subscribe, NewsOut, OnItsWay
  <2> QED
    BY <1>9 DEF Subscribe, Watching, News
<1>10. ASSUME NEW a \in Admins, Unsubscribe(a) PROVE NewsOut'
  BY <1>10, QuietStep DEF Unsubscribe, Watching
<1>11. ASSUME NEW v \in Voters, AnswerVoter(v) PROVE NewsOut'
  BY <1>11, QuietStep DEF AnswerVoter, Watching
<1>12. ASSUME NEW a \in Admins, StartReply(a) PROVE NewsOut'
  BY <1>12, QuietStep DEF StartReply, StartFrame, Watching
<1>13. ASSUME NEW a \in Admins, ReplyDone(a) PROVE NewsOut'
  BY <1>13, QuietStep DEF ReplyDone, FrameDone, Release, Watching
<1>14. ASSUME NEW a \in Admins, ReplyFails(a) PROVE NewsOut'
  BY <1>14, QuietStep DEF ReplyFails, FrameTimesOut, FrameFails, Release, Watching
<1>15. ASSUME NEW a \in Admins, EndOfStream(a) PROVE NewsOut'
  BY <1>15, QuietStep DEF EndOfStream, Watching
<1>16. ASSUME NEW a \in Admins, Unhook(a) PROVE NewsOut'
  BY <1>16, QuietStep DEF Unhook, Watching
<1>17. ASSUME NEW a \in Admins, Close(a) PROVE NewsOut'
  BY <1>17, QuietStep DEF Close, Watching
<1>18. ASSUME NEW a \in Admins, PeerChanges(a) PROVE NewsOut'
  BY <1>18, QuietStep DEF PeerChanges, Watching
<1>19. CASE UNCHANGED vars
  BY <1>19, QuietStep DEF vars, Watching
<1> QED
  BY <1>1, <1>2, <1>3, <1>4, <1>5, <1>6, <1>7, <1>8, <1>9, <1>10, <1>11, <1>12, <1>13,
     <1>14, <1>15, <1>16, <1>17, <1>18, <1>19 DEF Next, Publish, Serve
-----------------------------------------------------------------------------
(* The inductive invariant holds at every moment. *)
THEOREM Invariance == Spec => []IInv
<1>1. IInv /\ [Next]_vars => IInv'
  BY TypeStep, HubStep, NewsStep DEF IInv, HubInv
<1> QED
  BY <1>1, InvInit, PTL DEF Spec

(* When all threads are at rest, every client that watches has been sent   *)
(* the latest count of votes and the latest change of status: each thread  *)
(* counts after it has recorded, and copies the hub after it has counted.  *)
THEOREM WatchersCaughtUp == Spec => []CaughtUp
<1>1. IInv => CaughtUp
  BY DEF IInv, NewsOut, CaughtUp, OnItsWay, Threads
<1> QED
  BY <1>1, Invariance, PTL

(* No publisher takes out a subscriber whose pushes have all gone out.     *)
THEOREM HubKeepsSubscribers == Spec => []StaysSubscribed
<1>1. IInv => StaysSubscribed
  BY DEF IInv
<1> QED
  BY <1>1, Invariance, PTL

(* A connection that has left its loop is not in the hub, and never again. *)
THEOREM HubKeepsNoClosed == Spec => []NoClosedSubscriber
<1>1. IInv => NoClosedSubscriber
  BY DEF IInv
<1> QED
  BY <1>1, Invariance, PTL

(* Frames to one client mix only behind one that a timeout has cut off.    *)
THEOREM SendLockSuffices == Spec => []FramesApart
<1>1. IInv => FramesApart
  BY DEF IInv
<1> QED
  BY <1>1, Invariance, PTL
=============================================================================
