--------------------------- MODULE DataStoreProofs ---------------------------
(***************************************************************************)
(* Proofs about DataStore, for any number of voters, candidates, threads,  *)
(* crashes and failed writes: its type correctness, the inductive          *)
(* invariant IInv with the safety properties that follow from it, the      *)
(* action property SecretKept, and that it implements BallotBox and, as    *)
(* long as no write fails, AtomicStore.                                    *)
(***************************************************************************)
EXTENDS DataStore, FiniteSetTheorems, TLAPS

(* The variables keep their types. *)
LEMMA TypeStep == TypeOK /\ [Next]_vars => TypeOK'
<1> SUFFICES ASSUME TypeOK, [Next]_vars PROVE TypeOK'
  OBVIOUS
<1> USE DEF ram, files, call, history, counters
<1>1. CASE Load
  BY <1>1 DEF Load, TypeOK, LoadedFlags, LoadedVotes
<1>2. CASE WriteSecret
  BY <1>2 DEF WriteSecret, TypeOK
<1>3. CASE Crash
  BY <1>3, ConstantsAssumption DEF Crash, TypeOK, Seed, Election, Answers
<1>4. ASSUME NEW t \in Threads, NEW v \in VoterIds, NEW c \in CandidateIds, RefuseVote(t, v, c)
      PROVE TypeOK'
  <2>1. Refusal(v, c) \in Answers
    BY DEF Refusal, Answers
  <2> QED
    BY <1>4, <2>1 DEF RefuseVote, Reply, TypeOK
<1>5. ASSUME NEW t \in Threads, NEW v \in VoterIds, NEW c \in CandidateIds, AcceptVote(t, v, c)
      PROVE TypeOK'
  <2>1. v \in Voters /\ c \in Candidates
    BY <1>5 DEF AcceptVote, Refusal
  <2> QED
    BY <1>5, <2>1 DEF AcceptVote, NextWrite, Writing, Ballot, TypeOK
<1>6. ASSUME NEW t \in Threads, NEW s \in {"open", "closed"}, SetElectionStatus(t, s)
      PROVE TypeOK'
  <2>1. WithStatus(election, s) \in Election
    BY DEF WithStatus, Election, TypeOK
  <2> QED
    BY <1>6, <2>1 DEF SetElectionStatus, NextWrite, Writing, TypeOK
<1>7. ASSUME NEW t \in Threads, FlushVoters(t)
      PROVE TypeOK'
  BY <1>7 DEF FlushVoters, Advance, Reply, NextWrite, Writing, Answers, TypeOK
<1>8. ASSUME NEW t \in Threads, FlushVotes(t)
      PROVE TypeOK'
  BY <1>8 DEF FlushVotes, Advance, Reply, NextWrite, Writing, Answers, TypeOK
<1>9. ASSUME NEW t \in Threads, FlushElection(t)
      PROVE TypeOK'
  BY <1>9 DEF FlushElection, Advance, Reply, NextWrite, Writing, Answers, TypeOK
<1>10. ASSUME NEW t \in Threads, WriteFails(t)
       PROVE TypeOK'
  BY <1>10, ConstantsAssumption DEF WriteFails, Reply, Answers, TypeOK
<1>11. ASSUME NEW t \in Threads, Respond(t)
       PROVE TypeOK'
  BY <1>11 DEF Respond, Answers, TypeOK
<1>12. ASSUME NEW t \in Threads, NEW v \in VoterIds, FindVoter(t, v)
       PROVE TypeOK'
  BY <1>12 DEF FindVoter, TypeOK
<1>13. ASSUME NEW t \in Threads, GetElection(t)
       PROVE TypeOK'
  BY <1>13 DEF GetElection, TypeOK
<1>14. ASSUME NEW t \in Threads, ReadFlag(t)
       PROVE TypeOK'
  BY <1>14 DEF ReadFlag, Reply, FlagOf, Answers, TypeOK
<1>15. CASE UNCHANGED vars
  BY <1>15 DEF vars, TypeOK
<1> QED
  BY <1>1, <1>2, <1>3, <1>4, <1>5, <1>6, <1>7, <1>8, <1>9, <1>10, <1>11, <1>12,
     <1>13, <1>14, <1>15 DEF Next, Step

(* They have them when the program is started. *)
LEMMA TypeInit == Init => TypeOK
BY ConstantsAssumption DEF Init, TypeOK, Seed, Election, Answers

(* The state of the store, its files and the threads' calls stay within    *)
(* their types, and the bounds of the model are never exceeded.            *)
THEOREM TypeCorrect == Spec => []TypeOK
BY TypeInit, TypeStep, PTL DEF Spec
-----------------------------------------------------------------------------
(* The inductive invariant holds at the start, *)
LEMMA InvInit == Init => CoreInv
<1> SUFFICES ASSUME Init PROVE CoreInv
  OBVIOUS
<1>1. TypeOK
  BY TypeInit
<1>2. CriticalSection
  BY ConstantsAssumption DEF Init, CriticalSection, Writing
<1>3. OneBallotPerVoter /\ RamAhead /\ VoteInProgress
  BY DEF Init, OneBallotPerVoter, OneEach, RamAhead, VoteInProgress
<1>4. AckedVotesSurvive /\ StatusInProgress /\ ReadYourVote /\ SecretInPlace
  BY DEF Init, AckedVotesSurvive, StatusInProgress, ReadYourVote, SecretInPlace
<1> QED
  BY <1>1, <1>2, <1>3, <1>4 DEF CoreInv

(* and every step of every thread, and a crash, keep it. *)
LEMMA InvStep == CoreInv /\ [Next]_vars => CoreInv'
<1> SUFFICES ASSUME CoreInv, [Next]_vars PROVE CoreInv'
  OBVIOUS
<1>0. TypeOK'
  BY TypeStep DEF CoreInv
<1>1. CASE Load
  <2>1. CriticalSection'
    BY <1>1 DEF Load, CoreInv, CriticalSection
  <2>2. OneBallotPerVoter'
    BY <1>1 DEF Load, LoadedFlags, LoadedVotes, history, CoreInv, OneBallotPerVoter,
       OneEach
  <2>3. RamAhead'
    BY <1>1 DEF Load, LoadedFlags, LoadedVotes, CoreInv, RamAhead
  <2>4. VoteInProgress'
    BY <1>1 DEF Load, call, CoreInv, CriticalSection, VoteInProgress
  <2>5. StatusInProgress'
    BY <1>1 DEF Load, call, CoreInv, CriticalSection, StatusInProgress
  <2>6. SecretInPlace'
    BY <1>1 DEF Load, MustCreateSecret, history, CoreInv, SecretInPlace
  <2>7. AckedVotesSurvive' /\ ReadYourVote'
    BY <1>1 DEF Load, CoreInv, files, call, history, AckedVotesSurvive, ReadYourVote
  <2> QED
    BY <1>0, <2>1, <2>2, <2>3, <2>4, <2>5, <2>6, <2>7 DEF CoreInv
<1>2. CASE WriteSecret
  <2>1. CriticalSection'
    BY <1>2 DEF WriteSecret, CoreInv, CriticalSection
  <2>2. OneBallotPerVoter'
    BY <1>2 DEF WriteSecret, history, CoreInv, OneBallotPerVoter, OneEach
  <2>3. RamAhead'
    BY <1>2 DEF WriteSecret, CoreInv, RamAhead
  <2>4. SecretInPlace'
    BY <1>2 DEF WriteSecret, CoreInv, SecretInPlace
  <2>5. VoteInProgress' /\ AckedVotesSurvive' /\ StatusInProgress' /\ ReadYourVote'
    BY <1>2 DEF WriteSecret, CoreInv, ram, files, call, history, VoteInProgress,
       AckedVotesSurvive, StatusInProgress, ReadYourVote
  <2> QED
    BY <1>0, <2>1, <2>2, <2>3, <2>4, <2>5 DEF CoreInv
<1>3. CASE Crash
  <2>1. CriticalSection'
    BY <1>3, ConstantsAssumption DEF Crash, CoreInv, CriticalSection, Writing
  <2>2. OneBallotPerVoter'
    BY <1>3 DEF Crash, files, history, CoreInv, OneBallotPerVoter, OneEach
  <2>3. RamAhead'
    BY <1>3 DEF Crash, CoreInv, RamAhead
  <2>4. VoteInProgress'
    BY <1>3 DEF Crash, CoreInv, VoteInProgress
  <2>5. StatusInProgress'
    BY <1>3 DEF Crash, CoreInv, StatusInProgress
  <2>6. ReadYourVote'
    BY <1>3 DEF Crash, CoreInv, ReadYourVote
  <2>7. SecretInPlace'
    BY <1>3 DEF Crash, files, history, CoreInv, SecretInPlace
  <2>8. AckedVotesSurvive'
    BY <1>3 DEF Crash, CoreInv, files, history, AckedVotesSurvive
  <2> QED
    BY <1>0, <2>1, <2>2, <2>3, <2>4, <2>5, <2>6, <2>7, <2>8 DEF CoreInv
<1>4. ASSUME NEW t \in Threads, NEW v \in VoterIds, NEW c \in CandidateIds,
             RefuseVote(t, v, c)
      PROVE  CoreInv'
  <2>1. CriticalSection'
    BY <1>4 DEF RefuseVote, Enter, Reply, CoreInv, CriticalSection, Writing
  <2>2. VoteInProgress'
    BY <1>4 DEF RefuseVote, Enter, Reply, ram, files, CoreInv, VoteInProgress
  <2>3. StatusInProgress'
    BY <1>4 DEF RefuseVote, Enter, Reply, ram, CoreInv, StatusInProgress
  <2>4. ReadYourVote'
    BY <1>4 DEF RefuseVote, Enter, Reply, CoreInv, StatusInProgress, ReadYourVote
  <2>5. OneBallotPerVoter' /\ RamAhead' /\ AckedVotesSurvive' /\ SecretInPlace'
    BY <1>4 DEF RefuseVote, CoreInv, ram, files, history, OneBallotPerVoter, RamAhead,
       AckedVotesSurvive, SecretInPlace, OneEach, Enter, Reply
  <2> QED
    BY <1>0, <2>1, <2>2, <2>3, <2>4, <2>5 DEF CoreInv
<1>5. ASSUME NEW t \in Threads, NEW v \in VoterIds, NEW c \in CandidateIds,
             AcceptVote(t, v, c)
      PROVE  CoreInv'
  <2>1. CriticalSection'
    BY <1>5, ConstantsAssumption DEF AcceptVote, Enter, LockIsFree, NextWrite, CoreInv,
       CriticalSection, Writing, TypeOK
  <2>2. OneBallotPerVoter'
    BY <1>5 DEF AcceptVote, Enter, Refusal, AlreadyVoted, Ids, files, CoreInv,
       OneBallotPerVoter, RamAhead, OneEach, TypeOK
  <2>3. RamAhead'
    BY <1>5 DEF AcceptVote, files, CoreInv, RamAhead
  <2>4. VoteInProgress'
    <3>1. lock = NoThread /\ pc' = [pc EXCEPT ![t] = "write_voters"] /\ pc[t] = "idle"
      BY <1>5 DEF AcceptVote, Enter, LockIsFree, NextWrite
    <3>2. PICK i \in VoteIds : /\ votes' = votes \cup {[vote_id |-> i, candidate_id |-> c]}
                               /\ vote' = [vote EXCEPT ![t] = {i}]
      BY <1>5 DEF AcceptVote
    <3>3. i \in Ids(votes') /\ Ids(votes) \subseteq Ids(votes')
      <4>1. votes \subseteq votes'
        BY <3>2
      <4>2. [vote_id |-> i, candidate_id |-> c] \in votes'
        BY <3>2, Zenon
      <4>3. \E b \in votes' : b.vote_id = i
        BY <4>2, SMT
      <4> QED
        BY <4>1, <4>3, Zenon DEF Ids
    <3>4. election.status = "open" /\ UNCHANGED <<election, disk, answer>>
      BY <1>5 DEF AcceptVote, Refusal, files
    <3>5. \A u \in Threads : pc[u] \notin Writing
      BY <3>1, ConstantsAssumption DEF CoreInv, CriticalSection
    <3> QED
      BY <3>1, <3>2, <3>3, <3>4, <3>5 DEF CoreInv, VoteInProgress, Writing, TypeOK
  <2>5. StatusInProgress'
    BY <1>5 DEF AcceptVote, Enter, CoreInv, StatusInProgress
  <2>6. ReadYourVote'
    BY <1>5 DEF AcceptVote, NextWrite, CoreInv, ReadYourVote
  <2>7. AckedVotesSurvive' /\ SecretInPlace'
    BY <1>5 DEF AcceptVote, CoreInv, files, history, AckedVotesSurvive, SecretInPlace
  <2> QED
    BY <1>0, <2>1, <2>2, <2>3, <2>4, <2>5, <2>6, <2>7 DEF CoreInv
<1>6. ASSUME NEW t \in Threads, NEW s \in {"open", "closed"},
             SetElectionStatus(t, s)
      PROVE  CoreInv'
  <2>1. CriticalSection'
    BY <1>6, ConstantsAssumption DEF SetElectionStatus, Enter, LockIsFree, NextWrite,
       CoreInv, CriticalSection, Writing, TypeOK
  <2>2. VoteInProgress'
    BY <1>6, ConstantsAssumption DEF SetElectionStatus, Enter, LockIsFree, NextWrite,
       files, call, CoreInv, CriticalSection, VoteInProgress, Writing
  <2>3. StatusInProgress'
    BY <1>6 DEF SetElectionStatus, Enter, call, CoreInv, StatusInProgress
  <2>4. ReadYourVote'
    BY <1>6 DEF SetElectionStatus, NextWrite, call, CoreInv, ReadYourVote
  <2>5. OneBallotPerVoter' /\ RamAhead' /\ AckedVotesSurvive' /\ SecretInPlace'
    BY <1>6 DEF SetElectionStatus, CoreInv, ram, files, history, OneBallotPerVoter,
       RamAhead, AckedVotesSurvive, SecretInPlace, OneEach
  <2> QED
    BY <1>0, <2>1, <2>2, <2>3, <2>4, <2>5 DEF CoreInv
<1>7. ASSUME NEW t \in Threads, FlushVoters(t)
      PROVE  CoreInv'
  <2>1. CriticalSection'
    BY <1>7 DEF FlushVoters, Advance, NextWrite, CoreInv, CriticalSection, Writing, TypeOK
  <2>2. OneBallotPerVoter'
    BY <1>7 DEF FlushVoters, ram, history, CoreInv, CriticalSection, OneBallotPerVoter,
       RamAhead, OneEach
  <2>3. RamAhead'
    BY <1>7 DEF FlushVoters, ram, CoreInv, RamAhead
  <2>4. VoteInProgress'
    BY <1>7 DEF FlushVoters, Advance, NextWrite, ram, CoreInv, VoteInProgress, TypeOK
  <2>5. AckedVotesSurvive'
    BY <1>7 DEF FlushVoters, history, CoreInv, AckedVotesSurvive
  <2>6. StatusInProgress'
    BY <1>7 DEF FlushVoters, Advance, NextWrite, ram, CoreInv, StatusInProgress, TypeOK
  <2>7. ReadYourVote'
    BY <1>7 DEF FlushVoters, Advance, NextWrite, CoreInv, ReadYourVote, TypeOK
  <2>8. SecretInPlace'
    BY <1>7 DEF FlushVoters, CoreInv, files, history, SecretInPlace, Advance, Reply
  <2> QED
    BY <1>0, <2>1, <2>2, <2>3, <2>4, <2>5, <2>6, <2>7, <2>8 DEF CoreInv
<1>8. ASSUME NEW t \in Threads, FlushVotes(t)
      PROVE  CoreInv'
  <2>1. CriticalSection'
    BY <1>8, ConstantsAssumption DEF FlushVotes, Advance, Reply, NextWrite, CoreInv,
       CriticalSection, Writing, TypeOK
  <2>2. OneBallotPerVoter'
    BY <1>8 DEF FlushVotes, ram, history, CoreInv, CriticalSection, OneBallotPerVoter,
       VoteInProgress, OneEach
  <2>3. RamAhead'
    BY <1>8 DEF FlushVotes, ram, CoreInv, RamAhead
  <2>4. VoteInProgress'
    BY <1>8 DEF FlushVotes, Advance, Reply, NextWrite, Ids, CoreInv, CriticalSection,
       RamAhead, VoteInProgress, TypeOK
  <2>5. AckedVotesSurvive'
    BY <1>8 DEF FlushVotes, Ids, history, CoreInv, CriticalSection, RamAhead,
       AckedVotesSurvive
  <2>6. StatusInProgress'
    BY <1>8 DEF FlushVotes, Advance, Reply, ram, CoreInv, StatusInProgress, TypeOK
  <2>7. ReadYourVote'
    BY <1>8 DEF FlushVotes, Advance, Reply, CoreInv, StatusInProgress, ReadYourVote, TypeOK
  <2>8. SecretInPlace'
    BY <1>8 DEF FlushVotes, CoreInv, files, history, SecretInPlace, Advance, Reply
  <2> QED
    BY <1>0, <2>1, <2>2, <2>3, <2>4, <2>5, <2>6, <2>7, <2>8 DEF CoreInv
<1>9. ASSUME NEW t \in Threads, FlushElection(t)
      PROVE  CoreInv'
  <2>1. CriticalSection'
    BY <1>9, ConstantsAssumption DEF FlushElection, Advance, Reply, NextWrite, CoreInv,
       CriticalSection, Writing, TypeOK
  <2>2. OneBallotPerVoter'
    BY <1>9 DEF FlushElection, ram, history, CoreInv, OneBallotPerVoter, OneEach
  <2>3. RamAhead'
    BY <1>9 DEF FlushElection, ram, CoreInv, RamAhead
  <2>4. VoteInProgress'
    BY <1>9 DEF FlushElection, Advance, Reply, NextWrite, ram, CoreInv, VoteInProgress,
       TypeOK
  <2>5. AckedVotesSurvive'
    BY <1>9 DEF FlushElection, history, CoreInv, AckedVotesSurvive
  <2>6. StatusInProgress'
    BY <1>9 DEF FlushElection, Advance, Reply, ram, CoreInv, StatusInProgress, TypeOK
  <2>7. ReadYourVote'
    BY <1>9 DEF FlushElection, Advance, Reply, CoreInv, StatusInProgress, ReadYourVote,
       TypeOK
  <2>8. SecretInPlace'
    BY <1>9 DEF FlushElection, CoreInv, files, history, SecretInPlace, Advance, Reply
  <2> QED
    BY <1>0, <2>1, <2>2, <2>3, <2>4, <2>5, <2>6, <2>7, <2>8 DEF CoreInv
<1>10. ASSUME NEW t \in Threads, WriteFails(t)
       PROVE  CoreInv'
  <2>1. CriticalSection'
    BY <1>10, ConstantsAssumption DEF WriteFails, Reply, CoreInv,
       CriticalSection, Writing, TypeOK
  <2>2. VoteInProgress'
    BY <1>10 DEF WriteFails, Reply, ram, files, CoreInv, VoteInProgress, TypeOK
  <2>3. StatusInProgress'
    BY <1>10 DEF WriteFails, Reply, ram, CoreInv, StatusInProgress
  <2>4. ReadYourVote'
    BY <1>10 DEF WriteFails, Reply, CoreInv, StatusInProgress, ReadYourVote
  <2>5. OneBallotPerVoter' /\ RamAhead' /\ AckedVotesSurvive' /\ SecretInPlace'
    BY <1>10 DEF WriteFails, CoreInv, ram, files, history, OneBallotPerVoter, RamAhead,
       AckedVotesSurvive, SecretInPlace, OneEach
  <2> QED
    BY <1>0, <2>1, <2>2, <2>3, <2>4, <2>5 DEF CoreInv
<1>11. ASSUME NEW t \in Threads, Respond(t)
       PROVE  CoreInv'
  <2>1. CriticalSection'
    BY <1>11 DEF Respond, CoreInv, CriticalSection, Writing
  <2>2. VoteInProgress'
    BY <1>11 DEF Respond, ram, files, CoreInv, VoteInProgress, TypeOK
  <2>3. AckedVotesSurvive'
    BY <1>11 DEF Respond, files, CoreInv, VoteInProgress, AckedVotesSurvive
  <2>4. StatusInProgress'
    BY <1>11 DEF Respond, ram, CoreInv, StatusInProgress, TypeOK
  <2>5. ReadYourVote'
    BY <1>11 DEF Respond, CoreInv, ReadYourVote, TypeOK
  <2>6. SecretInPlace'
    BY <1>11 DEF Respond, files, CoreInv, CriticalSection, SecretInPlace
  <2>7. OneBallotPerVoter' /\ RamAhead'
    BY <1>11 DEF Respond, CoreInv, ram, files, history, OneBallotPerVoter, RamAhead,
       OneEach
  <2> QED
    BY <1>0, <2>1, <2>2, <2>3, <2>4, <2>5, <2>6, <2>7 DEF CoreInv
<1>12. ASSUME NEW t \in Threads, NEW v \in VoterIds,
              FindVoter(t, v)
       PROVE  CoreInv'
  <2>1. CriticalSection'
    BY <1>12 DEF FindVoter, Enter, CoreInv, CriticalSection, Writing
  <2>2. VoteInProgress'
    BY <1>12 DEF FindVoter, Enter, ram, files, CoreInv, VoteInProgress
  <2>3. StatusInProgress'
    BY <1>12 DEF FindVoter, Enter, ram, CoreInv, OneBallotPerVoter, RamAhead,
       AckedVotesSurvive, StatusInProgress, OneEach, Ids, Writing, TypeOK
  <2>4. ReadYourVote'
    BY <1>12 DEF FindVoter, Enter, CoreInv, ReadYourVote
  <2>5. OneBallotPerVoter' /\ RamAhead' /\ AckedVotesSurvive' /\ SecretInPlace'
    BY <1>12 DEF FindVoter, CoreInv, ram, files, history, OneBallotPerVoter, RamAhead,
       AckedVotesSurvive, SecretInPlace, OneEach
  <2> QED
    BY <1>0, <2>1, <2>2, <2>3, <2>4, <2>5 DEF CoreInv
<1>13. ASSUME NEW t \in Threads, GetElection(t)
       PROVE  CoreInv'
  <2>1. CriticalSection'
    BY <1>13 DEF GetElection, CoreInv, CriticalSection, Writing
  <2>2. VoteInProgress'
    BY <1>13 DEF GetElection, ram, files, call, CoreInv, VoteInProgress
  <2>3. StatusInProgress'
    BY <1>13 DEF GetElection, ram, call, CoreInv, StatusInProgress, Writing
  <2>4. ReadYourVote'
    BY <1>13 DEF GetElection, call, CoreInv, ReadYourVote
  <2>5. OneBallotPerVoter' /\ RamAhead' /\ AckedVotesSurvive' /\ SecretInPlace'
    BY <1>13 DEF GetElection, CoreInv, ram, files, history, OneBallotPerVoter, RamAhead,
       AckedVotesSurvive, SecretInPlace, OneEach
  <2> QED
    BY <1>0, <2>1, <2>2, <2>3, <2>4, <2>5 DEF CoreInv
<1>14. ASSUME NEW t \in Threads, ReadFlag(t)
       PROVE  CoreInv'
  <2>1. CriticalSection'
    BY <1>14 DEF ReadFlag, Reply, CoreInv, CriticalSection, Writing
  <2>2. VoteInProgress'
    BY <1>14 DEF ReadFlag, Reply, ram, files, CoreInv, VoteInProgress
  <2>3. StatusInProgress'
    BY <1>14 DEF ReadFlag, Reply, ram, CoreInv, StatusInProgress, Writing
  <2>4. ReadYourVote'
    BY <1>14 DEF ReadFlag, Reply, FlagOf, CoreInv, StatusInProgress, ReadYourVote, TypeOK
  <2>5. OneBallotPerVoter' /\ RamAhead' /\ AckedVotesSurvive' /\ SecretInPlace'
    BY <1>14 DEF ReadFlag, CoreInv, ram, files, history, OneBallotPerVoter, RamAhead,
       AckedVotesSurvive, SecretInPlace, OneEach
  <2> QED
    BY <1>0, <2>1, <2>2, <2>3, <2>4, <2>5 DEF CoreInv
<1>15. CASE UNCHANGED vars
  BY <1>15, <1>0 DEF vars, ram, files, call, history, counters, CoreInv, CriticalSection,
     OneBallotPerVoter, RamAhead, VoteInProgress, AckedVotesSurvive, StatusInProgress,
     ReadYourVote, SecretInPlace, OneEach
<1> QED
  BY <1>1, <1>2, <1>3, <1>4, <1>5, <1>6, <1>7, <1>8, <1>9, <1>10, <1>11, <1>12, <1>13,
     <1>14, <1>15 DEF Next, Step

LEMMA CoreInvariance == Spec => []CoreInv
BY InvInit, InvStep, PTL DEF Spec

(* No voter ever has two ballots, in RAM or in the files, and each ballot  *)
(* has its voter marked beside it: the lock and the order of record_vote's *)
(* two writes suffice, whatever fails and whenever the server dies.        *)
THEOREM NoDoubleVote == Spec => []OneBallotPerVoter
<1>1. CoreInv => OneBallotPerVoter
  BY DEF CoreInv
<1> QED
  BY <1>1, CoreInvariance, PTL

(* A ballot whose receipt was given is in votes.json for ever.             *)
THEOREM ReceiptsHonoured == Spec => []AckedVotesSurvive
<1>1. CoreInv => AckedVotesSurvive
  BY DEF CoreInv
<1> QED
  BY <1>1, CoreInvariance, PTL

(* Who was told that her vote is recorded, and asks for her status, is     *)
(* told that she has voted.                                                *)
THEOREM StatusTellsOfVote == Spec => []ReadYourVote
<1>1. CoreInv => ReadYourVote
  BY DEF CoreInv
<1> QED
  BY <1>1, CoreInvariance, PTL
-----------------------------------------------------------------------------
(* After the first receipt only the start of the server comes near the     *)
(* secret's file, and it finds the file in place.                          *)
THEOREM ReceiptsStayChecked == Spec => SecretKept
<1>1. CoreInv /\ [Next]_vars => (acked # {} => secretFile' = secretFile)
  <2> SUFFICES ASSUME CoreInv, [Next]_vars, acked # {}
               PROVE  secretFile' = secretFile
    OBVIOUS
  <2>1. CASE Load
    BY <2>1 DEF Load, MustCreateSecret, CoreInv, SecretInPlace
  <2>2. CASE WriteSecret
    BY <2>2 DEF WriteSecret, CoreInv, SecretInPlace
  <2>3. CASE Crash
    BY <2>3 DEF Crash, files
  <2>4. ASSUME NEW t \in Threads, NEW v \in VoterIds, NEW c \in CandidateIds,
               RefuseVote(t, v, c) \/ AcceptVote(t, v, c)
        PROVE  secretFile' = secretFile
    BY <2>4 DEF RefuseVote, AcceptVote, files
  <2>5. ASSUME NEW t \in Threads, NEW s \in {"open", "closed"}, SetElectionStatus(t, s)
        PROVE  secretFile' = secretFile
    BY <2>5 DEF SetElectionStatus, files
  <2>6. ASSUME NEW t \in Threads, Step(t) \/ Respond(t) \/ GetElection(t) \/ ReadFlag(t)
        PROVE  secretFile' = secretFile
    BY <2>6 DEF Step, FlushVoters, FlushVotes, FlushElection, WriteFails, Respond,
       GetElection, ReadFlag, files
  <2>7. ASSUME NEW t \in Threads, NEW v \in VoterIds, FindVoter(t, v)
        PROVE  secretFile' = secretFile
    BY <2>7 DEF FindVoter, files
  <2>8. CASE UNCHANGED vars
    BY <2>8 DEF vars, files
  <2> QED
    BY <2>1, <2>2, <2>3, <2>4, <2>5, <2>6, <2>7, <2>8 DEF Next
<1>2. CoreInv /\ [Next]_vars => [acked # {} => secretFile' = secretFile]_vars
  BY <1>1
<1> QED
  BY CoreInvariance, <1>2, PTL DEF Spec, SecretKept
-----------------------------------------------------------------------------
(* The votes that are lost, and those that a crash would take.             *)

(* Both sets are finite, and the counters are numbers. *)
LEMMA DebtsFinite ==
  ASSUME CoreInv, DebtsCovered
  PROVE  /\ IsFiniteSet(Lost) /\ IsFiniteSet(Owed)
         /\ Cardinality(Lost) \in Nat /\ Cardinality(Owed) \in Nat
         /\ crashes \in Nat /\ failures \in Nat
<1>1. IsFiniteSet(hasVoted \cup disk.voters)
  BY FS_Union DEF DebtsCovered
<1>2. Lost \subseteq hasVoted \cup disk.voters /\ Owed \subseteq hasVoted \cup disk.voters
  BY DEF Lost, Owed
<1>3. IsFiniteSet(Lost) /\ IsFiniteSet(Owed)
  BY <1>1, <1>2, FS_Subset
<1> QED
  BY <1>3, FS_CardinalityType, ConstantsAssumption DEF CoreInv, TypeOK

LEMMA DebtsInit == Init => DebtsCovered
<1> SUFFICES ASSUME Init PROVE DebtsCovered
  OBVIOUS
<1>1. hasVoted = {} /\ disk.voters = {} /\ crashes = 0 /\ failures = 0 /\ ~Recording
  BY DEF Init, Recording
<1>2. Lost = {} /\ Owed = {}
  BY <1>1 DEF Lost, Owed
<1> QED
  BY <1>1, <1>2, FS_EmptySet DEF DebtsCovered

(* No vote is being recorded where the lock is free, or where the server   *)
(* is not up; and at most by the owner of the lock.                        *)
LEMMA RecorderHasLock ==
  ASSUME CoreInv
  PROVE  /\ lock = NoThread \/ phase # "up" => ~Recording
         /\ \A t \in Threads : lock = t => (Recording <=> pc[t] \in {"write_voters", "write_votes"})
BY ConstantsAssumption DEF CoreInv, CriticalSection, Recording, Writing

(* A step that leaves marks, ballots and failures alone, and does not end  *)
(* or begin a vote.                                                        *)
LEMMA QuietStep ==
  ASSUME DebtsCovered, UNCHANGED <<hasVoted, votes, disk, castBy, crashes, failures>>,
         Recording' <=> Recording
  PROVE  DebtsCovered'
BY DEF DebtsCovered, Lost, Owed

LEMMA DebtsStep == CoreInv /\ DebtsCovered /\ [Next]_vars => DebtsCovered'
<1> SUFFICES ASSUME CoreInv, DebtsCovered, [Next]_vars PROVE DebtsCovered'
  OBVIOUS
<1>0. CoreInv'
  BY InvStep
<1>a. /\ IsFiniteSet(Lost) /\ IsFiniteSet(Owed)
      /\ Cardinality(Lost) \in Nat /\ Cardinality(Owed) \in Nat
      /\ crashes \in Nat /\ failures \in Nat
  BY DebtsFinite
<1>1. CASE Load
  <2>1. ~Recording /\ ~Recording'
    BY <1>1, RecorderHasLock DEF Load, Recording
  <2>2. hasVoted' = disk.voters /\ votes' = disk.votes /\ UNCHANGED <<disk, castBy, crashes, failures>>
    BY <1>1 DEF Load, LoadedFlags, LoadedVotes, history, counters
  <2>3. Lost' \subseteq Owed /\ Owed' \subseteq Owed
    BY <2>2 DEF Lost, Owed
  <2>4. Cardinality(Lost') <= Cardinality(Owed) /\ Cardinality(Lost') \in Nat
        /\ Cardinality(Owed') <= Cardinality(Owed) /\ Cardinality(Owed') \in Nat
    BY <1>a, <2>3, FS_Subset, FS_CardinalityType
  <2> QED
    BY <1>a, <2>1, <2>2, <2>4 DEF DebtsCovered
<1>2. CASE Crash
  <2>1. ~Recording'
    BY <1>2 DEF Crash, Recording
  <2>2. hasVoted' = {} /\ UNCHANGED <<disk, castBy, failures>> /\ crashes' = crashes + 1
    BY <1>2 DEF Crash, files, history
  <2>3. Lost' = {} /\ Owed' \subseteq Owed
    BY <2>2 DEF Lost, Owed
  <2>4. Cardinality(Owed') <= Cardinality(Owed) /\ Cardinality(Owed') \in Nat /\ Cardinality(Lost') = 0
    BY <1>a, <2>3, FS_Subset, FS_CardinalityType, FS_EmptySet
  <2> QED
    BY <1>a, <2>1, <2>2, <2>4, FS_EmptySet DEF DebtsCovered
<1>3. ASSUME NEW t \in Threads, NEW v \in VoterIds, NEW c \in CandidateIds, AcceptVote(t, v, c)
      PROVE  DebtsCovered'
  <2>1. PICK i \in VoteIds \ Ids(votes) :
          /\ votes' = votes \cup {[vote_id |-> i, candidate_id |-> c]}
          /\ castBy' = [castBy EXCEPT ![i] = v]
    BY <1>3 DEF AcceptVote
  <2>2. hasVoted' = hasVoted \cup {v} /\ UNCHANGED <<disk, crashes, failures>> /\ phase = "up"
    BY <1>3 DEF AcceptVote, Enter, files, counters
  <2>3. ~Recording /\ Recording'
    <3>1. lock = NoThread /\ pc' = [pc EXCEPT ![t] = "write_voters"]
      BY <1>3 DEF AcceptVote, Enter, LockIsFree, NextWrite
    <3> QED
      BY <3>1, RecorderHasLock DEF Recording, CoreInv, TypeOK
  <2>4. castBy'[i] = v /\ \A b \in votes : castBy'[b.vote_id] = castBy[b.vote_id]
    <3>1. \A b \in votes : b.vote_id \in VoteIds \ {i}
      BY DEF Ids, CoreInv, TypeOK, Ballot
    <3> QED
      BY <2>1, <3>1 DEF CoreInv, TypeOK
  <2>5. \E b \in votes' : b.vote_id = i
    <3>1. [vote_id |-> i, candidate_id |-> c] \in votes'
      BY <2>1, Zenon
    <3> QED
      BY <3>1, SMT
  <2>6. votes \subseteq votes' /\ disk.votes \subseteq votes
    BY <2>1, <2>2 DEF CoreInv, RamAhead
  <2>7. Lost' \subseteq Lost
    BY <2>2, <2>4, <2>5, <2>6 DEF Lost
  <2>8. Owed' \subseteq Owed \cup {v}
    BY <2>2, <2>4, <2>6 DEF Owed
  <2>9. Cardinality(Lost') <= Cardinality(Lost) /\ Cardinality(Lost') \in Nat
    BY <1>a, <2>7, FS_Subset, FS_CardinalityType
  <2>10. Cardinality(Owed') <= Cardinality(Owed) + 1 /\ Cardinality(Owed') \in Nat
    <3>1. IsFiniteSet(Owed \cup {v}) /\ Cardinality(Owed \cup {v}) \in {Cardinality(Owed), Cardinality(Owed) + 1}
      BY <1>a, FS_AddElement
    <3>2. IsFiniteSet(Owed') /\ Cardinality(Owed') <= Cardinality(Owed \cup {v})
      BY <2>8, <3>1, FS_Subset
    <3>3. Cardinality(Owed') \in Nat
      BY <3>2, FS_CardinalityType
    <3> QED
      BY <1>a, <3>1, <3>2, <3>3
  <2>11. IsFiniteSet(hasVoted') /\ IsFiniteSet(disk'.voters)
    BY <2>2, FS_AddElement DEF DebtsCovered
  <2> QED
    BY <1>a, <2>2, <2>3, <2>9, <2>10, <2>11 DEF DebtsCovered
<1>4. ASSUME NEW t \in Threads, FlushVoters(t)
      PROVE  DebtsCovered'
  <2>1. disk'.voters = hasVoted /\ disk'.votes = disk.votes
        /\ UNCHANGED <<hasVoted, votes, castBy, crashes, failures>>
    BY <1>4 DEF FlushVoters, ram, history, counters, CoreInv, TypeOK
  <2>2. Recording /\ Recording'
    BY <1>4 DEF FlushVoters, Advance, NextWrite, Recording, CoreInv, TypeOK
  <2>3. Lost' = Lost /\ Owed' \subseteq Owed
    BY <2>1 DEF Lost, Owed
  <2>4. Cardinality(Owed') <= Cardinality(Owed) /\ Cardinality(Owed') \in Nat
    BY <1>a, <2>3, FS_Subset, FS_CardinalityType
  <2> QED
    BY <1>a, <2>1, <2>2, <2>3, <2>4 DEF DebtsCovered
<1>5. ASSUME NEW t \in Threads, FlushVotes(t)
      PROVE  DebtsCovered'
  <2>1. disk'.votes = votes /\ disk'.voters = disk.voters
        /\ UNCHANGED <<hasVoted, votes, castBy, crashes, failures>>
    BY <1>5 DEF FlushVotes, ram, history, counters, CoreInv, TypeOK
  <2>2. disk.voters \subseteq hasVoted
    BY <1>5 DEF FlushVotes, CoreInv, CriticalSection, RamAhead, Writing
  <2>3. Lost' = Lost /\ Owed' = Lost
    BY <2>1, <2>2 DEF Lost, Owed
  <2> QED
    BY <1>a, <2>1, <2>3 DEF DebtsCovered
<1>6. ASSUME NEW t \in Threads, WriteFails(t)
      PROVE  DebtsCovered'
  <2>1. failures' = failures + 1 /\ UNCHANGED <<hasVoted, votes, disk, castBy, crashes>>
    BY <1>6 DEF WriteFails, ram, files
  <2>2. Lost' = Lost /\ Owed' = Owed
    BY <2>1 DEF Lost, Owed
  <2>3. ~Recording'
    <3>1. lock' = NoThread
      BY <1>6 DEF WriteFails
    <3> QED
      BY <1>0, <3>1, ConstantsAssumption DEF CoreInv, CriticalSection, Recording, Writing
  <2> QED
    BY <1>a, <2>1, <2>2, <2>3 DEF DebtsCovered
<1>7. ASSUME NEW t \in Threads,
             \/ \E v \in VoterIds, c \in CandidateIds : RefuseVote(t, v, c)
             \/ \E s \in {"open", "closed"} : SetElectionStatus(t, s)
             \/ Respond(t) \/ GetElection(t) \/ ReadFlag(t)
             \/ \E v \in VoterIds : FindVoter(t, v)
      PROVE  DebtsCovered'
  <2>1. UNCHANGED <<hasVoted, votes, disk, castBy, crashes, failures>>
    BY <1>7 DEF RefuseVote, SetElectionStatus, Respond, GetElection, ReadFlag, FindVoter, ram, files,
       history, counters
  <2>2. /\ pc[t] \notin {"write_voters", "write_votes"}
        /\ pc'[t] \notin {"write_voters", "write_votes"}
        /\ \A u \in Threads \ {t} : pc'[u] = pc[u]
    BY <1>7 DEF RefuseVote, SetElectionStatus, NextWrite, Respond, GetElection, ReadFlag, FindVoter, Enter,
       Reply, CoreInv, TypeOK
  <2> QED
    BY <2>1, <2>2, QuietStep DEF Recording
<1>8. ASSUME NEW t \in Threads, FlushElection(t)
      PROVE  DebtsCovered'
  <2>1. UNCHANGED <<hasVoted, votes, castBy, crashes, failures, disk.voters, disk.votes>>
    BY <1>8 DEF FlushElection, ram, history, counters, CoreInv, TypeOK
  <2>2. pc[t] = "write_election" /\ pc' = [pc EXCEPT ![t] = "reply"]
    BY <1>8 DEF FlushElection, Advance, NextWrite, Reply
  <2>3. Recording' <=> Recording
    BY <2>2 DEF Recording, CoreInv, TypeOK
  <2> QED
    BY <2>1, <2>3 DEF DebtsCovered, Lost, Owed
<1>9. CASE WriteSecret \/ UNCHANGED vars
  <2>1. UNCHANGED <<hasVoted, votes, disk, castBy, crashes, failures, pc>>
    BY <1>9 DEF WriteSecret, vars, ram, files, history, counters
  <2> QED
    BY <2>1, QuietStep DEF Recording
<1> QED
  BY <1>1, <1>2, <1>3, <1>4, <1>5, <1>6, <1>7, <1>8, <1>9 DEF Next, Step

LEMMA DebtsInvariance == Spec => []DebtsCovered
BY DebtsInit, DebtsStep, CoreInvariance, PTL DEF Spec

(* However many threads record votes, and whichever writes fail: a restart *)
(* finds no more votes lost than there were crashes and failed writes.     *)
THEOREM LossesAreAccounted == Spec => []LossesAccountedFor
<1>1. DebtsCovered => LossesAccountedFor
  BY DEF DebtsCovered, LossesAccountedFor
<1> QED
  BY <1>1, DebtsInvariance, PTL
-----------------------------------------------------------------------------
(* The part of the inductive invariant about the election's own file.      *)
LEMMA ElectionInit == Init => ElectionInv
BY DEF Init, Seed, ElectionInv, Settled, FileOpened, RamOpened

(* Failed writes are never forgotten. *)
LEMMA NoFailureYet ==
  ASSUME CoreInv, [Next]_vars, failures' = 0
  PROVE  failures = 0
<1>1. failures' \in {failures, failures + 1} /\ failures \in Nat
  BY ConstantsAssumption
  DEF Next, Load, WriteSecret, Crash, RefuseVote, AcceptVote, SetElectionStatus, Step, FlushVoters,
      FlushVotes, FlushElection, WriteFails, Respond, FindVoter, GetElection, ReadFlag, vars,
      counters, CoreInv, TypeOK
<1> QED
  BY <1>1

LEMMA ElectionStep == CoreInv /\ ElectionInv /\ [Next]_vars => ElectionInv'
<1> SUFFICES ASSUME CoreInv, ElectionInv, [Next]_vars, failures' = 0
             PROVE  Settled' /\ FileOpened' /\ RamOpened'
  BY DEF ElectionInv
<1>0. failures = 0
  BY NoFailureYet
<1> USE <1>0 DEF ElectionInv, Settled, FileOpened, RamOpened
<1>1. CASE Load
  BY <1>1 DEF Load, LoadedVotes
<1>2. CASE WriteSecret \/ Crash
  BY <1>2 DEF WriteSecret, Crash, files
<1>3. ASSUME NEW t \in Threads, NEW v \in VoterIds, NEW c \in CandidateIds, AcceptVote(t, v, c)
      PROVE  Settled' /\ FileOpened' /\ RamOpened'
  <2>1. election.status = "open" /\ phase = "up"
    BY <1>3 DEF AcceptVote, Refusal, Enter
  <2>2. UNCHANGED <<disk, election, phase>>
    BY <1>3 DEF AcceptVote, files
  <2>3. \A u \in Threads : pc[u] # "write_election"
    BY <1>3, ConstantsAssumption DEF AcceptVote, Enter, LockIsFree, CoreInv, CriticalSection, Writing
  <2> QED
    BY <2>1, <2>2, <2>3
<1>4. ASSUME NEW t \in Threads, NEW s \in {"open", "closed"}, SetElectionStatus(t, s)
      PROVE  Settled' /\ FileOpened' /\ RamOpened'
  <2>1. pc'[t] = "write_election" /\ UNCHANGED <<disk, votes, phase>> /\ phase = "up"
    BY <1>4 DEF SetElectionStatus, Enter, NextWrite, files, CoreInv, TypeOK
  <2>2. election'.opened_at = (election.opened_at \/ s = "open") /\ election'.status = s
    BY <1>4 DEF SetElectionStatus, WithStatus
  <2> QED
    BY <2>1, <2>2
<1>5. ASSUME NEW t \in Threads, FlushVoters(t)
      PROVE  Settled' /\ FileOpened' /\ RamOpened'
  <2>1. UNCHANGED <<disk.election, disk.votes, election, votes, phase>>
    BY <1>5 DEF FlushVoters, ram, CoreInv, TypeOK
  <2>2. \A u \in Threads : pc[u] # "write_election"
    BY <1>5 DEF FlushVoters, CoreInv, CriticalSection, Writing
  <2> QED
    BY <2>1, <2>2
<1>6. ASSUME NEW t \in Threads, FlushVotes(t)
      PROVE  Settled' /\ FileOpened' /\ RamOpened'
  <2>1. UNCHANGED <<disk.election, election, votes, phase>> /\ disk'.votes = votes
    BY <1>6 DEF FlushVotes, ram, CoreInv, TypeOK
  <2>2. phase = "up" /\ \A u \in Threads : pc[u] # "write_election"
    BY <1>6 DEF FlushVotes, CoreInv, CriticalSection, Writing
  <2>3. disk.election = election
    BY <2>2
  <2> QED
    BY <2>1, <2>2, <2>3
<1>7. ASSUME NEW t \in Threads, FlushElection(t)
      PROVE  Settled' /\ FileOpened' /\ RamOpened'
  <2>1. disk'.election = election /\ UNCHANGED <<disk.votes, election, votes, phase>>
    BY <1>7 DEF FlushElection, ram, CoreInv, TypeOK
  <2>2. phase = "up" /\ disk.votes \subseteq votes
    BY <1>7 DEF FlushElection, CoreInv, CriticalSection, Writing, RamAhead
  <2> QED
    BY <2>1, <2>2
<1>8. ASSUME NEW t \in Threads,
             \/ \E v \in VoterIds, c \in CandidateIds : RefuseVote(t, v, c)
             \/ \E v \in VoterIds : FindVoter(t, v)
             \/ Respond(t) \/ GetElection(t) \/ ReadFlag(t)
      PROVE  Settled' /\ FileOpened' /\ RamOpened'
  <2>1. UNCHANGED <<disk, election, votes, phase>>
    BY <1>8 DEF RefuseVote, FindVoter, Respond, GetElection, ReadFlag, ram, files
  <2>2. pc[t] # "write_election" /\ \A u \in Threads \ {t} : pc'[u] = pc[u]
    BY <1>8 DEF RefuseVote, FindVoter, Respond, GetElection, ReadFlag, Enter, Reply, CoreInv, TypeOK
  <2> QED
    BY <2>1, <2>2
<1>9. ASSUME NEW t \in Threads
      PROVE  ~WriteFails(t)
  BY DEF WriteFails, CoreInv, TypeOK
<1>10. CASE UNCHANGED vars
  BY <1>10 DEF vars, ram, files
<1> QED
  BY <1>1, <1>2, <1>3, <1>4, <1>5, <1>6, <1>7, <1>8, <1>9, <1>10 DEF Next, Step

LEMMA ElectionInvariance == Spec => []ElectionInv
BY ElectionInit, ElectionStep, CoreInvariance, PTL DEF Spec

-----------------------------------------------------------------------------
(* The part of the inductive invariant about how far RAM is ahead.         *)
LEMMA AheadInit == Init => AheadByOne
BY DEF Init, AheadByOne

LEMMA AheadStep == CoreInv /\ AheadByOne /\ [Next]_vars => AheadByOne'
<1> SUFFICES ASSUME CoreInv, AheadByOne, [Next]_vars, failures' = 0
             PROVE  AheadByOne'
  BY DEF AheadByOne
<1>0. failures = 0
  BY NoFailureYet
<1> USE <1>0 DEF AheadByOne, Recording
<1>1. CASE Load
  <2>1. \A t \in Threads : pc'[t] = "idle"
    BY <1>1 DEF Load, CoreInv, CriticalSection
  <2> QED
    BY <1>1, <2>1 DEF Load, LoadedFlags, LoadedVotes
<1>2. CASE Crash
  BY <1>2 DEF Crash
<1>3. ASSUME NEW t \in Threads, NEW v \in VoterIds, NEW c \in CandidateIds, AcceptVote(t, v, c)
      PROVE  AheadByOne'
  <2>1. \A u \in Threads : pc[u] \notin Writing
    BY <1>3, ConstantsAssumption DEF AcceptVote, Enter, LockIsFree, CoreInv, CriticalSection
  <2>2. disk.voters = hasVoted /\ disk.votes = votes
    BY <1>3, <2>1 DEF AcceptVote, Enter, Writing
  <2>3. v \in Voters \ hasVoted /\ c \in Candidates
    BY <1>3 DEF AcceptVote, Refusal, AlreadyVoted
  <2>4. PICK i \in VoteIds :
          /\ votes' = votes \cup {[vote_id |-> i, candidate_id |-> c]}
          /\ vote' = [vote EXCEPT ![t] = {i}]
          /\ castBy' = [castBy EXCEPT ![i] = v]
    BY <1>3 DEF AcceptVote
  <2>5. hasVoted' = hasVoted \cup {v} /\ UNCHANGED disk /\ pc' = [pc EXCEPT ![t] = "write_voters"]
    BY <1>3 DEF AcceptVote, NextWrite, files
  <2>6. vote'[t] = {i} /\ castBy'[i] = v
    BY <2>4 DEF CoreInv, TypeOK
  <2>7. disk'.voters = hasVoted' \ {castBy'[i]} /\ castBy'[i] \in hasVoted'
    BY <2>2, <2>3, <2>5, <2>6
  <2>8. /\ pc'[t] = "write_voters"
        /\ \A u \in Threads \ {t} : pc'[u] \notin Writing
    BY <2>1, <2>5 DEF CoreInv, TypeOK
  <2>9. votes' = disk'.votes \cup {[vote_id |-> i, candidate_id |-> c]}
    BY <2>2, <2>4, <2>5
  <2> QED
    BY <2>3, <2>6, <2>7, <2>8, <2>9 DEF Writing
<1>4. ASSUME NEW t \in Threads, NEW s \in {"open", "closed"}, SetElectionStatus(t, s)
      PROVE  AheadByOne'
  <2>1. \A u \in Threads : pc[u] \notin Writing
    BY <1>4, ConstantsAssumption DEF SetElectionStatus, Enter, LockIsFree, CoreInv, CriticalSection
  <2>2. UNCHANGED <<disk, hasVoted, votes, phase>> /\ pc' = [pc EXCEPT ![t] = "write_election"]
    BY <1>4 DEF SetElectionStatus, NextWrite, files
  <2>3. election'.status = s
    BY <1>4 DEF SetElectionStatus, WithStatus
  <2> QED
    BY <2>1, <2>2, <2>3 DEF Writing, CoreInv, TypeOK
<1>5. ASSUME NEW t \in Threads, FlushVoters(t)
      PROVE  AheadByOne'
  <2>1. pc[t] = "write_voters" /\ pc' = [pc EXCEPT ![t] = "write_votes"]
    BY <1>5 DEF FlushVoters, Advance, NextWrite
  <2>2. UNCHANGED <<hasVoted, votes, vote, castBy, election>> /\ disk'.votes = disk.votes
    BY <1>5 DEF FlushVoters, ram, history, CoreInv, TypeOK
  <2>3. \A u \in Threads \ {t} : pc[u] \notin Writing
    BY <2>1, ConstantsAssumption DEF CoreInv, CriticalSection, Writing
  <2> QED
    BY <2>1, <2>2, <2>3 DEF Writing, CoreInv, TypeOK
<1>6. ASSUME NEW t \in Threads, FlushVotes(t)
      PROVE  AheadByOne'
  <2>1. pc[t] = "write_votes" /\ pc' = [pc EXCEPT ![t] = "reply"]
    BY <1>6 DEF FlushVotes, Advance, NextWrite, Reply
  <2>2. UNCHANGED <<hasVoted, votes>> /\ disk'.votes = votes /\ disk'.voters = disk.voters
    BY <1>6 DEF FlushVotes, ram, CoreInv, TypeOK
  <2>3. \A u \in Threads \ {t} : pc[u] \notin Writing
    BY <2>1, ConstantsAssumption DEF CoreInv, CriticalSection, Writing
  <2>4. disk.voters = hasVoted
    BY <2>1 DEF CoreInv, VoteInProgress
  <2> QED
    BY <2>1, <2>2, <2>3, <2>4 DEF Writing, CoreInv, TypeOK
<1>7. ASSUME NEW t \in Threads, FlushElection(t)
      PROVE  AheadByOne'
  <2>1. pc[t] = "write_election" /\ pc' = [pc EXCEPT ![t] = "reply"]
    BY <1>7 DEF FlushElection, Advance, NextWrite, Reply
  <2>2. UNCHANGED <<phase, hasVoted, votes>> /\ disk'.votes = disk.votes /\ disk'.voters = disk.voters
    BY <1>7 DEF FlushElection, ram, CoreInv, TypeOK
  <2>3. \A u \in Threads \ {t} : pc[u] \notin Writing
    BY <2>1, ConstantsAssumption DEF CoreInv, CriticalSection, Writing
  <2> QED
    BY <2>1, <2>2, <2>3 DEF Writing, CoreInv, TypeOK
<1>8. ASSUME NEW t \in Threads,
             \/ \E v \in VoterIds, c \in CandidateIds : RefuseVote(t, v, c)
             \/ \E v \in VoterIds : FindVoter(t, v)
             \/ Respond(t) \/ GetElection(t) \/ ReadFlag(t)
      PROVE  AheadByOne'
  <2>1. UNCHANGED <<phase, disk, election, hasVoted, votes, castBy>>
    BY <1>8 DEF RefuseVote, FindVoter, Respond, GetElection, ReadFlag, ram, files, history
  <2>2. /\ pc[t] \notin Writing /\ pc'[t] \notin Writing
        /\ \A u \in Threads \ {t} : pc'[u] = pc[u] /\ vote'[u] = vote[u]
    BY <1>8 DEF RefuseVote, FindVoter, Respond, GetElection, ReadFlag, Enter, Reply, Writing, call,
       CoreInv, TypeOK
  <2> QED
    BY <2>1, <2>2 DEF Writing
<1>9. ASSUME NEW t \in Threads
      PROVE  ~WriteFails(t)
  BY DEF WriteFails, CoreInv, TypeOK
<1>10. CASE WriteSecret \/ UNCHANGED vars
  <2>1. UNCHANGED <<disk, election, hasVoted, votes, castBy, pc, vote>>
    BY <1>10 DEF WriteSecret, vars, ram, files, history, call
  <2>2. phase # "down" <=> phase' # "down"
    BY <1>10 DEF WriteSecret, vars
  <2> QED
    BY <2>1, <2>2
<1> QED
  BY <1>1, <1>2, <1>3, <1>4, <1>5, <1>6, <1>7, <1>8, <1>9, <1>10 DEF Next, Step

LEMMA AheadInvariance == Spec => []AheadByOne
BY AheadInit, AheadStep, CoreInvariance, PTL DEF Spec

(* The inductive invariant holds at every moment of the life of the store. *)
THEOREM Invariance == Spec => []IInv
<1>1. CoreInv /\ DebtsCovered /\ ElectionInv /\ AheadByOne => IInv
  BY DEF IInv
<1> QED
  BY <1>1, CoreInvariance, DebtsInvariance, ElectionInvariance, AheadInvariance, PTL

(* Without failed writes, a status that was answered for is the status     *)
(* after a restart.                                                        *)
THEOREM StatusSettles == Spec => []ElectionSettled
<1>1. ElectionInv => ElectionSettled
  BY DEF ElectionInv, Settled, ElectionSettled
<1> QED
  BY <1>1, ElectionInvariance, PTL

(* Without failed writes, no crash leaves ballots of an unopened election. *)
THEOREM BallotsOfOpened == Spec => []OpenedBeforeBallots
<1>1. ElectionInv => OpenedBeforeBallots
  BY DEF ElectionInv, FileOpened, OpenedBeforeBallots
<1> QED
  BY <1>1, ElectionInvariance, PTL
-----------------------------------------------------------------------------
(* The files of the store behave as a ballot box.                          *)

(* A step that changes neither the marks nor the counted ballots opens or  *)
(* shuts the box, or is none of the box's business.                        *)
LEMMA OtherStep ==
  ASSUME UNCHANGED disk.voters, UNCHANGED BoxBallots
  PROVE  Box!Next
BY DEF Box!Next, Box!SetOpen

(* The counted ballots are the same when votes.json and who cast them are. *)
LEMMA SameBallots ==
  ASSUME UNCHANGED disk.votes, UNCHANGED castBy
  PROVE  UNCHANGED BoxBallots
BY DEF BoxBallots

(* The files of seed_data.py are an empty box. *)
LEMMA BoxInit == Init => Box!Init
BY DEF Init, Seed, BoxBallots, Box!Init

(* Every step of the store is a step of the box, or changes nothing in it. *)
LEMMA BoxStep == CoreInv /\ [Next]_vars => [Box!Next]_Box!vars
<1> SUFFICES ASSUME CoreInv, [Next]_vars PROVE Box!Next \/ UNCHANGED Box!vars
  OBVIOUS
<1>1. ASSUME NEW t \in Threads, NEW v \in VoterIds, NEW c \in CandidateIds,
             AcceptVote(t, v, c)
      PROVE  Box!Next
  <2>1. PICK i \in VoteIds \ Ids(votes) : castBy' = [castBy EXCEPT ![i] = v]
    BY <1>1 DEF AcceptVote
  <2>2. UNCHANGED disk /\ phase = "up"
    BY <1>1 DEF AcceptVote, Enter, files
  <2>3. \A b \in disk.votes : b.vote_id \in VoteIds \ {i}
    BY <2>2 DEF CoreInv, RamAhead, Ids, TypeOK, Ballot
  <2>4. \A b \in disk.votes : castBy'[b.vote_id] = castBy[b.vote_id]
    BY <2>1, <2>3 DEF CoreInv, TypeOK
  <2>5. UNCHANGED BoxBallots
    BY <2>2, <2>4 DEF BoxBallots
  <2> QED
    BY <2>2, <2>5, OtherStep
<1>2. ASSUME NEW t \in Threads, FlushVoters(t)
      PROVE  Box!Next
  <2>1. election.status = "open" /\ UNCHANGED election
    BY <1>2 DEF FlushVoters, ram, CoreInv, VoteInProgress
  <2>2. disk.voters' = hasVoted /\ UNCHANGED <<disk.votes, castBy>>
    BY <1>2 DEF FlushVoters, history, CoreInv, TypeOK
  <2>3. disk.voters \subseteq hasVoted /\ hasVoted \subseteq Voters
    BY <1>2 DEF FlushVoters, CoreInv, CriticalSection, RamAhead, Writing, TypeOK
  <2>4. UNCHANGED BoxBallots
    BY <2>2, SameBallots
  <2> QED
    BY <2>1, <2>2, <2>3, <2>4 DEF Box!Next, Box!Mark
<1>3. ASSUME NEW t \in Threads, FlushVotes(t)
      PROVE  Box!Next
  <2>1. election.status = "open" /\ UNCHANGED <<election, disk.voters, castBy>>
    BY <1>3 DEF FlushVotes, ram, history, CoreInv, VoteInProgress, TypeOK
  <2>2. disk.votes \subseteq disk.votes'
    BY <1>3 DEF FlushVotes, CoreInv, CriticalSection, RamAhead, Writing, TypeOK
  <2>3. BoxBallots \subseteq BoxBallots'
    BY <2>1, <2>2 DEF BoxBallots
  <2>4. OneEach(disk.votes, disk.voters)' /\ TypeOK'
    BY InvStep DEF CoreInv, OneBallotPerVoter
  <2>5. BoxBallots' \subseteq Box!CastBallot
    BY <2>4 DEF BoxBallots, OneEach, Box!CastBallot, TypeOK, Ballot
  <2>6. Box!OneBallotEach(BoxBallots', disk.voters)
    BY <2>1, <2>4 DEF BoxBallots, OneEach, Box!OneBallotEach
  <2> QED
    BY <2>1, <2>3, <2>5, <2>6 DEF Box!Next, Box!Count
<1>4. ASSUME NEW t \in Threads, FlushElection(t)
      PROVE  Box!Next
  <2>1. UNCHANGED <<disk.voters, disk.votes, castBy>>
    BY <1>4 DEF FlushElection, history, CoreInv, TypeOK
  <2> QED
    BY <2>1, SameBallots, OtherStep
<1>5. CASE UNCHANGED <<disk, castBy>>
  BY <1>5, SameBallots, OtherStep
<1>6. CASE Load \/ WriteSecret \/ Crash \/ UNCHANGED vars
  BY <1>5, <1>6 DEF Load, WriteSecret, Crash, vars, files, history
<1>7. ASSUME NEW t \in Threads,
             \/ \E v \in VoterIds, c \in CandidateIds : RefuseVote(t, v, c)
             \/ \E s \in {"open", "closed"} : SetElectionStatus(t, s)
             \/ WriteFails(t) \/ Respond(t) \/ GetElection(t) \/ ReadFlag(t)
             \/ \E v \in VoterIds : FindVoter(t, v)
      PROVE  UNCHANGED <<disk, castBy>>
  BY <1>7 DEF RefuseVote, SetElectionStatus, WriteFails, Respond, GetElection, ReadFlag,
     FindVoter, files, history
<1> QED
  BY <1>1, <1>2, <1>3, <1>4, <1>5, <1>6, <1>7 DEF Next, Step

(* The store implements the ballot box: whatever crashes and failed writes *)
(* happen, voters are marked before their ballots are in, and nothing is   *)
(* ever taken back or changed while the election is not open.              *)
THEOREM Implementation == Spec => BoxSpec
BY BoxInit, BoxStep, CoreInvariance, PTL DEF Spec, BoxSpec, Box!Spec
-----------------------------------------------------------------------------
(* While no write fails, the store behaves as one whose calls are single   *)
(* steps.                                                                  *)

(* A call finds in RAM what the atomic store holds. *)
LEMMA SeenByCalls ==
  ASSUME CoreInv, ElectionInv, failures = 0, phase = "up", LockIsFree
  PROVE  Marked = hasVoted /\ disk.election = election /\ InProgress = {}
<1>1. \A t \in Threads : pc[t] \notin Writing
  BY ConstantsAssumption DEF LockIsFree, CoreInv, CriticalSection
<1>2. InProgress = {}
  BY <1>1 DEF InProgress, Writing
<1>3. disk.election = election
  BY <1>1 DEF ElectionInv, Settled, Writing
<1> QED
  BY <1>2, <1>3 DEF Marked

(* The one vote that is being recorded is that of the thread in the lock.  *)
LEMMA OneInProgress ==
  ASSUME CoreInv, NEW t \in Threads, pc[t] \in {"write_voters", "write_votes"},
         NEW i \in VoteIds, vote[t] = {i}
  PROVE  InProgress = {castBy[i]}
<1>1. {u \in Threads : pc[u] \in {"write_voters", "write_votes"}} = {t}
  BY DEF CoreInv, CriticalSection, Writing
<1>2. UNION {vote[u] : u \in {t}} = {i}
  OBVIOUS
<1> QED
  BY <1>1, <1>2 DEF InProgress

LEMMA NoneInProgress ==
  ASSUME \A t \in Threads : pc[t] \notin {"write_voters", "write_votes"}
  PROVE  InProgress = {}
BY DEF InProgress

(* Who cast the ballots in the file. *)
Pairs == {<<castBy[b.vote_id], b.candidate_id>> : b \in disk.votes}

LEMMA AtomicInit == Init => Atomic!Init
<1> SUFFICES ASSUME Init PROVE Atomic!Init
  OBVIOUS
<1>1. Marked = {} /\ disk.votes = {} /\ disk.election.status = "not_started" /\ crashes = 0
  BY DEF Init, Seed, Marked
<1> QED
  BY <1>1 DEF Atomic!Init

(* Every step of the store is one of the atomic store, or shows nothing.   *)
LEMMA AtomicStep ==
  ASSUME CoreInv, ElectionInv, AheadByOne, [Next]_vars, failures' = 0
  PROVE  [Atomic!Next]_(Atomic!vars)
<1>0. failures = 0
  BY NoFailureYet
<1> SUFFICES Atomic!Next \/ UNCHANGED Atomic!vars
  OBVIOUS
<1>u. ASSUME UNCHANGED <<disk.election.status, Marked, Pairs, crashes>>
      PROVE  UNCHANGED Atomic!vars
  BY <1>u DEF Atomic!vars, Pairs
<1>1. CASE Load
  <2>1. \A t \in Threads : pc[t] = "idle"
    BY <1>1 DEF Load, CoreInv, CriticalSection
  <2>2. InProgress = {} /\ InProgress' = {}
    BY <1>1, <2>1 DEF Load, InProgress
  <2>3. UNCHANGED Marked
    BY <1>1, <2>2 DEF Load, LoadedFlags, Marked
  <2> QED
    BY <1>1, <1>u, <2>3 DEF Load, history, counters, Pairs
<1>2. CASE Crash
  <2>1. /\ UNCHANGED <<disk, castBy>> /\ crashes' = crashes + 1 /\ phase' = "down"
        /\ \A t \in Threads : pc'[t] = "idle"
    BY <1>2 DEF Crash, files, history
  <2>2. Marked' = disk.voters
    BY <2>1 DEF Marked, InProgress
  <2>3. CASE \A t \in Threads : pc[t] \notin {"write_voters", "write_votes"}
    <3>1. Marked = disk.voters
      BY <1>0, <1>2, <2>3, NoneInProgress DEF Crash, Marked, AheadByOne, Recording
    <3> QED
      BY <2>1, <2>2, <3>1 DEF Atomic!Next, Atomic!Crash
  <2>4. ASSUME NEW t \in Threads, pc[t] \in {"write_voters", "write_votes"}
        PROVE  Atomic!Next
    <3>1. PICK i \in VoteIds, c \in Candidates :
            /\ vote[t] = {i} /\ castBy[i] \in hasVoted
            /\ pc[t] = "write_voters" => disk.voters = hasVoted \ {castBy[i]}
      BY <1>0, <2>4 DEF AheadByOne
    <3>2. Marked = hasVoted \ {castBy[i]}
      BY <1>2, <2>4, <3>1, OneInProgress DEF Crash, Marked
    <3>3. CASE pc[t] = "write_voters"
      BY <2>1, <2>2, <3>1, <3>2, <3>3 DEF Atomic!Next, Atomic!Crash
    <3>4. CASE pc[t] = "write_votes"
      <4>1. Marked' = Marked \cup {castBy[i]}
        BY <2>2, <3>1, <3>2, <3>4 DEF CoreInv, VoteInProgress
      <4>2. disk.election.status = "open"
        <5>1. election.status = "open"
          BY <3>4 DEF CoreInv, VoteInProgress
        <5>2. \A u \in Threads : pc[u] # "write_election"
          BY <3>4 DEF CoreInv, CriticalSection, Writing
        <5> QED
          BY <1>0, <1>2, <5>1, <5>2 DEF Crash, ElectionInv, Settled
      <4>3. Atomic!Accepts(castBy[i], c)
        BY <3>1, <3>2, <4>2 DEF Atomic!Accepts, CoreInv, TypeOK
      <4>4. castBy[i] \in Voters
        BY <3>1 DEF CoreInv, TypeOK
      <4> QED
        BY <2>1, <4>1, <4>3, <4>4 DEF Atomic!Next, Atomic!Crash
    <3> QED
      BY <2>4, <3>3, <3>4
  <2> QED
    BY <2>3, <2>4
<1>3. ASSUME NEW t \in Threads, NEW v \in VoterIds, NEW c \in CandidateIds, AcceptVote(t, v, c)
      PROVE  UNCHANGED Atomic!vars
  <2>1. PICK i \in VoteIds \ Ids(votes) :
          /\ votes' = votes \cup {[vote_id |-> i, candidate_id |-> c]}
          /\ vote' = [vote EXCEPT ![t] = {i}]
          /\ castBy' = [castBy EXCEPT ![i] = v]
    BY <1>3 DEF AcceptVote
  <2>2. /\ UNCHANGED <<disk, crashes, phase>> /\ phase = "up" /\ LockIsFree
        /\ hasVoted' = hasVoted \cup {v} /\ pc' = [pc EXCEPT ![t] = "write_voters"]
    BY <1>3 DEF AcceptVote, Enter, NextWrite, files, counters
  <2>3. v \in Voters \ hasVoted
    BY <1>3 DEF AcceptVote, Refusal, AlreadyVoted
  <2>4. \A b \in disk.votes : b.vote_id \in VoteIds \ {i}
    BY <2>1, <2>2 DEF CoreInv, RamAhead, Ids, TypeOK, Ballot
  <2>5. UNCHANGED Pairs
    <3>1. \A b \in disk.votes : castBy'[b.vote_id] = castBy[b.vote_id]
      BY <2>1, <2>4 DEF CoreInv, TypeOK
    <3> QED
      BY <2>2, <3>1 DEF Pairs
  <2>6. CoreInv'
    BY InvStep
  <2>7. InProgress' = {castBy'[i]}
    <3>1. pc'[t] = "write_voters" /\ vote'[t] = {i}
      BY <2>1, <2>2 DEF CoreInv, TypeOK
    <3>2. {u \in Threads : pc'[u] \in {"write_voters", "write_votes"}} = {t}
      BY <2>6, <3>1 DEF CoreInv, CriticalSection, Writing
    <3>3. UNION {vote'[u] : u \in {t}} = {i}
      BY <3>1
    <3> QED
      BY <3>2, <3>3 DEF InProgress
  <2>8. castBy'[i] = v
    BY <2>1 DEF CoreInv, TypeOK
  <2>9. Marked = hasVoted
    BY <1>0, <2>2, SeenByCalls
  <2>10. UNCHANGED Marked
    BY <2>2, <2>3, <2>7, <2>8, <2>9 DEF Marked
  <2> QED
    BY <1>u, <2>2, <2>5, <2>10
<1>4. ASSUME NEW t \in Threads, FlushVoters(t)
      PROVE  UNCHANGED Atomic!vars
  <2>1. pc[t] = "write_voters" /\ pc' = [pc EXCEPT ![t] = "write_votes"] /\ phase = "up"
    BY <1>4 DEF FlushVoters, Advance, NextWrite, CoreInv, CriticalSection, Writing
  <2>2. /\ UNCHANGED <<phase, hasVoted, vote, castBy, crashes>>
        /\ disk'.votes = disk.votes /\ disk'.election = disk.election
    BY <1>4 DEF FlushVoters, ram, history, counters, CoreInv, TypeOK
  <2>3. {u \in Threads : pc'[u] \in {"write_voters", "write_votes"}}
          = {u \in Threads : pc[u] \in {"write_voters", "write_votes"}}
    BY <2>1 DEF CoreInv, TypeOK
  <2>4. UNCHANGED Marked
    BY <2>1, <2>2, <2>3 DEF Marked, InProgress
  <2> QED
    BY <1>u, <2>2, <2>4 DEF Pairs
<1>5. ASSUME NEW t \in Threads, FlushVotes(t)
      PROVE  Atomic!Next
  <2>1. pc[t] = "write_votes" /\ pc' = [pc EXCEPT ![t] = "reply"] /\ phase = "up"
    BY <1>5 DEF FlushVotes, Advance, NextWrite, Reply, CoreInv, CriticalSection, Writing
  <2>2. /\ UNCHANGED <<phase, hasVoted, castBy, crashes>>
        /\ disk'.votes = votes /\ disk'.election = disk.election
    BY <1>5 DEF FlushVotes, ram, history, counters, CoreInv, TypeOK
  <2>3. PICK i \in VoteIds, c \in Candidates :
          /\ vote[t] = {i} /\ castBy[i] \in hasVoted
          /\ votes = disk.votes \cup {[vote_id |-> i, candidate_id |-> c]}
    BY <1>0, <2>1 DEF AheadByOne
  <2>4. Marked = hasVoted \ {castBy[i]}
    BY <2>1, <2>3, OneInProgress DEF Marked
  <2>5. Marked' = hasVoted
    <3>1. \A u \in Threads : pc'[u] \notin {"write_voters", "write_votes"}
      BY <2>1 DEF CoreInv, CriticalSection, Writing, TypeOK
    <3>2. InProgress' = {}
      BY <3>1 DEF InProgress
    <3> QED
      BY <2>1, <2>2, <3>2 DEF Marked
  <2>6. Pairs' = Pairs \cup {<<castBy[i], c>>}
    <3> DEFINE b == [vote_id |-> i, candidate_id |-> c]
               P(x) == <<castBy[x.vote_id], x.candidate_id>>
    <3>1. P(b) = <<castBy[i], c>>
      OBVIOUS
    <3>2. Pairs' = {P(x) : x \in disk.votes \cup {b}}
      BY <2>2, <2>3 DEF Pairs
    <3>3. Pairs = {P(x) : x \in disk.votes}
      BY DEF Pairs
    <3> HIDE DEF b, P
    <3> QED
      BY <3>1, <3>2, <3>3
  <2>7. disk.election.status = "open"
    <3>1. election.status = "open"
      BY <2>1 DEF CoreInv, VoteInProgress
    <3>2. \A u \in Threads : pc[u] # "write_election"
      BY <2>1 DEF CoreInv, CriticalSection, Writing
    <3> QED
      BY <1>0, <2>1, <3>1, <3>2 DEF ElectionInv, Settled
  <2>8. castBy[i] \in Voters
    BY <2>3 DEF CoreInv, TypeOK
  <2>9. Atomic!RecordVote(castBy[i], c)
    <3>1. Marked' = Marked \cup {castBy[i]}
      BY <2>3, <2>4, <2>5
    <3>2. Atomic!Accepts(castBy[i], c)
      BY <2>4, <2>7, <2>8 DEF Atomic!Accepts
    <3> QED
      BY <2>2, <2>6, <3>1, <3>2 DEF Atomic!RecordVote, Pairs
  <2> QED
    BY <2>8, <2>9 DEF Atomic!Next
<1>6. ASSUME NEW t \in Threads, FlushElection(t)
      PROVE  Atomic!Next
  <2>1. pc[t] = "write_election" /\ pc' = [pc EXCEPT ![t] = "reply"]
    BY <1>6 DEF FlushElection, Advance, NextWrite, Reply
  <2>2. /\ UNCHANGED <<phase, hasVoted, castBy, crashes, vote>>
        /\ disk'.votes = disk.votes /\ disk'.voters = disk.voters /\ disk'.election = election
    BY <1>6 DEF FlushElection, ram, history, counters, CoreInv, TypeOK
  <2>3. election.status \in {"open", "closed"}
    BY <1>0, <2>1 DEF AheadByOne
  <2>4. {u \in Threads : pc'[u] \in {"write_voters", "write_votes"}}
          = {u \in Threads : pc[u] \in {"write_voters", "write_votes"}}
    BY <2>1 DEF CoreInv, TypeOK
  <2>5. UNCHANGED Marked
    BY <2>2, <2>4 DEF Marked, InProgress
  <2>6. UNCHANGED Pairs
    BY <2>2 DEF Pairs
  <2>7. Atomic!SetElectionStatus(election.status)
    BY <2>2, <2>5, <2>6 DEF Atomic!SetElectionStatus, Pairs
  <2> QED
    BY <2>3, <2>7 DEF Atomic!Next
<1>7. ASSUME NEW t \in Threads,
             \/ \E v \in VoterIds, c \in CandidateIds : RefuseVote(t, v, c)
             \/ \E s \in {"open", "closed"} : SetElectionStatus(t, s)
             \/ \E v \in VoterIds : FindVoter(t, v)
             \/ Respond(t) \/ GetElection(t) \/ ReadFlag(t)
      PROVE  UNCHANGED Atomic!vars
  <2>1. UNCHANGED <<phase, disk, hasVoted, castBy, crashes>>
    BY <1>7 DEF RefuseVote, SetElectionStatus, FindVoter, Respond, GetElection, ReadFlag, files,
       history, counters, ram
  <2>2. /\ pc[t] \notin {"write_voters", "write_votes"}
        /\ pc'[t] \notin {"write_voters", "write_votes"}
        /\ \A u \in Threads \ {t} : pc'[u] = pc[u] /\ vote'[u] = vote[u]
    BY <1>7 DEF RefuseVote, SetElectionStatus, FindVoter, Respond, GetElection, ReadFlag, Enter, Reply,
       NextWrite, call, CoreInv, TypeOK
  <2>3. UNCHANGED InProgress
    BY <2>1, <2>2 DEF InProgress
  <2> QED
    BY <1>u, <2>1, <2>3 DEF Marked, Pairs
<1>8. ASSUME NEW t \in Threads
      PROVE  ~WriteFails(t)
  BY <1>0 DEF WriteFails, CoreInv, TypeOK
<1>9. CASE WriteSecret \/ UNCHANGED vars
  <2>1. UNCHANGED <<disk, hasVoted, castBy, pc, vote, crashes>>
    BY <1>9 DEF WriteSecret, vars, ram, files, history, call, counters
  <2>2. phase # "down" <=> phase' # "down"
    BY <1>9 DEF WriteSecret, vars
  <2>3. UNCHANGED <<Marked, Pairs>>
    BY <2>1, <2>2 DEF Marked, InProgress, Pairs
  <2> QED
    BY <1>u, <2>1, <2>3
<1> QED
  BY <1>1, <1>2, <1>3, <1>4, <1>5, <1>6, <1>7, <1>8, <1>9 DEF Next, Step

(* As long as no write has failed, record_vote and set_election_status are *)
(* atomic, in every interleaving and with any number of crashes.           *)
THEOREM CallsAreAtomic == Spec => AtomicSpec
<1>1. CoreInv /\ ElectionInv /\ AheadByOne /\ [Next]_vars
        => [failures' = 0 => Atomic!Next]_(Atomic!vars)
  BY AtomicStep
<1> QED
  BY <1>1, AtomicInit, CoreInvariance, ElectionInvariance, AheadInvariance, PTL DEF Spec, AtomicSpec

(* Where writes cannot fail, that is the whole of the specification.       *)
THEOREM AtomicWithoutFailures ==
  ASSUME MaxFailures = 0
  PROVE  Spec => Atomic!Spec
<1>1. CoreInv' => failures' = 0
  BY DEF CoreInv, TypeOK
<1>2. CoreInv /\ CoreInv' /\ ElectionInv /\ AheadByOne /\ [Next]_vars => [Atomic!Next]_(Atomic!vars)
  BY <1>1, AtomicStep
<1> QED
  BY <1>2, AtomicInit, CoreInvariance, ElectionInvariance, AheadInvariance, PTL DEF Spec, Atomic!Spec

(* A vote is accepted or refused on what the atomic store holds at the     *)
(* moment the call enters the lock.                                        *)
THEOREM CallsDecideOnStore == Spec => []DecidesOnStore
<1>1. CoreInv /\ ElectionInv => DecidesOnStore
  <2> SUFFICES ASSUME CoreInv, ElectionInv, failures = 0, phase = "up", LockIsFree,
                      NEW v \in VoterIds, NEW c \in CandidateIds
               PROVE  (Refusal(v, c) = "none") <=> Atomic!Accepts(v, c)
    BY DEF DecidesOnStore
  <2>1. Marked = hasVoted /\ disk.election = election
    BY SeenByCalls
  <2>2. Atomic!Accepts(v, c)
          <=> election.status = "open" /\ c \in Candidates /\ v \in Voters \ hasVoted
    BY <2>1 DEF Atomic!Accepts
  <2> QED
    BY <2>2 DEF Refusal, AlreadyVoted
<1> QED
  BY <1>1, CoreInvariance, ElectionInvariance, PTL
=============================================================================
