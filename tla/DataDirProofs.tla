---------------------------- MODULE DataDirProofs ----------------------------
(***************************************************************************)
(* For any voters and any number of faults: what the data directory holds  *)
(* after a crash or a power failure can be loaded, marks every voter who   *)
(* has a ballot, and has every ballot that was acknowledged.               *)
(***************************************************************************)
EXTENDS DataDir, TLAPS

(* An empty directory. *)
LEMMA InvInit == Init => IInv
<1> SUFFICES ASSUME Init PROVE IInv
  OBVIOUS
<1>1. /\ file \in [Names -> Content]
      /\ at \in Names \cup {"none"} /\ tmp \in States
      /\ events \in 0..MaxEvents
  BY DataDirAssumption DEF Init, Content, States
<1>2. TypeOK
  BY <1>1 DEF Init, TypeOK
<1>3. RamAhead /\ Progress /\ Seeding
  BY DEF Init, RamAhead, Progress, Seeding
<1>4. AlwaysLoads /\ MarkedBeforeCounted /\ ReceiptsKept /\ AllRecoverable
  BY DEF Init, AlwaysLoads, MarkedBeforeCounted, ReceiptsKept, AllRecoverable
<1> QED
  BY <1>2, <1>3, <1>4 DEF IInv

(* A change of one file changes no other. *)
LEMMA ChangeOne ==
  ASSUME TypeOK, NEW n \in Names, NEW s \in States, NEW w \in SUBSET Voters, Change(n, s, w)
  PROVE  /\ file' \in [Names -> Content]
         /\ older' \subseteq [Names -> Content]
         /\ file'[n] = [state |-> s, who |-> w]
         /\ \A m \in Names \ {n} : file'[m] = file[m]
         /\ older' = older \cup {file}
BY DEF TypeOK, Change, Content

(* Seeding keeps the inductive invariant, *)
LEMMA SeedStep ==
  ASSUME IInv, StartSeed \/ EndSeed
  PROVE  IInv'
<1> USE DataDirAssumption DEF IInv, disk, program, ram, history, Event
<1>1. TypeOK'
  <2>1. /\ proc' \in {"none", "seed", "start", "up"} /\ at' \in Names \cup {"none"}
        /\ events' \in 0..MaxEvents
        /\ acked' \subseteq Voters /\ safe' \subseteq Voters
    BY DEF TypeOK, StartSeed, EndSeed, Names, Loaded
  <2>2. force' \in BOOLEAN /\ sound' \in BOOLEAN /\ fresh' \in BOOLEAN
    BY DEF TypeOK, StartSeed, EndSeed
  <2>3. UNCHANGED <<file, older, tmp, flags, box, caller>>
    BY DEF StartSeed, EndSeed
  <2> QED
    BY <2>1, <2>2, <2>3 DEF TypeOK
<1>2. RamAhead' /\ Progress'
  BY DEF RamAhead, Progress, TypeOK, StartSeed, EndSeed
<1>3. Seeding'
  BY DEF Seeding, StartSeed, EndSeed, SeededBefore
<1>4. EndSeed => \A n \in Loaded \cup {"votes"} : file[n].state \in Whole /\ file[n].who = {}
  BY DEF EndSeed, Seeding, SeededBefore
<1>5. AlwaysLoads' /\ MarkedBeforeCounted' /\ ReceiptsKept'
  BY <1>4 DEF AlwaysLoads, MarkedBeforeCounted, ReceiptsKept, StartSeed, EndSeed, Seeding
<1>6. AllRecoverable'
  BY DEF AllRecoverable, StartSeed, EndSeed
<1> QED
  BY <1>1, <1>2, <1>3, <1>5, <1>6

LEMMA PlainOpenStep ==
  ASSUME IInv, PlainOpen
  PROVE  IInv'
<1> USE DEF IInv, program, ram, history
<1>1. /\ at \in Names /\ (proc = "start" => at = "secret") /\ proc \in {"seed", "start"}
      /\ UNCHANGED <<proc, force, at, ram, history, events>>
  BY DEF PlainOpen, Progress, TypeOK
<1>2. /\ file' \in [Names -> Content] /\ older' \subseteq [Names -> Content]
      /\ \A m \in Names \ {at} : file'[m] = file[m]
      /\ older' = older \cup {file}
  <2>1. Change(at, "torn", {}) /\ "torn" \in States
    BY DEF PlainOpen, States
  <2>2. at \in Names /\ {} \in SUBSET Voters /\ TypeOK
    BY <1>1
  <2> QED
    BY ONLY <2>1, <2>2, ChangeOne
<1>3. TypeOK'
  <2>1. tmp' \in States
    BY DEF PlainOpen, States
  <2> QED
    BY <1>1, <1>2, <2>1 DEF TypeOK
<1>4. RamAhead' /\ Progress'
  BY <1>1, <1>2 DEF RamAhead, Progress, PlainOpen, Names, Loaded
<1>5. Seeding'
  BY <1>1, <1>2 DEF Seeding, SeededBefore, Names, Loaded
<1>6. AlwaysLoads' /\ MarkedBeforeCounted' /\ ReceiptsKept'
  BY <1>1, <1>2 DEF AlwaysLoads, MarkedBeforeCounted, ReceiptsKept, Seeding, Names, Loaded
<1>7. AllRecoverable'
  BY <1>1, <1>2 DEF AllRecoverable, Recoverable, Seeding, Names, Loaded
<1> QED
  BY <1>3, <1>4, <1>5, <1>6, <1>7

LEMMA PlainCloseStep ==
  ASSUME IInv, PlainClose
  PROVE  IInv'
<1> USE DEF IInv, program, ram, history
<1>1. /\ at \in Names /\ (proc = "start" => at = "secret") /\ proc \in {"seed", "start"}
      /\ UNCHANGED <<proc, force, ram, history, events>>
  BY DEF PlainClose, Progress, TypeOK
<1>2. /\ file' \in [Names -> Content] /\ older' \subseteq [Names -> Content]
      /\ file'[at] = [state |-> "cached", who |-> {}]
      /\ \A m \in Names \ {at} : file'[m] = file[m]
      /\ older' = older \cup {file}
  BY <1>1, ChangeOne DEF PlainClose, States, Whole
<1>3. TypeOK' /\ RamAhead' /\ Progress'
  BY <1>1, <1>2 DEF TypeOK, RamAhead, Progress, PlainClose, States, Names, Loaded, AfterSeed
<1>4. Seeding'
  BY <1>1, <1>2 DEF Seeding, SeededBefore, PlainClose, AfterSeed, Names, Loaded, Whole
<1>5. AlwaysLoads' /\ MarkedBeforeCounted' /\ ReceiptsKept'
  BY <1>1, <1>2 DEF AlwaysLoads, MarkedBeforeCounted, ReceiptsKept, Seeding, Names, Loaded
<1>6. AllRecoverable'
  BY <1>1, <1>2 DEF AllRecoverable, Recoverable, Seeding, Names, Loaded
<1> QED
  BY <1>3, <1>4, <1>5, <1>6

(* so do loading the files, and changes of RAM and of the temporary file, *)
LEMMA ServerStep ==
  ASSUME IInv, Load \/ Serve \/ (\E v \in Voters : Vote(v)) \/ SetElectionStatus \/ FillTmp
  PROVE  IInv'
<1> USE DEF IInv, disk, program, ram, history
<1>1. TypeOK'
  BY DEF TypeOK, Load, LoadedBox, Content, Serve, Vote, NextWrite, SetElectionStatus, FillTmp,
         Synced, States, Whole, Names, Loaded
<1>2. RamAhead'
  BY DEF RamAhead, MarkedBeforeCounted, Load, LoadedBox, Serve, Vote, SetElectionStatus, FillTmp
<1>3. Progress'
  BY DEF Progress, Load, Serve, Vote, NextWrite, SetElectionStatus, FillTmp
<1>4. Seeding'
  BY DEF Seeding, Load, Serve, Vote, SetElectionStatus, FillTmp
<1>5. AlwaysLoads' /\ MarkedBeforeCounted' /\ ReceiptsKept' /\ AllRecoverable'
  BY DEF AlwaysLoads, MarkedBeforeCounted, ReceiptsKept, AllRecoverable, Recoverable, Load, Serve,
         Vote, SetElectionStatus, FillTmp
<1> QED
  BY <1>1, <1>2, <1>3, <1>4, <1>5

(* the replacement of a file, *)
LEMMA ReplaceStep ==
  ASSUME IInv, Replace
  PROVE  IInv'
<1> USE DEF IInv, program, ram, history
<1>1. /\ at \in {"election", "voters", "votes"}
      /\ proc = "up" /\ tmp = "durable" /\ proc' = "up"
      /\ InRam(at) \in SUBSET Voters
  BY DEF Replace, Progress, TypeOK, Synced, InRam
<1>2. /\ file' \in [Names -> Content] /\ older' \subseteq [Names -> Content]
      /\ file'[at] = [state |-> "durable", who |-> InRam(at)]
      /\ \A m \in Names \ {at} : file'[m] = file[m]
      /\ older' = older \cup {file}
  <2>1. Change(at, "durable", InRam(at)) /\ "durable" \in States /\ at \in Names
    BY <1>1 DEF Replace, States, Whole, Names, Loaded
  <2> QED
    BY <1>1, <2>1, ChangeOne
<1>3. TypeOK'
  <2>1. at' \in Names \cup {"none"} /\ tmp' \in States
    BY <1>1 DEF Replace, NextWrite, States, Names, Loaded
  <2>2. acked' \subseteq Voters /\ caller' \subseteq Voters
    BY DEF Replace, TypeOK
  <2>3. UNCHANGED <<proc, force, flags, box, sound, fresh, safe, events>>
    BY DEF Replace
  <2> QED
    BY <1>2, <2>1, <2>2, <2>3 DEF TypeOK
<1>4. RamAhead' /\ Progress' /\ Seeding'
  BY <1>1, <1>2 DEF RamAhead, Progress, Seeding, Replace, NextWrite, InRam, Names, Loaded
<1>5. AlwaysLoads' /\ MarkedBeforeCounted' /\ ReceiptsKept'
  BY <1>1, <1>2 DEF AlwaysLoads, MarkedBeforeCounted, ReceiptsKept, RamAhead, Progress, Replace,
                    NextWrite, InRam, Names, Loaded, Whole
<1>6. sound' /\ ~fresh' => Recoverable(file)' /\ \A d \in older \cup {file} : Recoverable(d)'
  BY <1>1, <1>2 DEF AllRecoverable, Recoverable, RamAhead, Progress, Replace, InRam, Names, Loaded
<1>7. AllRecoverable'
  BY <1>1, <1>2, <1>6 DEF AllRecoverable, Recoverable, Replace
<1> QED
  BY <1>3, <1>4, <1>5, <1>7

(* a failed write and a crash, *)
LEMMA CrashStep ==
  ASSUME IInv, WriteFails \/ Crash
  PROVE  IInv'
<1> USE DataDirAssumption DEF IInv, disk, history, Event, Halt
<1>1. TypeOK'
  <2>1. /\ proc' \in {"none", "seed", "start", "up"} /\ at' \in Names \cup {"none"}
        /\ tmp' \in States /\ events' \in 0..MaxEvents
        /\ flags' \subseteq Voters /\ box' \subseteq Voters /\ caller' \subseteq Voters
    BY DEF TypeOK, WriteFails, Crash, States
  <2>2. UNCHANGED <<file, older, force, sound, fresh, acked, safe>>
    BY DEF WriteFails, Crash
  <2> QED
    BY <2>1, <2>2 DEF TypeOK
<1>2. RamAhead' /\ Progress'
  BY DEF RamAhead, Progress, WriteFails, Crash
<1>3. Seeding'
  BY DEF Seeding, WriteFails, Crash
<1>4. AlwaysLoads' /\ MarkedBeforeCounted' /\ ReceiptsKept' /\ AllRecoverable'
  BY DEF AlwaysLoads, MarkedBeforeCounted, ReceiptsKept, AllRecoverable, Recoverable, WriteFails,
         Crash
<1> QED
  BY <1>1, <1>2, <1>3, <1>4

(* a power failure, which brings back one of the recoverable directories,  *)
LEMMA PowerStep ==
  ASSUME IInv, PowerFails
  PROVE  IInv'
<1> USE DataDirAssumption DEF IInv, Event, Halt
<1>1. PICK d \in older \cup {file} : \E lost \in SUBSET {n \in Names : d[n].state = "cached"} :
         file' = [n \in Names |->
           IF n \in lost THEN [state |-> "torn", who |-> {}] ELSE WrittenBack(d[n])]
  BY DEF PowerFails
<1>2. d \in [Names -> Content]
  BY DEF TypeOK
<1>3. /\ file' \in [Names -> Content]
      /\ \A n \in Names : d[n].state = "durable" => file'[n] = d[n]
  BY <1>1, <1>2 DEF Content, WrittenBack, States, Whole
<1>4. TypeOK'
  BY <1>3 DEF TypeOK, PowerFails, States, Names
<1>5. RamAhead' /\ Progress' /\ Seeding'
  BY DEF RamAhead, Progress, Seeding, PowerFails
<1>6. sound' => Recoverable(d)
  BY DEF AllRecoverable, PowerFails
<1>7. sound' => Recoverable(file)' /\ safe' = acked' /\ safe' = safe
  BY <1>3, <1>6 DEF PowerFails, Recoverable, Names, Loaded
<1>8. AlwaysLoads' /\ MarkedBeforeCounted' /\ ReceiptsKept'
  BY <1>7 DEF AlwaysLoads, MarkedBeforeCounted, ReceiptsKept, Recoverable, Whole
<1>9. AllRecoverable'
  BY <1>7 DEF AllRecoverable, Recoverable, PowerFails
<1> QED
  BY <1>4, <1>5, <1>8, <1>9

(* and the system writing back its cache.                                  *)
LEMMA WriteBackStep ==
  ASSUME IInv, WriteBack
  PROVE  IInv'
<1> USE DEF IInv, program, ram
<1>1. /\ file' \in [Names -> Content]
      /\ \A n \in Names : file'[n].who = file[n].who
      /\ \A n \in Names : file[n].state \in Whole => file'[n].state = "durable"
  BY DEF WriteBack, WrittenBack, TypeOK, Content, States, Whole
<1>2. TypeOK'
  BY <1>1 DEF TypeOK, WriteBack
<1>3. RamAhead' /\ Progress'
  BY <1>1 DEF RamAhead, Progress, WriteBack, Names, Loaded
<1>4. Seeding'
  <2>1. SeededBefore(at) \subseteq Names /\ at' = at /\ proc' = proc /\ sound' = sound /\ acked' = acked
    BY DEF SeededBefore, WriteBack, Names, Loaded, TypeOK
  <2> QED
    BY <1>1, <2>1 DEF Seeding, SeededBefore, Whole
<1>5. AlwaysLoads' /\ MarkedBeforeCounted' /\ ReceiptsKept'
  BY <1>1 DEF AlwaysLoads, MarkedBeforeCounted, ReceiptsKept, WriteBack, Names, Loaded, Whole
<1>6. AllRecoverable'
  BY <1>1 DEF AllRecoverable, Recoverable, AlwaysLoads, MarkedBeforeCounted, ReceiptsKept, WriteBack,
              Names, Loaded
<1> QED
  BY <1>2, <1>3, <1>4, <1>5, <1>6

LEMMA Stutter == IInv /\ UNCHANGED vars => IInv'
BY DEF IInv, TypeOK, RamAhead, Progress, Seeding, AlwaysLoads, MarkedBeforeCounted, ReceiptsKept,
       AllRecoverable, Recoverable, vars, disk, program, ram, history

(* The inductive invariant holds whatever faults befall the directory. *)
THEOREM Invariance == Spec => []IInv
<1>1. IInv /\ [Next]_vars => IInv'
  BY SeedStep, PlainOpenStep, PlainCloseStep, ServerStep, ReplaceStep, CrashStep, PowerStep,
     WriteBackStep, Stutter DEF Next
<1> QED
  BY <1>1, InvInit, PTL DEF Spec

(* _write_json leaves no file the server cannot load. *)
THEOREM ServerCanStart == Spec => []AlwaysLoads
<1>1. IInv => AlwaysLoads
  BY DEF IInv
<1> QED
  BY <1>1, Invariance, PTL

(* The order of record_vote's writes holds on the disk as it does in the   *)
(* program: no power failure leaves a ballot without its voter's mark.     *)
THEOREM MarksOutliveFaults == Spec => []MarkedBeforeCounted
<1>1. IInv => MarkedBeforeCounted
  BY DEF IInv
<1> QED
  BY <1>1, Invariance, PTL

(* Acknowledged ballots survive crashes at once, power failures after the  *)
(* next write-back.                                                        *)
THEOREM ReceiptsOutliveFaults == Spec => []ReceiptsKept
<1>1. IInv => ReceiptsKept
  BY DEF IInv
<1> QED
  BY <1>1, Invariance, PTL
=============================================================================
