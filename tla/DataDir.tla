------------------------------- MODULE DataDir -------------------------------
(***************************************************************************)
(* The data directory: what tools/seed_data.py writes into it, what the    *)
(* server of src/store.py loads from it, and _write_json step by step,     *)
(* when a process dies, a write fails or the power does.                   *)
(*                                                                         *)
(* One program uses the directory at a time.  A file's data is safe from a *)
(* power failure after fsync; what open, write and os.replace did to the   *)
(* directory is undone from some moment on, unless it was written back     *)
(* before: the file system keeps such changes in order.  Of the contents,  *)
(* only who is marked in voters.json and who has a ballot in votes.json    *)
(* are told apart; the election's status is left out, so any time is good  *)
(* for a vote.                                                             *)
(***************************************************************************)
EXTENDS Naturals

CONSTANTS
  Voters,     \* the voter ids
  MaxEvents   \* bound: runs of seed_data, crashes, failed writes and power failures

ASSUME DataDirAssumption == MaxEvents \in Nat

VARIABLES
  file,    \* the directory as programs see it
  older,   \* the directories a power failure may bring back instead
  proc,    \* the program at work: "none", "seed", "start" or "up"
  force,   \* was seed_data given --force?
  at,      \* the file being written, if any
  tmp,     \* the temporary file of _write_json, or how far a plain write is
  flags,   \* the voters marked in RAM
  box,     \* the voters with a ballot in RAM
  caller,  \* the voter of the record_vote in progress
  sound,   \* ghost: has a run of seed_data ended, and none begun since?
  fresh,   \* ghost: is what it wrote yet to be written back?
  acked,   \* ghost: the voters given a receipt, as far as power failures allow
  safe,    \* ghost: those of them at the last write-back
  events   \* seed runs and faults so far

disk == <<file, older>>
program == <<proc, force, at, tmp>>
ram == <<flags, box, caller>>
history == <<sound, fresh, acked, safe>>
vars == <<disk, program, ram, history, events>>

Loaded == {"election", "candidates", "voters", "admins"}
Names == Loaded \cup {"votes", "secret"}

(* Data that is complete is in the page cache only, or on the disk too.    *)
Whole == {"cached", "durable"}
States == {"absent", "torn"} \cup Whole

Content == [state : States, who : SUBSET Voters]

TypeOK ==
  /\ file \in [Names -> Content]
  /\ older \subseteq [Names -> Content]
  /\ proc \in {"none", "seed", "start", "up"}
  /\ at \in Names \cup {"none"}
  /\ tmp \in States
  /\ flags \subseteq Voters
  /\ box \subseteq Voters
  /\ caller \subseteq Voters
  /\ force \in BOOLEAN /\ sound \in BOOLEAN /\ fresh \in BOOLEAN
  /\ acked \subseteq Voters
  /\ safe \subseteq Voters
  /\ events \in 0..MaxEvents

Init ==
  /\ file = [n \in Names |-> [state |-> "absent", who |-> {}]]
  /\ older = {}
  /\ proc = "none" /\ force = FALSE /\ at = "none" /\ tmp = "absent"
  /\ flags = {} /\ box = {} /\ caller = {}
  /\ sound = FALSE /\ fresh = FALSE
  /\ acked = {} /\ safe = {}
  /\ events = 0

Event == events < MaxEvents /\ events' = events + 1

Exists(n) == file[n].state # "absent"

Change(n, state, who) ==
  /\ file' = [file EXCEPT ![n] = [state |-> state, who |-> who]]
  /\ older' = older \cup {file}
-----------------------------------------------------------------------------
(***************************************************************************)
(* Plain writes: seed_data's files, one after the other, and server_secret.*)
(***************************************************************************)
(* The order of seed_data's main. *)
AfterSeed(n) ==
  CASE n = "election" -> "candidates"
    [] n = "candidates" -> "voters"
    [] n = "voters" -> "admins"
    [] n = "admins" -> "votes"
    [] n = "votes" -> "secret"
    [] n = "secret" -> "none"

(* Without --force, an existing voters.json ends the run. *)
StartSeed ==
  /\ proc = "none"
  /\ Event
  /\ proc' = "seed"
  /\ force' \in BOOLEAN
  /\ Exists("voters") => force'
  /\ at' = "election"
  /\ sound' = FALSE
  /\ acked' = {} /\ safe' = {}
  /\ UNCHANGED <<disk, tmp, ram, fresh>>

(* open(..., "w") creates the file or empties it. *)
PlainOpen ==
  /\ at # "none"
  /\ proc \in {"seed", "start"}
  /\ tmp = "absent"
  /\ proc = "seed" /\ at = "secret" /\ Exists("secret") => force
  /\ Change(at, "torn", {})
  /\ tmp' = "torn"
  /\ UNCHANGED <<proc, force, at, ram, history, events>>

(* The file is written and closed. *)
PlainClose ==
  /\ proc \in {"seed", "start"}
  /\ tmp = "torn"
  /\ Change(at, "cached", {})
  /\ tmp' = "absent"
  /\ at' = IF proc = "seed" THEN AfterSeed(at) ELSE "none"
  /\ UNCHANGED <<proc, force, ram, history, events>>

(* The last file is written, or there is a secret which is to be kept.     *)
EndSeed ==
  /\ proc = "seed"
  /\ at = "none" \/ (at = "secret" /\ Exists("secret") /\ ~force /\ tmp = "absent")
  /\ proc' = "none"
  /\ at' = "none"
  /\ sound' = TRUE /\ fresh' = TRUE
  /\ UNCHANGED <<disk, force, tmp, ram, acked, safe, events>>
-----------------------------------------------------------------------------
(***************************************************************************)
(* The server: DataStore's constructor, then votes and changes of status,  *)
(* one at a time in the store's lock.                                      *)
(***************************************************************************)
LoadedBoxMutant == {}
LoadedBox == file["votes"].who

(* votes.json need not exist; json.load fails on any other file that is    *)
(* missing or torn.  The secret is taken as it is, or created.             *)
Load ==
  /\ proc = "none"
  /\ \A n \in Loaded : file[n].state \in Whole
  /\ file["votes"].state # "torn"
  /\ proc' = "start"
  /\ flags' = file["voters"].who
  /\ box' = LoadedBox
  /\ at' = IF Exists("secret") THEN "none" ELSE "secret"
  /\ UNCHANGED <<disk, force, tmp, caller, history, events>>

(* The listener is opened; or the certificate is missing, or the port is   *)
(* taken, and the program ends.                                            *)
Serve ==
  /\ proc = "start"
  /\ at = "none"
  /\ \/ proc' = "up" /\ UNCHANGED <<flags, box>>
     \/ proc' = "none" /\ flags' = {} /\ box' = {}
  /\ UNCHANGED <<disk, force, at, tmp, caller, history, events>>

NextWriteMutant(n) == IF n = "vote" THEN "votes" ELSE IF n = "votes" THEN "voters" ELSE "none"

(* record_vote writes the marks, then the ballots. *)
NextWrite(n) == IF n = "vote" THEN "voters" ELSE IF n = "voters" THEN "votes" ELSE "none"

Vote(v) ==
  /\ proc = "up" /\ at = "none"
  /\ v \notin flags
  /\ flags' = flags \cup {v}
  /\ box' = box \cup {v}
  /\ caller' = {v}
  /\ at' = NextWrite("vote")
  /\ UNCHANGED <<disk, proc, force, tmp, history, events>>

SetElectionStatus ==
  /\ proc = "up" /\ at = "none"
  /\ at' = "election"
  /\ UNCHANGED <<disk, proc, force, tmp, ram, history, events>>

SyncedMutant == "cached"
Synced == "durable"

(* _write_json up to os.replace: the temporary file is opened, written     *)
(* and flushed, and forced to the disk.                                    *)
FillTmp ==
  /\ proc = "up" /\ at # "none"
  /\ \/ tmp = "absent" /\ tmp' = "torn"
     \/ tmp = "torn" /\ tmp' = "cached"
     \/ tmp = "cached" /\ tmp' = Synced
  /\ UNCHANGED <<disk, proc, force, at, ram, history, events>>

InRam(n) == IF n = "voters" THEN flags ELSE IF n = "votes" THEN box ELSE {}

(* os.replace; the voter gets the receipt after the last file. *)
Replace ==
  /\ proc = "up" /\ at # "none"
  /\ tmp = Synced
  /\ Change(at, tmp, InRam(at))
  /\ tmp' = "absent"
  /\ at' = NextWrite(at)
  /\ acked' = IF at' = "none" THEN acked \cup caller ELSE acked
  /\ caller' = IF at' = "none" THEN {} ELSE caller
  /\ UNCHANGED <<proc, force, flags, box, sound, fresh, safe, events>>
-----------------------------------------------------------------------------
(***************************************************************************)
(* Faults.                                                                 *)
(***************************************************************************)
(* open, dump, fsync or os.replace raises: the call is abandoned, RAM and  *)
(* the file stay, and the next write begins the temporary file anew.       *)
WriteFails ==
  /\ Event
  /\ proc = "up" /\ at # "none"
  /\ at' = "none" /\ tmp' = "absent" /\ caller' = {}
  /\ UNCHANGED <<disk, proc, force, flags, box, history>>

Halt ==
  /\ proc' = "none"
  /\ at' = "none" /\ tmp' = "absent"
  /\ flags' = {} /\ box' = {} /\ caller' = {}

(* The process dies, or is stopped while its threads are at work. *)
Crash ==
  /\ Event
  /\ proc # "none"
  /\ Halt
  /\ UNCHANGED <<disk, force, history>>

WrittenBack(c) == IF c.state = "cached" THEN [c EXCEPT !.state = "durable"] ELSE c

(* The machine stops: an earlier directory may be back, and data that was  *)
(* in the cache only may be gone.                                          *)
PowerFails ==
  /\ Event
  /\ Halt
  /\ \E d \in older \cup {file} : \E lost \in SUBSET {n \in Names : d[n].state = "cached"} :
       file' = [n \in Names |->
         IF n \in lost THEN [state |-> "torn", who |-> {}] ELSE WrittenBack(d[n])]
  /\ older' = {}
  /\ sound' = (sound /\ ~fresh)
  /\ acked' = safe
  /\ UNCHANGED <<force, fresh, safe>>

(* The system writes back all it has. *)
WriteBack ==
  /\ file' = [n \in Names |-> WrittenBack(file[n])]
  /\ older' = {}
  /\ fresh' = FALSE
  /\ safe' = acked
  /\ UNCHANGED <<program, ram, sound, acked, events>>

Next ==
  \/ StartSeed
  \/ PlainOpen \/ PlainClose \/ EndSeed
  \/ Load \/ Serve
  \/ \E v \in Voters : Vote(v)
  \/ SetElectionStatus
  \/ FillTmp \/ Replace
  \/ WriteFails \/ Crash \/ PowerFails \/ WriteBack

Spec == Init /\ [][Next]_vars
-----------------------------------------------------------------------------
(* Properties.                                                             *)

(* Once seed_data has run to its end, and its files are written back, no   *)
(* crash, failed write or power failure leaves a file the server cannot    *)
(* load: store.py:3, "files are written atomically".                       *)
AlwaysLoads ==
  sound => \A n \in Loaded \cup {"votes"} : file[n].state \in Whole

(* The files never hold a ballot of a voter they do not mark, not even     *)
(* after a power failure that undid one of the two replacements: no voter  *)
(* votes twice (the comment at store.py:153).                              *)
MarkedBeforeCounted == sound => file["votes"].who \subseteq file["voters"].who

(* A ballot whose receipt was given outlives the process, and the power    *)
(* from the next write-back on.                                            *)
ReceiptsKept == sound => acked \subseteq file["votes"].who
-----------------------------------------------------------------------------
(* The inductive invariant.  The server's RAM is not behind the files, and *)
(* marks who has a ballot; voters.json is written before votes.json;       *)
RamAhead ==
  proc \in {"start", "up"} =>
    /\ file["voters"].who \subseteq flags
    /\ file["votes"].who \subseteq box
    /\ sound => box \subseteq flags

Progress ==
  /\ proc = "none" => at = "none"
  /\ at = "none" => tmp = "absent"
  /\ proc = "start" => at \in {"none", "secret"}
  /\ proc = "up" => at \in {"none", "election", "voters", "votes"}
  /\ proc # "up" => caller = {}
  /\ proc = "up" =>
       /\ caller \subseteq box
       /\ at \in {"none", "election"} => caller = {}
       /\ at = "votes" => file["voters"].who = flags

(* seed_data has filled the files before the one it is at;                 *)
SeededBefore(n) ==
  CASE n = "election" -> {}
    [] n = "candidates" -> {"election"}
    [] n = "voters" -> {"election", "candidates"}
    [] n = "admins" -> {"election", "candidates", "voters"}
    [] n = "votes" -> Loaded
    [] n \in {"secret", "none"} -> Loaded \cup {"votes"}

Seeding ==
  proc = "seed" =>
    /\ ~sound /\ acked = {}
    /\ \A n \in SeededBefore(at) : file[n].state \in Whole /\ file[n].who = {}

(* what was written back is durable in every directory a power failure may *)
(* bring back, and each of them is as good as the one in use.              *)
Recoverable(d) ==
  /\ \A n \in Loaded \cup {"votes"} : d[n].state = "durable"
  /\ d["votes"].who \subseteq d["voters"].who
  /\ safe \subseteq d["votes"].who

AllRecoverable ==
  /\ safe \subseteq acked
  /\ sound /\ ~fresh => \A d \in older \cup {file} : Recoverable(d)

IInv ==
  /\ TypeOK
  /\ RamAhead
  /\ Progress
  /\ Seeding
  /\ AlwaysLoads
  /\ MarkedBeforeCounted
  /\ ReceiptsKept
  /\ AllRecoverable
=============================================================================
