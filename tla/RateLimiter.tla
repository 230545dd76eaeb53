----------------------------- MODULE RateLimiter -----------------------------
(***************************************************************************)
(* src/sessions.py, LoginRateLimiter, as the two login handlers of         *)
(* src/handlers/auth.py use it: check, then the slow comparison of the     *)
(* password outside every lock, then record_failure or record_success.     *)
(* Logins to one identity on several connections overlap anywhere between  *)
(* these three.                                                            *)
(*                                                                         *)
(* A lock is modelled by the time it has left, so that no clock is needed: *)
(* locked_until > now is left > 0.  An identity without an entry counts no *)
(* failures and is not locked, like an entry just made by setdefault.      *)
(***************************************************************************)
EXTENDS Naturals, FiniteSets

CONSTANTS
  Threads,  \* the threads that serve connections
  Keys,     \* voter ids and user names, which share one table
  Max,      \* max_attempts
  Lockout   \* lockout_seconds

ASSUME LimiterAssumption ==
  /\ Max \in Nat \ {0}
  /\ Lockout \in Nat
  /\ IsFiniteSet(Threads)

VARIABLES
  fails,    \* fails of each entry
  left,     \* the time to its locked_until
  pc,       \* where each thread is
  key,      \* the identity of the thread's login, if any
  counted   \* ghost: failures since the last success or the end of the last lock

vars == <<fails, left, pc, key, counted>>

TypeOK ==
  /\ fails \in [Keys -> Nat]
  /\ left \in [Keys -> 0..Lockout]
  /\ pc \in [Threads -> {"idle", "verify", "wrong", "right"}]
  /\ key \in [Threads -> SUBSET Keys]
  /\ counted \in [Keys -> Nat]

Init ==
  /\ fails = [k \in Keys |-> 0]
  /\ left = [k \in Keys |-> 0]
  /\ pc = [t \in Threads |-> "idle"]
  /\ key = [t \in Threads |-> {}]
  /\ counted = [k \in Keys |-> 0]

LockedNeverMutant(k) == FALSE
LockedByCountMutant(k) == fails[k] >= Max
Locked(k) == left[k] > 0

(* check, which raises RATE_LIMITED *)
Limited(t, k) ==
  /\ pc[t] = "idle"
  /\ Locked(k)
  /\ UNCHANGED vars

(* or lets the login go on to the password. *)
Admitted(t, k) ==
  /\ pc[t] = "idle"
  /\ ~Locked(k)
  /\ pc' = [pc EXCEPT ![t] = "verify"]
  /\ key' = [key EXCEPT ![t] = {k}]
  /\ UNCHANGED <<fails, left, counted>>

(* The identity is known and the password is right, or not. *)
VerifyPassword(t) ==
  /\ pc[t] = "verify"
  /\ \E result \in {"wrong", "right"} : pc' = [pc EXCEPT ![t] = result]
  /\ UNCHANGED <<fails, left, key, counted>>

Leave(t) ==
  /\ pc' = [pc EXCEPT ![t] = "idle"]
  /\ key' = [key EXCEPT ![t] = {}]

FailuresMutant(k) == fails[k]

(* The failures that count: none from before a lock that has ended. *)
Failures(k) == IF fails[k] >= Max /\ left[k] = 0 THEN 0 ELSE fails[k]

LockTime(k) == Lockout

RecordFailure(t) ==
  /\ pc[t] = "wrong"
  /\ \E k \in key[t] :
       /\ fails' = [fails EXCEPT ![k] = Failures(k) + 1]
       /\ left' = [left EXCEPT ![k] = IF fails'[k] >= Max THEN LockTime(k) ELSE @]
       /\ counted' = [counted EXCEPT ![k] = @ + 1]
  /\ Leave(t)

(* The entry is removed, with a lock that was set meanwhile. *)
RecordSuccess(t) ==
  /\ pc[t] = "right"
  /\ \E k \in key[t] :
       /\ fails' = [fails EXCEPT ![k] = 0]
       /\ left' = [left EXCEPT ![k] = 0]
       /\ counted' = [counted EXCEPT ![k] = 0]
  /\ Leave(t)

Tick ==
  /\ \E k \in Keys : left[k] > 0
  /\ left' = [k \in Keys |-> IF left[k] > 0 THEN left[k] - 1 ELSE 0]
  /\ counted' = [k \in Keys |-> IF left[k] = 1 THEN 0 ELSE counted[k]]
  /\ UNCHANGED <<fails, pc, key>>

Next ==
  \/ \E t \in Threads :
       \/ \E k \in Keys : Limited(t, k) \/ Admitted(t, k)
       \/ VerifyPassword(t)
       \/ RecordFailure(t)
       \/ RecordSuccess(t)
  \/ Tick

Spec == Init /\ [][Next]_vars

(* Time passes. *)
FairSpec == Spec /\ WF_vars(Tick)
-----------------------------------------------------------------------------
(* Properties.                                                             *)

(* However logins overlap, only those that had been admitted before the    *)
(* lock was set can add to the failures that led to it: no more than one   *)
(* for each other thread.                                                  *)
FailsBounded == \A k \in Keys : fails[k] <= Max - 1 + Cardinality(Threads)

(* An identity is locked for Max failures of its own, all of them after    *)
(* its last successful login and after the end of its last lock.           *)
LockEarned == \A k \in Keys : left[k] > 0 => counted[k] >= Max

(* A lock ends, though clients go on trying: attempts while it is in force *)
(* do not prolong it.                                                      *)
LockEnds == \A k \in Keys : Locked(k) ~> ~Locked(k)
-----------------------------------------------------------------------------
(* The logins to k which may yet count a failure. *)
Pending(k) == {t \in Threads : k \in key[t]}

(* The inductive invariant.  While k is locked no login is let in, so each *)
(* failure that adds to its count takes a login from those pending;        *)
PendingBounded ==
  /\ \A t \in Threads : pc[t] = "idle" => key[t] = {}
  /\ \A t \in Threads : \A k1, k2 \in key[t] : k1 = k2
  /\ \A k \in Keys : left[k] > 0 =>
       fails[k] + Cardinality(Pending(k)) <= Max - 1 + Cardinality(Threads)

(* and the failures that count are some of those since the last success or *)
(* lock; a lock rests on Max of them.                                      *)
CountsAreTrue ==
  \A k \in Keys :
    /\ left[k] > 0 => fails[k] >= Max
    /\ Failures(k) <= counted[k]

IInv ==
  /\ TypeOK
  /\ FailsBounded
  /\ PendingBounded
  /\ CountsAreTrue
=============================================================================
