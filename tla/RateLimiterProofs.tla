-------------------------- MODULE RateLimiterProofs --------------------------
(***************************************************************************)
(* For any number of threads, identities and attempts: overlapping logins  *)
(* cannot take the failures of an identity past the bound, and no lock     *)
(* rests on failures that a success or the end of a lock has cleared.      *)
(***************************************************************************)
EXTENDS RateLimiter, FiniteSetTheorems, TLAPS

(* Any set of threads has a number of members, no greater than Threads.    *)
LEMMA SomeThreads ==
  ASSUME NEW S \in SUBSET Threads
  PROVE  /\ IsFiniteSet(S)
         /\ Cardinality(S) \in Nat
         /\ Cardinality(S) <= Cardinality(Threads)
         /\ Cardinality(Threads) \in Nat
<1>1. IsFiniteSet(Threads)
  BY LimiterAssumption
<1>2. /\ IsFiniteSet(S)
      /\ Cardinality(S) <= Cardinality(Threads)
  BY <1>1, FS_Subset
<1> QED
  BY <1>1, <1>2, FS_CardinalityType

(* A set with t taken out has one member less.                             *)
LEMMA OneLess ==
  ASSUME NEW S \in SUBSET Threads, NEW t \in S
  PROVE  /\ Cardinality(S \ {t}) = Cardinality(S) - 1
         /\ Cardinality(S) >= 1
<1>1. IsFiniteSet(S) /\ Cardinality(S) \in Nat
  BY SomeThreads
<1>2. Cardinality(S \ {t}) = Cardinality(S) - 1
  BY <1>1, FS_RemoveElement
<1>3. Cardinality(S \ {t}) \in Nat
  BY SomeThreads
<1> QED
  BY <1>1, <1>2, <1>3

(* No login is under way at the start. *)
LEMMA InvInit == Init => IInv
<1> SUFFICES ASSUME Init PROVE IInv
  OBVIOUS
<1> USE LimiterAssumption DEF Init
<1>1. TypeOK
  BY DEF TypeOK
<1>2. FailsBounded
  <2>1. Cardinality(Threads) \in Nat
    BY SomeThreads
  <2> QED
    BY <2>1 DEF FailsBounded
<1>3. PendingBounded
  BY DEF PendingBounded
<1>4. CountsAreTrue
  BY DEF CountsAreTrue, Failures
<1> QED
  BY <1>1, <1>2, <1>3, <1>4 DEF IInv

(* What a failure changes in the entry of its identity. *)
LEMMA FailureStep ==
  ASSUME IInv, NEW t \in Threads, RecordFailure(t)
  PROVE  \E k \in key[t] :
           /\ k \in Keys
           /\ fails' = [fails EXCEPT ![k] = Failures(k) + 1]
           /\ left' = [left EXCEPT ![k] =
                         IF Failures(k) + 1 >= Max THEN Lockout ELSE left[k]]
           /\ counted' = [counted EXCEPT ![k] = @ + 1]
<1>1. PICK k \in key[t] :
        /\ fails' = [fails EXCEPT ![k] = Failures(k) + 1]
        /\ left' = [left EXCEPT ![k] = IF fails'[k] >= Max THEN Lockout ELSE @]
        /\ counted' = [counted EXCEPT ![k] = @ + 1]
  BY DEF RecordFailure, LockTime
<1>2. k \in Keys /\ fails'[k] = Failures(k) + 1
  BY <1>1 DEF IInv, TypeOK
<1> QED
  BY <1>1, <1>2

(* The variables keep their types. *)
LEMMA TypeStep ==
  ASSUME IInv, [Next]_vars
  PROVE  TypeOK'
<1> USE LimiterAssumption DEF IInv, TypeOK
<1>1. ASSUME NEW t \in Threads, NEW k \in Keys, Limited(t, k) PROVE TypeOK'
  BY <1>1 DEF Limited, vars
<1>2. ASSUME NEW t \in Threads, NEW k \in Keys, Admitted(t, k) PROVE TypeOK'
  BY <1>2 DEF Admitted
<1>3. ASSUME NEW t \in Threads, VerifyPassword(t) PROVE TypeOK'
  BY <1>3 DEF VerifyPassword
<1>4. ASSUME NEW t \in Threads, RecordFailure(t) PROVE TypeOK'
  <2>1. PICK k \in Keys :
          /\ fails' = [fails EXCEPT ![k] = Failures(k) + 1]
          /\ left' = [left EXCEPT ![k] =
                        IF Failures(k) + 1 >= Max THEN Lockout ELSE left[k]]
          /\ counted' = [counted EXCEPT ![k] = @ + 1]
    BY <1>4, FailureStep
  <2>2. Failures(k) \in Nat
    BY DEF Failures
  <2>3. fails' \in [Keys -> Nat] /\ left' \in [Keys -> 0..Lockout]
        /\ counted' \in [Keys -> Nat]
    BY <2>1, <2>2
  <2> QED
    BY <1>4, <2>3 DEF RecordFailure, Leave
<1>5. ASSUME NEW t \in Threads, RecordSuccess(t) PROVE TypeOK'
  BY <1>5 DEF RecordSuccess, Leave
<1>6. CASE Tick
  BY <1>6 DEF Tick
<1>7. CASE UNCHANGED vars
  BY <1>7 DEF vars
<1> QED
  BY <1>1, <1>2, <1>3, <1>4, <1>5, <1>6, <1>7 DEF Next

(* A failure keeps the bounds: it takes its own login from those pending.  *)
LEMMA FailureBounds ==
  ASSUME IInv, NEW t \in Threads, RecordFailure(t)
  PROVE  FailsBounded' /\ PendingBounded' /\ CountsAreTrue'
<1> USE LimiterAssumption
<1>1. PICK k \in key[t] :
        /\ k \in Keys
        /\ fails' = [fails EXCEPT ![k] = Failures(k) + 1]
        /\ left' = [left EXCEPT ![k] =
                      IF Failures(k) + 1 >= Max THEN Lockout ELSE left[k]]
        /\ counted' = [counted EXCEPT ![k] = @ + 1]
  BY FailureStep
<1>2. /\ pc' = [pc EXCEPT ![t] = "idle"]
      /\ key' = [key EXCEPT ![t] = {}]
  BY DEF RecordFailure, Leave
<1> DEFINE N == Cardinality(Threads)
           P(j) == Cardinality(Pending(j))
<1>3. N \in Nat /\ N >= 1
  <2>1. t \in Threads /\ Threads \in SUBSET Threads
    OBVIOUS
  <2> QED
    BY <2>1, SomeThreads, OneLess
<1>4. \A j \in Keys : Pending(j)' = Pending(j) \ {t}
  BY <1>2 DEF Pending, IInv, TypeOK
<1>5. \A j \in Keys : P(j) \in Nat /\ P(j)' \in Nat /\ P(j)' <= P(j)
  <2> TAKE j \in Keys
  <2>1. Pending(j) \in SUBSET Threads
    BY DEF Pending
  <2>2. Pending(j)' = Pending(j) \ {t}
    BY <1>4
  <2>3. IsFiniteSet(Pending(j)) /\ P(j) \in Nat
    BY <2>1, SomeThreads
  <2>4. Cardinality(Pending(j) \ {t}) <= P(j)
    BY <2>3, FS_Subset
  <2>5. Cardinality(Pending(j) \ {t}) \in Nat
    BY <2>1, SomeThreads
  <2> QED
    BY <2>2, <2>3, <2>4, <2>5
<1>6. P(k)' = P(k) - 1 /\ P(k) >= 1 /\ P(k) <= N
  <2>1. Pending(k) \in SUBSET Threads /\ t \in Pending(k)
    BY <1>1 DEF Pending
  <2>2. Pending(k)' = Pending(k) \ {t}
    BY <1>1, <1>4
  <2> QED
    BY <2>1, <2>2, OneLess, SomeThreads
<1>7. /\ \A j \in Keys : left[j] \in Nat /\ fails[j] \in Nat /\ counted[j] \in Nat
      /\ \A j \in Keys : fails[j] <= Max - 1 + N
      /\ \A j \in Keys : left[j] > 0 => fails[j] + P(j) <= Max - 1 + N
      /\ \A j \in Keys : left[j] > 0 => fails[j] >= Max
      /\ \A j \in Keys : Failures(j) <= counted[j]
  BY DEF IInv, TypeOK, FailsBounded, PendingBounded, CountsAreTrue
<1>8. /\ Failures(k) \in Nat
      /\ left[k] > 0 => Failures(k) = fails[k]
      /\ left[k] = 0 => Failures(k) <= Max - 1
  BY <1>1, <1>7 DEF Failures
<1>9. /\ \A j \in Keys : j # k => /\ fails'[j] = fails[j]
                                   /\ left'[j] = left[j]
                                   /\ counted'[j] = counted[j]
      /\ fails'[k] = Failures(k) + 1
      /\ left'[k] = IF Failures(k) + 1 >= Max THEN Lockout ELSE left[k]
      /\ counted'[k] = counted[k] + 1
  BY <1>1 DEF IInv, TypeOK
<1> HIDE DEF N, P
<1>10. FailsBounded'
  <2>1. fails'[k] <= Max - 1 + N
    <3>1. CASE left[k] > 0
      BY <3>1, <1>1, <1>3, <1>5, <1>6, <1>7, <1>8, <1>9
    <3>2. CASE left[k] = 0
      BY <3>2, <1>1, <1>3, <1>8, <1>9
    <3> QED
      BY <3>1, <3>2, <1>1, <1>7
  <2>2. \A j \in Keys : fails'[j] <= Max - 1 + N
    BY <2>1, <1>7, <1>9
  <2> QED
    BY <2>2 DEF FailsBounded, N
<1>11. PendingBounded'
  <2>1. \A s \in Threads : pc'[s] = "idle" => key'[s] = {}
    BY <1>2 DEF IInv, TypeOK, PendingBounded
  <2>2. \A s \in Threads : \A k1, k2 \in key'[s] : k1 = k2
    BY <1>2 DEF IInv, TypeOK, PendingBounded
  <2>3. left'[k] > 0 => fails'[k] + P(k)' <= Max - 1 + N
    <3>1. CASE left[k] > 0
      BY <3>1, <1>1, <1>3, <1>5, <1>6, <1>7, <1>8, <1>9
    <3>2. CASE left[k] = 0
      BY <3>2, <1>1, <1>3, <1>5, <1>6, <1>8, <1>9
    <3> QED
      BY <3>1, <3>2, <1>1, <1>7
  <2>4. ASSUME NEW j \in Keys, j # k, left'[j] > 0
        PROVE  fails'[j] + P(j)' <= Max - 1 + N
    <3>1. fails'[j] = fails[j] /\ left[j] > 0
      BY <2>4, <1>9
    <3>2. fails[j] \in Nat /\ fails[j] + P(j) <= Max - 1 + N
      BY <3>1, <1>7
    <3>3. P(j) \in Nat /\ P(j)' \in Nat /\ P(j)' <= P(j)
      BY <1>5
    <3> QED
      BY <3>1, <3>2, <3>3, <1>3
  <2>5. \A j \in Keys : left'[j] > 0 => fails'[j] + P(j)' <= Max - 1 + N
    BY <2>3, <2>4
  <2> QED
    BY <2>1, <2>2, <2>5 DEF PendingBounded, N, P
<1>12. CountsAreTrue'
  <2>1. /\ left'[k] > 0 => fails'[k] >= Max
        /\ Failures(k)' <= counted'[k]
    BY <1>1, <1>7, <1>8, <1>9 DEF Failures
  <2>2. ASSUME NEW j \in Keys, j # k
        PROVE  /\ left'[j] > 0 => fails'[j] >= Max
               /\ Failures(j)' <= counted'[j]
    BY <2>2, <1>7, <1>9 DEF Failures
  <2> QED
    BY <2>1, <2>2 DEF CountsAreTrue
<1> QED
  BY <1>10, <1>11, <1>12

(* Each other step keeps the bounds. *)
LEMMA BoundsStep ==
  ASSUME IInv, [Next]_vars
  PROVE  FailsBounded' /\ PendingBounded' /\ CountsAreTrue'
<1> DEFINE Bounds == FailsBounded /\ PendingBounded /\ CountsAreTrue
<1> USE LimiterAssumption
<1>0. Bounds /\ TypeOK
  BY DEF IInv
<1>1. ASSUME UNCHANGED vars PROVE Bounds'
  BY <1>0, <1>1 DEF vars, FailsBounded, PendingBounded, CountsAreTrue, Failures, Pending
<1>2. ASSUME NEW t \in Threads, NEW k \in Keys, Limited(t, k) PROVE Bounds'
  BY <1>1, <1>2 DEF Limited
<1>3. ASSUME NEW t \in Threads, NEW k \in Keys, Admitted(t, k) PROVE Bounds'
  <2> USE <1>3 DEF Admitted, Locked
  <2>1. FailsBounded' /\ CountsAreTrue'
    BY <1>0 DEF FailsBounded, CountsAreTrue, Failures
  <2>2. \A j \in Keys : left[j] > 0 => Pending(j)' = Pending(j)
    BY <1>0 DEF PendingBounded, Pending, TypeOK
  <2>3. PendingBounded'
    <3>1. /\ \A s \in Threads : pc'[s] = "idle" => key'[s] = {}
          /\ \A s \in Threads : \A k1, k2 \in key'[s] : k1 = k2
      BY <1>0 DEF PendingBounded, TypeOK
    <3>2. \A j \in Keys : left'[j] > 0 =>
            fails'[j] + Cardinality(Pending(j)') <= Max - 1 + Cardinality(Threads)
      BY <1>0, <2>2 DEF PendingBounded
    <3> QED
      BY <3>1, <3>2 DEF PendingBounded
  <2> QED
    BY <2>1, <2>3
<1>4. ASSUME NEW t \in Threads, VerifyPassword(t) PROVE Bounds'
  <2> USE <1>4 DEF VerifyPassword
  <2>1. FailsBounded' /\ CountsAreTrue'
    BY <1>0 DEF FailsBounded, CountsAreTrue, Failures
  <2>2. PendingBounded'
    BY <1>0 DEF PendingBounded, Pending, TypeOK
  <2> QED
    BY <2>1, <2>2
<1>5. ASSUME NEW t \in Threads, RecordFailure(t) PROVE Bounds'
  BY <1>5, FailureBounds
<1>6. ASSUME NEW t \in Threads, RecordSuccess(t) PROVE Bounds'
  <2>1. PICK k \in key[t] :
          /\ fails' = [fails EXCEPT ![k] = 0]
          /\ left' = [left EXCEPT ![k] = 0]
          /\ counted' = [counted EXCEPT ![k] = 0]
    BY <1>6 DEF RecordSuccess
  <2>2. /\ pc' = [pc EXCEPT ![t] = "idle"]
        /\ key' = [key EXCEPT ![t] = {}]
        /\ Cardinality(Threads) \in Nat
    BY <1>6, SomeThreads DEF RecordSuccess, Leave
  <2>3. /\ fails'[k] = 0 /\ left'[k] = 0 /\ counted'[k] = 0
        /\ \A j \in Keys : j # k => /\ fails'[j] = fails[j]
                                     /\ left'[j] = left[j]
                                     /\ counted'[j] = counted[j]
    BY <1>0, <2>1 DEF TypeOK
  <2>4. FailsBounded' /\ CountsAreTrue'
    BY <1>0, <2>2, <2>3 DEF FailsBounded, CountsAreTrue, Failures, TypeOK
  <2>5. \A j \in Keys : Pending(j) \in SUBSET Threads /\ Pending(j)' \subseteq Pending(j)
    BY <1>0, <2>2 DEF Pending, TypeOK
  <2>6. \A j \in Keys : /\ Cardinality(Pending(j)) \in Nat
                        /\ Cardinality(Pending(j)') \in Nat
                        /\ Cardinality(Pending(j)') <= Cardinality(Pending(j))
    <3> TAKE j \in Keys
    <3>1. Pending(j) \in SUBSET Threads /\ Pending(j)' \in SUBSET Threads
      BY <2>5
    <3>2. IsFiniteSet(Pending(j))
      BY <3>1, SomeThreads
    <3>3. Cardinality(Pending(j)') <= Cardinality(Pending(j))
      BY <3>2, <2>5, FS_Subset
    <3> QED
      BY <3>1, <3>3, SomeThreads
  <2>7. PendingBounded'
    <3>1. /\ \A s \in Threads : pc'[s] = "idle" => key'[s] = {}
          /\ \A s \in Threads : \A k1, k2 \in key'[s] : k1 = k2
      BY <1>0, <2>2 DEF PendingBounded, TypeOK
    <3>2. ASSUME NEW j \in Keys, left'[j] > 0
          PROVE  fails'[j] + Cardinality(Pending(j)') <= Max - 1 + Cardinality(Threads)
      <4>1. j # k /\ fails'[j] = fails[j] /\ left[j] > 0
        BY <2>3, <3>2
      <4>2. fails[j] \in Nat /\ fails[j] + Cardinality(Pending(j)) <= Max - 1 + Cardinality(Threads)
        BY <1>0, <4>1 DEF PendingBounded, TypeOK
      <4> QED
        BY <4>1, <4>2, <2>6, <2>2
    <3> QED
      BY <3>1, <3>2 DEF PendingBounded
  <2> QED
    BY <2>4, <2>7
<1>7. ASSUME Tick PROVE Bounds'
  <2> USE <1>7 DEF Tick
  <2>1. \A j \in Keys : left'[j] > 0 => left[j] > 0
    BY <1>0 DEF TypeOK
  <2>2. FailsBounded'
    BY <1>0 DEF FailsBounded
  <2>3. PendingBounded'
    BY <1>0, <2>1 DEF PendingBounded, Pending
  <2>4. CountsAreTrue'
    BY <1>0, <2>1 DEF CountsAreTrue, Failures, TypeOK
  <2> QED
    BY <2>2, <2>3, <2>4
<1> QED
  BY <1>1, <1>2, <1>3, <1>4, <1>5, <1>6, <1>7 DEF Next

(* Every state the limiter reaches satisfies the inductive invariant. *)
THEOREM Invariance == Spec => []IInv
<1>1. IInv /\ [Next]_vars => IInv'
  <2> SUFFICES ASSUME IInv, [Next]_vars PROVE IInv'
    OBVIOUS
  <2> QED
    BY TypeStep, BoundsStep DEF IInv
<1> QED
  BY InvInit, <1>1, PTL DEF Spec

(* However many logins overlap, the failures of an identity never exceed   *)
(* Max - 1 by more than the number of threads.                             *)
THEOREM OverlapIsBounded == Spec => []FailsBounded
<1>1. IInv => FailsBounded
  BY DEF IInv
<1> QED
  BY Invariance, <1>1, PTL

(* Whoever is locked out has failed Max times since the last success or    *)
(* the end of the last lock.                                               *)
THEOREM LocksAreEarned == Spec => []LockEarned
<1>1. IInv => LockEarned
  BY LimiterAssumption DEF IInv, TypeOK, CountsAreTrue, LockEarned, Failures
<1> QED
  BY Invariance, <1>1, PTL
=============================================================================
