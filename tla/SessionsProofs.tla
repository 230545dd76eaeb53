---------------------------- MODULE SessionsProofs ----------------------------
(***************************************************************************)
(* For any threads, tokens and lifetimes: no session ends before its time, *)
(* and none that is over is honoured again.                                *)
(***************************************************************************)
EXTENDS Sessions, TLAPS

(* The server starts with an empty table. *)
LEMMA InvInit == Init => IInv
<1> SUFFICES ASSUME Init PROVE IInv
  OBVIOUS
<1>1. TypeOK
  <2>1. 0 \in 0..MaxTime
    BY SessionsAssumption
  <2> QED
    BY <2>1 DEF Init, TypeOK
<1>2. OneLife /\ TokensFresh /\ OverIsOut /\ NoEarlyExpiry /\ OverForGood
  BY DEF Init, OneLife, TokensFresh, OverIsOut, NoEarlyExpiry, OverForGood, Given
<1> QED
  BY <1>1, <1>2 DEF IInv

(* The parts of the invariant beside the types. *)
Parts ==
  /\ OneLife
  /\ TokensFresh
  /\ OverIsOut
  /\ NoEarlyExpiry
  /\ OverForGood

(* The variables keep their types. *)
LEMMA TypeStep ==
  ASSUME IInv, [Next]_vars
  PROVE  TypeOK'
<1> USE SessionsAssumption DEF IInv, TypeOK, Given, Goto, Time, call, purge
<1>1. ASSUME NEW t \in Threads, Login(t) PROVE TypeOK'
  BY <1>1 DEF Login
<1>2. ASSUME NEW t \in Threads, Insert(t) PROVE TypeOK'
  <2> DEFINE session == [role : role[t], expires_at : {now[t] + Ttl}]
  <2>1. session \in SUBSET Session
    BY <1>2 DEF Insert, TokensFresh, Session
  <2>2. /\ table' = [table EXCEPT ![token[t]] = session]
        /\ given' = [given EXCEPT ![token[t]] = session]
    BY <1>2 DEF Insert
  <2> HIDE DEF session
  <2>3. table' \in [Tokens -> SUBSET Session] /\ given' \in [Tokens -> SUBSET Session]
    BY <2>1, <2>2
  <2> QED
    BY <1>2, <2>3 DEF Insert, Finish
<1>3. ASSUME NEW t \in Threads, NEW i \in Given \cup {Unknown}, NEW r \in Roles,
            Request(t, i, r)
     PROVE  TypeOK'
  BY <1>3 DEF Request
<1>4. ASSUME NEW t \in Threads, Resolve(t) PROVE TypeOK'
  BY <1>4 DEF Resolve, Unexpired, Expired
<1>5. ASSUME NEW t \in Threads, Answer(t) PROVE TypeOK'
  BY <1>5 DEF Answer, Finish
<1>6. ASSUME NEW t \in Threads, NEW i \in Given, Logout(t, i) PROVE TypeOK'
  BY <1>6 DEF Logout, Without
<1>7. CASE StartPurge
  BY <1>7 DEF StartPurge
<1>8. CASE EndPurge
  BY <1>8 DEF EndPurge, Kept, Unexpired, Expired
<1>9. CASE Tick
  BY <1>9 DEF Tick
<1>10. CASE SetWall
  BY <1>10 DEF SetWall
<1>11. CASE UNCHANGED vars
  BY <1>11 DEF vars
<1> QED
  BY <1>1, <1>2, <1>3, <1>4, <1>5, <1>6, <1>7, <1>8, <1>9, <1>10, <1>11 DEF Next

(* No step gives a token back its session: a new session's token is fresh, *)
(* and whoever drops a session compared it with a time that has passed.    *)
LEMMA PartsStep ==
  ASSUME IInv, [Next]_vars
  PROVE  Parts'
<1> USE SessionsAssumption DEF IInv, TypeOK, Given, Goto, Time, call, purge, Parts
<1>1. ASSUME NEW t \in Threads, Login(t) PROVE Parts'
  BY <1>1 DEF Login, OneLife, TokensFresh, OverIsOut, NoEarlyExpiry, OverForGood
<1>2. ASSUME NEW t \in Threads, Insert(t) PROVE Parts'
  BY <1>2 DEF Insert, Finish, OneLife, TokensFresh, OverIsOut, NoEarlyExpiry,
     OverForGood, Session
<1>3. ASSUME NEW t \in Threads, NEW i \in Given \cup {Unknown}, NEW r \in Roles,
            Request(t, i, r)
     PROVE  Parts'
  BY <1>3 DEF Request, OneLife, TokensFresh, OverIsOut, NoEarlyExpiry,
     OverForGood
<1>4. ASSUME NEW t \in Threads, Resolve(t) PROVE Parts'
  <2>1. OneLife'
    BY <1>4 DEF Resolve, Unexpired, Expired, OneLife, TokensFresh
  <2>2. TokensFresh'
    BY <1>4 DEF Resolve, TokensFresh
  <2>3. OverIsOut'
    BY <1>4 DEF Resolve, Unexpired, Expired, TokensFresh, OverIsOut
  <2>4. NoEarlyExpiry'
    BY <1>4 DEF Resolve, Unexpired, Expired, Session, OneLife, NoEarlyExpiry
  <2>5. OverForGood'
    BY <1>4 DEF Resolve, Unexpired, Expired, OverIsOut, OverForGood
  <2> QED
    BY <2>1, <2>2, <2>3, <2>4, <2>5
<1>5. ASSUME NEW t \in Threads, Answer(t) PROVE Parts'
  BY <1>5 DEF Answer, Finish, OneLife, TokensFresh, OverIsOut, NoEarlyExpiry,
     OverForGood
<1>6. ASSUME NEW t \in Threads, NEW i \in Given, Logout(t, i) PROVE Parts'
  BY <1>6 DEF Logout, Without, OneLife, TokensFresh, OverIsOut, NoEarlyExpiry,
     OverForGood
<1>7. CASE StartPurge
  BY <1>7 DEF StartPurge, OneLife, TokensFresh, OverIsOut, NoEarlyExpiry,
     OverForGood
<1>8. CASE EndPurge
  <2>1. OneLife'
    BY <1>8 DEF EndPurge, Kept, Unexpired, Expired, OneLife, TokensFresh
  <2>2. TokensFresh'
    BY <1>8 DEF EndPurge, TokensFresh
  <2>3. OverIsOut'
    BY <1>8 DEF EndPurge, Kept, Unexpired, Expired, TokensFresh, OverIsOut
  <2>4. NoEarlyExpiry'
    BY <1>8 DEF EndPurge, Kept, Unexpired, Expired, Session, OneLife, NoEarlyExpiry
  <2>5. OverForGood'
    BY <1>8 DEF EndPurge, Kept, Unexpired, Expired, OverIsOut, OverForGood
  <2> QED
    BY <2>1, <2>2, <2>3, <2>4, <2>5
<1>9. CASE Tick
  <2>1. OneLife'
    BY <1>9 DEF Tick, OneLife, TokensFresh
  <2>2. TokensFresh'
    BY <1>9 DEF Tick, TokensFresh
  <2>3. OverIsOut'
    BY <1>9 DEF Tick, TokensFresh, OverIsOut
  <2>4. NoEarlyExpiry'
    BY <1>9 DEF Tick, Session, OneLife, NoEarlyExpiry
  <2>5. OverForGood'
    BY <1>9 DEF Tick, OverIsOut, OverForGood
  <2> QED
    BY <2>1, <2>2, <2>3, <2>4, <2>5
<1>10. CASE SetWall
  BY <1>10 DEF SetWall, OneLife, TokensFresh, OverIsOut, NoEarlyExpiry,
     OverForGood
<1>11. CASE UNCHANGED vars
  BY <1>11 DEF vars, OneLife, TokensFresh, OverIsOut, NoEarlyExpiry, OverForGood
<1> QED
  BY <1>1, <1>2, <1>3, <1>4, <1>5, <1>6, <1>7, <1>8, <1>9, <1>10, <1>11 DEF Next
-----------------------------------------------------------------------------
(* The inductive invariant holds at every moment. *)
THEOREM Invariance == Spec => []IInv
<1>1. IInv /\ [Next]_vars => IInv'
  BY TypeStep, PartsStep DEF IInv, Parts
<1> QED
  BY <1>1, InvInit, PTL DEF Spec

(* A session stays in the table until its time has come or a logout was    *)
(* answered, whoever resolves or purges with an old time.                  *)
THEOREM SessionsLast == Spec => []NoEarlyExpiry
<1>1. IInv => NoEarlyExpiry
  BY DEF IInv
<1> QED
  BY <1>1, Invariance, PTL

(* A request that arrives after a logout or a refusal was answered for its *)
(* token is refused.                                                       *)
THEOREM NoComeback == Spec => []OverForGood
<1>1. IInv => OverForGood
  BY DEF IInv
<1> QED
  BY <1>1, Invariance, PTL
=============================================================================
