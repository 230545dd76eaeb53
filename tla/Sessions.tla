------------------------------ MODULE Sessions ------------------------------
(***************************************************************************)
(* src/sessions.py, SessionManager: the table of logged-in tokens, with    *)
(* the requests of src/handlers that use it and the purge thread of        *)
(* src/server.py.                                                          *)
(*                                                                         *)
(* create, resolve and purge_expired read the clock before they take the   *)
(* table's lock: what they do with the table may rest on a time long past. *)
(* A handler goes on with the session resolve returned, whatever becomes   *)
(* of the table meanwhile.                                                 *)
(*                                                                         *)
(* The clock is time.monotonic; the system's clock, which an operator may  *)
(* set, is there to tell the two apart.  A token is a random string no     *)
(* session has had.                                                        *)
(***************************************************************************)
EXTENDS Naturals

CONSTANTS
  Threads,  \* the threads that serve connections
  Tokens,   \* what new_token may return
  Unknown,  \* a token the server never gave out
  Roles,    \* "voter" and "admin"
  Ttl,      \* ttl_seconds
  MaxTime   \* bound: the clocks

ASSUME SessionsAssumption ==
  /\ Unknown \notin Tokens
  /\ Ttl \in Nat \ {0}
  /\ MaxTime \in Nat

VARIABLES
  clock,     \* time.monotonic()
  wall,      \* time.time()
  table,     \* _sessions; a token without a session has none
  pc,        \* where each thread is
  now,       \* the time the thread read before it took the lock
  token,     \* the token of the thread's call
  role,      \* the role the thread's login gives, or its handler requires
  purging,   \* is the purge thread between its clock and its lock?
  purgeNow,  \* the time it read
  given,     \* ghost: the sessions of the tokens the server has given out
  over,      \* ghost: the tokens a logout or a refusal has been answered for
  late       \* ghost: was the thread's token over when its request arrived?

call == <<pc, now, token, role, late>>
purge == <<purging, purgeNow>>
vars == <<clock, wall, table, call, purge, given, over>>

Session == [role : Roles, expires_at : 0..(MaxTime + Ttl)]

TypeOK ==
  /\ clock \in 0..MaxTime
  /\ wall \in 0..MaxTime
  /\ table \in [Tokens -> SUBSET Session]
  /\ pc \in [Threads -> {"idle", "create", "resolve", "refused", "forbidden", "use"}]
  /\ now \in [Threads -> 0..MaxTime]
  /\ token \in [Threads -> Tokens \cup {Unknown}]
  /\ role \in [Threads -> SUBSET Roles]
  /\ purging \in BOOLEAN
  /\ purgeNow \in 0..MaxTime
  /\ given \in [Tokens -> SUBSET Session]
  /\ over \subseteq Tokens
  /\ late \in [Threads -> BOOLEAN]

Init ==
  /\ clock = 0
  /\ wall = 0
  /\ table = [i \in Tokens |-> {}]
  /\ pc = [t \in Threads |-> "idle"]
  /\ now = [t \in Threads |-> 0]
  /\ token = [t \in Threads |-> Unknown]
  /\ role = [t \in Threads |-> {}]
  /\ purging = FALSE
  /\ purgeNow = 0
  /\ given = [i \in Tokens |-> {}]
  /\ over = {}
  /\ late = [t \in Threads |-> FALSE]

(* The tokens clients have been given. *)
Given == {i \in Tokens : given[i] # {}}

Goto(t, place) == pc' = [pc EXCEPT ![t] = place]

(* The thread is done with its request. *)
Finish(t) ==
  /\ Goto(t, "idle")
  /\ now' = [now EXCEPT ![t] = 0]
  /\ token' = [token EXCEPT ![t] = Unknown]
  /\ role' = [role EXCEPT ![t] = {}]
  /\ late' = [late EXCEPT ![t] = FALSE]

TimeMutant == wall
Time == clock

Expired(s, time) == s.expires_at <= time

(* The sessions of a token that are still good. *)
Unexpired(i, time) == {s \in table[i] : ~Expired(s, time)}
-----------------------------------------------------------------------------
(* A login succeeds: create makes the session, *)
Login(t) ==
  /\ pc[t] = "idle"
  /\ \E i \in Tokens \ Given, r \in Roles :
       /\ \A u \in Threads : token[u] # i
       /\ token' = [token EXCEPT ![t] = i]
       /\ role' = [role EXCEPT ![t] = {r}]
  /\ now' = [now EXCEPT ![t] = Time]
  /\ Goto(t, "create")
  /\ UNCHANGED <<clock, wall, table, late, purge, given, over>>

(* and puts it in the table; the token is given to the client. *)
Insert(t) ==
  /\ pc[t] = "create"
  /\ LET session == [role : role[t], expires_at : {now[t] + Ttl}]
     IN  /\ table' = [table EXCEPT ![token[t]] = session]
         /\ given' = [given EXCEPT ![token[t]] = session]
  /\ Finish(t)
  /\ UNCHANGED <<clock, wall, purge, over>>

(* require_role(r) of a request with token i: resolve reads the clock, *)
Request(t, i, r) ==
  /\ pc[t] = "idle"
  /\ token' = [token EXCEPT ![t] = i]
  /\ role' = [role EXCEPT ![t] = {r}]
  /\ now' = [now EXCEPT ![t] = Time]
  /\ late' = [late EXCEPT ![t] = i \in over]
  /\ Goto(t, "resolve")
  /\ UNCHANGED <<clock, wall, table, purge, given, over>>

(* then looks the token up, drops it when it has expired, and the role is  *)
(* compared; the answer is UNAUTHENTICATED, FORBIDDEN or the handler's.    *)
Resolve(t) ==
  /\ pc[t] = "resolve"
  /\ IF token[t] = Unknown
     THEN Goto(t, "refused") /\ UNCHANGED table
     ELSE LET good == Unexpired(token[t], now[t])
          IN  /\ table' = [table EXCEPT ![token[t]] = good]
              /\ Goto(t, IF good = {} THEN "refused"
                         ELSE IF \E s \in good : s.role \notin role[t] THEN "forbidden"
                         ELSE "use")
  /\ UNCHANGED <<clock, wall, now, token, role, late, purge, given, over>>

(* The answer of a request: UNAUTHENTICATED ends the session for the       *)
(* client.                                                                 *)
Answer(t) ==
  /\ pc[t] \in {"use", "forbidden", "refused"}
  /\ over' = over \cup (IF pc[t] = "refused" THEN {token[t]} \ {Unknown} ELSE {})
  /\ Finish(t)
  /\ UNCHANGED <<clock, wall, table, purge, given>>

WithoutMutant(i) == table
Without(i) == [table EXCEPT ![i] = {}]

(* LOGOUT, with no check of the token at all. *)
Logout(t, i) ==
  /\ pc[t] = "idle"
  /\ table' = Without(i)
  /\ over' = over \cup {i}
  /\ UNCHANGED <<clock, wall, call, purge, given>>
-----------------------------------------------------------------------------
(* The purge thread reads the clock, *)
StartPurge ==
  /\ ~purging
  /\ purging' = TRUE
  /\ purgeNow' = Time
  /\ UNCHANGED <<clock, wall, table, call, given, over>>

KeptMutant(i) == IF \A s \in table[i] : ~Expired(s, purgeNow) THEN {} ELSE table[i]
Kept(i) == Unexpired(i, purgeNow)

(* then drops every session that had expired at that time. *)
EndPurge ==
  /\ purging
  /\ purging' = FALSE
  /\ table' = [i \in Tokens |-> Kept(i)]
  /\ UNCHANGED <<clock, wall, call, purgeNow, given, over>>

Tick ==
  /\ clock < MaxTime
  /\ clock' = clock + 1
  /\ UNCHANGED <<wall, table, call, purge, given, over>>

(* The system's clock runs, or is set. *)
SetWall ==
  /\ \E w \in 0..MaxTime : wall' = w
  /\ UNCHANGED <<clock, table, call, purge, given, over>>
-----------------------------------------------------------------------------
Next ==
  \/ \E t \in Threads :
       \/ Login(t)
       \/ Insert(t)
       \/ \E i \in Given \cup {Unknown}, r \in Roles : Request(t, i, r)
       \/ Resolve(t)
       \/ Answer(t)
       \/ \E i \in Given : Logout(t, i)
  \/ StartPurge
  \/ EndPurge
  \/ Tick
  \/ SetWall

Spec == Init /\ [][Next]_vars

(* The purge thread runs once every _PURGE_INTERVAL. *)
FairSpec == Spec /\ WF_vars(StartPurge) /\ WF_vars(EndPurge)
-----------------------------------------------------------------------------
(* Properties.                                                             *)

(* A client is not logged out early: until its time has come, or someone   *)
(* has logged out with its token, the session is in the table, whoever     *)
(* resolves and purges with whatever old time, and however the system's    *)
(* clock is set.                                                           *)
NoEarlyExpiry ==
  \A i \in Tokens : \A s \in given[i] :
    clock < s.expires_at /\ i \notin over => table[i] = {s}

(* What is over is over: a request that arrives after a logout, or after   *)
(* a refusal, was answered for its token is refused, though other threads  *)
(* may still be at work with the session.                                  *)
OverForGood == \A t \in Threads : pc[t] \in {"use", "forbidden"} => ~late[t]

(* An expired session goes, though nobody asks for it again: the table     *)
(* does not grow with every login.                                         *)
TableDrained ==
  \A i \in Tokens :
    (\E s \in table[i] : s.expires_at <= clock) ~> table[i] = {}
-----------------------------------------------------------------------------
(* The inductive invariant.  Times read lie in the past; a token has one   *)
(* session at most in its life, and only that is in the table;             *)
OneLife ==
  /\ purgeNow <= clock
  /\ \A t \in Threads : now[t] <= clock
  /\ \A i \in Tokens : table[i] \subseteq given[i]
  /\ \A i \in Tokens : \A s1, s2 \in given[i] : s1 = s2

(* a new token is the creating thread's alone, other requests name tokens  *)
(* that were given out;                                                    *)
TokensFresh ==
  \A t \in Threads :
    /\ pc[t] = "create" =>
         /\ token[t] \in Tokens \ Given
         /\ \A u \in Threads : token[u] = token[t] => u = t
         /\ \E r \in Roles : role[t] = {r}
    /\ pc[t] # "create" => token[t] \in Given \cup {Unknown}

(* and a token that is over, or about to be refused, is out of the table.  *)
OverIsOut ==
  /\ \A i \in over : i \in Given /\ table[i] = {}
  /\ \A t \in Threads :
       /\ pc[t] = "refused" /\ token[t] # Unknown => table[token[t]] = {}
       /\ late[t] => token[t] \in over /\ pc[t] \in {"resolve", "refused"}

IInv ==
  /\ TypeOK
  /\ OneLife
  /\ TokensFresh
  /\ OverIsOut
  /\ NoEarlyExpiry
  /\ OverForGood
=============================================================================
