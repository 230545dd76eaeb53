--------------------------- MODULE LifecycleProofs ---------------------------
(***************************************************************************)
(* For any number of connections: the server's shutdown loses no thread    *)
(* and no connection.                                                      *)
(***************************************************************************)
EXTENDS Lifecycle, TLAPS

(* The server starts with empty tables. *)
LEMMA InvInit == Init => IInv
BY DEF Init, IInv, TypeOK, TableOfConns, Listed, Reached, Serving, Leaving, Alive

(* The inductive invariant is kept by the accept loop, *)
LEMMA LoopStep ==
  ASSUME IInv,
         \/ CheckStop \/ AcceptTimesOut \/ AcceptFails
         \/ \E c \in Conns : Accept(c) \/ StartThread(c) \/ StartFails(c)
  PROVE  IInv'
<1> USE DEF IInv, Serving, Leaving, Alive, server, tables, ending, Move
<1>1. TypeOK'
  BY DEF TypeOK, CheckStop, AcceptTimesOut, Pruned, AcceptFails,
         Accept, StartThread, StartFails
<1>2. TableOfConns'
  BY DEF TypeOK, TableOfConns, CheckStop, AcceptTimesOut, AcceptFails, Accept,
         StartThread, StartFails
<1>3. Listed'
  BY DEF TypeOK, Listed, CheckStop, AcceptTimesOut, Pruned, AcceptFails, Accept,
         StartThread, StartFails
<1>4. Reached'
  BY DEF TypeOK, Reached, CheckStop, AcceptTimesOut, AcceptFails,
         Accept, StartThread, StartFails
<1> QED
  BY <1>1, <1>2, <1>3, <1>4

(* by a signal, wherever the main thread is, *)
LEMMA SignalStep ==
  ASSUME IInv, Signal \/ RequestStop
  PROVE  IInv'
<1> USE DEF IInv, Serving, Leaving, Alive, tables, ending, EventLocked
<1>1. TypeOK'
  BY DEF TypeOK, Signal, RequestStop, StopByRequest
<1>2. TableOfConns' /\ Listed'
  BY DEF TableOfConns, Listed, Signal, RequestStop
<1>3. Reached'
  <2>1. stop => stop'
    BY DEF Signal, RequestStop, StopByRequest
  <2>2. CASE Signal
    BY <2>1, <2>2 DEF Reached, Signal
  <2>3. CASE RequestStop
    BY <2>3 DEF Reached, RequestStop, StopByRequest
  <2> QED
    BY <2>2, <2>3
<1> QED
  BY <1>1, <1>2, <1>3

(* by shutdown, *)
LEMMA ShutdownStep ==
  ASSUME IInv,
         Snapshot \/ SetStop \/ CloseListener \/ HangUp \/ Exit \/ \E c \in Conns : Join(c) \/ JoinRaises(c)
  PROVE  IInv'
<1> USE DEF IInv, Serving, Leaving, Alive, server, tables, ending
<1>1. TypeOK'
  BY DEF TypeOK, Snapshot, SetStop, CloseListener, HangUp, Exit, Join, JoinRaises, JoinNow
<1>2. TableOfConns'
  BY DEF TypeOK, TableOfConns, Snapshot, SetStop, CloseListener, HangUp, Exit, Join, JoinRaises, JoinNow
<1>3. Listed'
  BY DEF TypeOK, Listed, Snapshot, SetStop, CloseListener, HangUp, Exit, Join, JoinRaises, JoinNow
<1>4. Reached'
  BY DEF TypeOK, TableOfConns, Reached, Snapshot, SetStop, CloseListener, HangUp, Exit, Join, JoinRaises, JoinNow
<1> QED
  BY <1>1, <1>2, <1>3, <1>4

(* and by the thread of every connection. *)
LEMMA ThreadStep ==
  ASSUME IInv, NEW c \in Conns, Thread(c)
  PROVE  IInv'
<1> USE DEF IInv, Serving, Leaving, Alive, server, tables, ending, Move
<1>1. TypeOK'
  BY DEF TypeOK, Thread, Handshake, Register, CheckFlag, Read, ReadEnds, Handle, Leave, Forgotten
<1>2. TableOfConns'
  BY DEF TypeOK, TableOfConns, Thread, Handshake, Register, CheckFlag, Read, ReadEnds, Handle,
         Leave, Forgotten
<1>3. Listed'
  BY DEF TypeOK, Listed, Thread, Handshake, Register, CheckFlag, Read, ReadEnds, Handle, Leave
<1>4. Reached'
  BY DEF TypeOK, Reached, Thread, Handshake, Register, CheckFlag, Read, ReadEnds, Handle, Leave
<1> QED
  BY <1>1, <1>2, <1>3, <1>4

(* A step of nobody keeps it too. *)
LEMMA Stutter == IInv /\ UNCHANGED vars => IInv'
BY DEF IInv, TypeOK, TableOfConns, Listed, Reached, vars, server, tables, ending

(* So it holds at every moment of the server's life. *)
THEOREM Invariance == Spec => []IInv
<1>1. IInv /\ [Next]_vars => IInv'
  BY LoopStep, SignalStep, ShutdownStep, ThreadStep, Stutter DEF Next, Main
<1> QED
  BY <1>1, InvInit, PTL DEF Spec

(* A thread that is alive when the process exits is one whose join timed   *)
(* out: pruning drops only dead threads, and the copy shutdown makes has   *)
(* all others, since no thread is started after it.                        *)
THEOREM ThreadsJoined == Spec => []NoThreadForgotten
<1>1. IInv => NoThreadForgotten
  BY DEF IInv, Listed, NoThreadForgotten, Serving
<1> QED
  BY <1>1, Invariance, PTL

(* The table of connections is exact, so it does not grow with connections *)
(* that have come and gone, and interrupt reaches whoever is in it.        *)
THEOREM TableExact == Spec => []TableOfConns
<1>1. IInv => TableOfConns
  BY DEF IInv
<1> QED
  BY <1>1, Invariance, PTL

(* After a signal to a serving server no thread waits for its client: one  *)
(* that registers after the copy of the table finds the flag set.          *)
THEOREM SignalReachesAll == Spec => []StopReachesAll
<1>1. IInv => StopReachesAll
  BY DEF IInv, Reached, StopReachesAll
<1> QED
  BY <1>1, Invariance, PTL
=============================================================================
