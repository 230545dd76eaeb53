------------------------------ MODULE Lifecycle ------------------------------
(***************************************************************************)
(* src/server.py: the accept loop, one thread per connection, and the      *)
(* orderly shutdown, with the loop of src/connection.py as far as it       *)
(* looks at the stop flag and src/main.py's signal handler.                *)
(*                                                                         *)
(* The main thread accepts, then shuts down and exits, which kills the     *)
(* threads that are left: all of them are daemons.  What a request's       *)
(* handler does is one step here, and may take for ever.                   *)
(*                                                                         *)
(* A signal's handler runs in the main thread, on top of what that thread  *)
(* was doing.  _stop.set holds the event's lock, which even the thread     *)
(* that has it cannot take twice: a signal delivered inside _stop.set,     *)
(* called by shutdown or by the handler of an earlier signal, leaves the   *)
(* main thread waiting for itself.                                         *)
(***************************************************************************)
EXTENDS FiniteSets

CONSTANT Conns  \* the connections clients make

VARIABLES
  main,       \* where the main thread is
  handler,    \* a signal's handler on top of it: "none", one "setting" the
              \* event, or one "stuck" at the event's lock
  requested,  \* ghost: has a signal asked to stop while the loop was running?
  stop,       \* the event _stop
  listening,  \* is the listener open?
  threads,    \* _threads
  conns,      \* _conns
  thr,        \* where each connection's thread is
  hungUp,     \* the sockets interrupt has shut down
  toHangUp,   \* the connections shutdown has yet to interrupt
  toJoin,     \* the threads it has yet to join
  gaveUp      \* ghost: the threads whose join timed out

server == <<handler, requested, stop, listening>>
tables == <<threads, conns>>
ending == <<toHangUp, toJoin, gaveUp>>
vars == <<main, server, tables, thr, hungUp, ending>>

(* Places of the main thread in serve_forever, and in shutdown. *)
Serving == {"check", "accept", "start"}
Leaving == {"snapshot", "set_stop", "setting", "hang_up", "join", "exited"}

(* A thread that is running. *)
Alive == {"handshake", "register", "check", "read", "handle", "leave"}

TypeOK ==
  /\ main \in Serving \cup Leaving
  /\ handler \in {"none", "setting", "stuck"}
  /\ requested \in BOOLEAN
  /\ stop \in BOOLEAN
  /\ listening \in BOOLEAN
  /\ threads \subseteq Conns
  /\ conns \subseteq Conns
  /\ thr \in [Conns -> {"none", "accepted", "unstarted", "dead"} \cup Alive]
  /\ hungUp \subseteq Conns
  /\ toHangUp \subseteq Conns
  /\ toJoin \subseteq Conns
  /\ gaveUp \subseteq Conns

Init ==
  /\ main = "check"
  /\ handler = "none"
  /\ requested = FALSE
  /\ stop = FALSE
  /\ listening = TRUE
  /\ threads = {}
  /\ conns = {}
  /\ thr = [c \in Conns |-> "none"]
  /\ hungUp = {}
  /\ toHangUp = {}
  /\ toJoin = {}
  /\ gaveUp = {}

Move(c, from, to) == thr[c] = from /\ thr' = [thr EXCEPT ![c] = to]
-----------------------------------------------------------------------------
(***************************************************************************)
(* serve_forever.                                                          *)
(***************************************************************************)
CheckStop ==
  /\ main = "check"
  /\ main' = IF stop THEN "snapshot" ELSE "accept"
  /\ UNCHANGED <<server, tables, thr, hungUp, ending>>

Accept(c) ==
  /\ main = "accept"
  /\ listening
  /\ Move(c, "none", "accepted")
  /\ main' = "start"
  /\ UNCHANGED <<server, tables, hungUp, ending>>

PrunedMutant == {c \in threads : thr[c] \in {"check", "read", "handle"}}

(* _prune_threads keeps the threads that are alive. *)
Pruned == {c \in threads : thr[c] \in Alive}

AcceptTimesOut ==
  /\ main = "accept"
  /\ threads' = Pruned
  /\ main' = "check"
  /\ UNCHANGED <<server, conns, thr, hungUp, ending>>

(* An OSError: the listener is closed, or accept failed, for want of file  *)
(* descriptors for one.  The loop ends either way.                         *)
AcceptFails ==
  /\ main = "accept"
  /\ main' = "snapshot"
  /\ UNCHANGED <<server, tables, thr, hungUp, ending>>

StartThread(c) ==
  /\ main = "start"
  /\ Move(c, "accepted", "handshake")
  /\ threads' = threads \cup {c}
  /\ main' = "check"
  /\ UNCHANGED <<server, conns, hungUp, ending>>

(* thread.start raises, for want of threads in the system: the thread is in *)
(* the list by then, and the exception leaves the loop through shutdown.    *)
StartFails(c) ==
  /\ main = "start"
  /\ Move(c, "accepted", "unstarted")
  /\ threads' = threads \cup {c}
  /\ main' = "snapshot"
  /\ UNCHANGED <<server, conns, hungUp, ending>>

-----------------------------------------------------------------------------
(***************************************************************************)
(* The signal handler, and request_stop in it.                             *)
(***************************************************************************)
(* The main thread is inside _stop.set. *)
EventLocked == main = "setting" \/ handler = "setting"

(* A signal; the handler calls request_stop.  Its _stop.set interrupts     *)
(* none, or one that has or has not set the flag yet.                      *)
Signal ==
  /\ main # "exited"
  /\ handler # "stuck"
  /\ IF EventLocked
     THEN handler' = "stuck" /\ stop' \in {stop, TRUE}
     ELSE handler' = "setting" /\ UNCHANGED stop
  /\ UNCHANGED <<main, requested, listening, tables, thr, hungUp, ending>>

StopByRequestMutant == stop
StopByRequest == TRUE

(* request_stop goes on: the flag is set, the listener closed, and the     *)
(* handler returns to what it interrupted.                                 *)
RequestStop ==
  /\ handler = "setting"
  /\ handler' = "none"
  /\ requested' = (requested \/ main \in Serving)
  /\ stop' = StopByRequest
  /\ listening' = FALSE
  /\ UNCHANGED <<main, tables, thr, hungUp, ending>>
-----------------------------------------------------------------------------
(***************************************************************************)
(* shutdown, called when the loop is left.                                 *)
(***************************************************************************)
Snapshot ==
  /\ main = "snapshot"
  /\ toHangUp' = conns
  /\ toJoin' = threads
  /\ main' = "set_stop"
  /\ UNCHANGED <<server, tables, thr, hungUp, gaveUp>>

(* It enters _stop.set. *)
SetStop ==
  /\ main = "set_stop"
  /\ main' = "setting"
  /\ UNCHANGED <<server, tables, thr, hungUp, ending>>

(* _stop.set returns, and the listener is closed. *)
CloseListener ==
  /\ main = "setting"
  /\ stop' = TRUE
  /\ listening' = FALSE
  /\ main' = "hang_up"
  /\ UNCHANGED <<handler, requested, tables, thr, hungUp, ending>>

(* interrupt: the socket is shut down in both directions. *)
HangUp ==
  /\ main = "hang_up"
  /\ \/ \E c \in toHangUp :
          /\ hungUp' = hungUp \cup {c}
          /\ toHangUp' = toHangUp \ {c}
          /\ UNCHANGED main
     \/ /\ toHangUp = {}
        /\ main' = "join"
        /\ UNCHANGED <<hungUp, toHangUp>>
  /\ UNCHANGED <<server, tables, thr, toJoin, gaveUp>>

JoinHasTimeoutMutant == FALSE
JoinHasTimeout == TRUE

(* join(timeout=2.0) *)
Join(c) ==
  /\ main = "join"
  /\ c \in toJoin
  /\ thr[c] # "unstarted"
  /\ thr[c] = "dead" \/ JoinHasTimeout
  /\ toJoin' = toJoin \ {c}
  /\ gaveUp' = IF thr[c] = "dead" THEN gaveUp ELSE gaveUp \cup {c}
  /\ UNCHANGED <<main, server, tables, thr, hungUp, toHangUp>>

JoinNowMutant(c) == c \in toJoin
JoinNow(c) == toJoin = {c}

(* join raises for a thread that was never started; it is the last of the  *)
(* list, since its failure ended the loop.  The exception ends the process. *)
JoinRaises(c) ==
  /\ main = "join"
  /\ thr[c] = "unstarted"
  /\ JoinNow(c)
  /\ toJoin' = {}
  /\ main' = "exited"
  /\ UNCHANGED <<server, tables, thr, hungUp, toHangUp, gaveUp>>

(* serve_forever and main return; the threads left end with the process.   *)
Exit ==
  /\ main = "join"
  /\ toJoin = {}
  /\ main' = "exited"
  /\ UNCHANGED <<server, tables, thr, hungUp, ending>>
-----------------------------------------------------------------------------
(***************************************************************************)
(* _serve_connection and the connection's loop, in c's thread.             *)
(***************************************************************************)
Handshake(c) ==
  /\ Move(c, "handshake", "register") \/ Move(c, "handshake", "dead")
  /\ UNCHANGED <<main, server, tables, hungUp, ending>>

Register(c) ==
  /\ Move(c, "register", "check")
  /\ conns' = conns \cup {c}
  /\ UNCHANGED <<main, server, threads, hungUp, ending>>

CheckFlag(c) ==
  /\ Move(c, "check", IF stop THEN "leave" ELSE "read")
  /\ UNCHANGED <<main, server, tables, hungUp, ending>>

(* A frame arrives, or did before interrupt came; or the read times out;   *)
Read(c) ==
  /\ \/ Move(c, "read", "handle")
     \/ c \notin hungUp /\ Move(c, "read", "check")
  /\ UNCHANGED <<main, server, tables, hungUp, ending>>

(* or the stream ends, by the client or by interrupt. *)
ReadEnds(c) ==
  /\ Move(c, "read", "leave")
  /\ UNCHANGED <<main, server, tables, hungUp, ending>>

(* The request is processed and answered.  An answer that does not get out *)
(* ends the loop, unless _safe_send has dropped the error.                 *)
Handle(c) ==
  /\ Move(c, "handle", "check") \/ Move(c, "handle", "leave")
  /\ UNCHANGED <<main, server, tables, hungUp, ending>>

Forgotten(c) == conns \ {c}

(* The connection leaves the hub, closes its socket and is forgotten.      *)
Leave(c) ==
  /\ Move(c, "leave", "dead")
  /\ conns' = Forgotten(c)
  /\ UNCHANGED <<main, server, threads, hungUp, ending>>

Thread(c) ==
  /\ main # "exited"
  /\ \/ Handshake(c) \/ Register(c) \/ CheckFlag(c)
     \/ Read(c) \/ ReadEnds(c) \/ Handle(c) \/ Leave(c)

(* The main thread goes on, unless it has a signal to handle.              *)
Main ==
  /\ handler = "none"
  /\ \/ CheckStop
     \/ \E c \in Conns : Accept(c) \/ StartThread(c) \/ StartFails(c)
     \/ AcceptTimesOut
     \/ AcceptFails
     \/ Snapshot
     \/ SetStop
     \/ CloseListener
     \/ HangUp
     \/ \E c \in Conns : Join(c) \/ JoinRaises(c)
     \/ Exit

Next == Main \/ Signal \/ RequestStop \/ \E c \in Conns : Thread(c)

Spec == Init /\ [][Next]_vars

(* Only the main thread is sure to be scheduled: a request's handler may   *)
(* hang.  Between two signals it gets on with its own work.                *)
FairSpec == Spec /\ SF_vars(Main) /\ WF_vars(RequestStop)
-----------------------------------------------------------------------------
(* Properties.                                                             *)

(* Every thread still at work when the process exits is one shutdown has   *)
(* waited for: none was dropped from the list while it was alive, none was *)
(* started that the list does not have, and the join that raises for a     *)
(* thread without a start comes after all others.                          *)
NoThreadForgotten ==
  main = "exited" => \A c \in Conns : thr[c] \in Alive => c \in gaveUp

(* The table of connections holds none that has ended, nor misses one that *)
(* may read.                                                               *)
TableOfConns ==
  \A c \in Conns : c \in conns <=> thr[c] \in {"check", "read", "handle", "leave"}

(* After a signal to a server that accepts, no connection is left waiting  *)
(* for its client: each one saw the flag or was in the table when shutdown *)
(* copied it, wherever its thread was at the time.                         *)
StopReachesAll ==
  requested /\ main \in {"join", "exited"} =>
    \A c \in Conns : thr[c] = "read" => c \in hungUp

(* A signal ends the process, though requests hang and clients are silent, *)
(* unless one is delivered inside _stop.set.                               *)
StopEnds == stop ~> (main = "exited" \/ handler = "stuck")
-----------------------------------------------------------------------------
(* The inductive invariant.  A thread at work is in the list, and from the *)
(* copy of the list on it is in the copy, or its join has timed out; one   *)
(* connection at a time is accepted and yet to be given its thread, and    *)
(* none once the loop has been left;                                       *)
Listed ==
  /\ \A c \in Conns : thr[c] \in Alive =>
       IF main \in Serving \cup {"snapshot"} THEN c \in threads ELSE c \in toJoin \cup gaveUp
  /\ \A c \in Conns : thr[c] = "accepted" =>
       main = "start" /\ \A d \in Conns : thr[d] = "accepted" => d = c
  /\ main = "exited" => toJoin = {}

(* a signal the loop saw has set the flag by the time the table is copied, *)
(* so a thread at a read was in the copy: it is hung up, or will be.       *)
Reached ==
  /\ requested => stop
  /\ requested /\ main \in {"set_stop", "setting", "hang_up", "join", "exited"} =>
       \A c \in Conns : thr[c] = "read" => c \in toHangUp \cup hungUp
  /\ main \in {"join", "exited"} => toHangUp = {}

IInv ==
  /\ TypeOK
  /\ TableOfConns
  /\ Listed
  /\ Reached
=============================================================================
