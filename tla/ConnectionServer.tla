------------------------- MODULE ConnectionServer -------------------------
(***************************************************************************)
(* The accept loop and the bounded pool of connection handlers             *)
(* (cpp/src/server.cpp).  A stretch of code under the server's mutex, and  *)
(* a system call, is one step; notify_one comes after the acceptor has     *)
(* released the mutex and is a step of its own.                            *)
(***************************************************************************)
EXTENDS Naturals, Sequences, FiniteSets

CONSTANTS
  Handlers,       \* the handler threads
  Conns,          \* client connections
  NoConn,         \* no connection
  MaxPollFaults   \* bound on poll() failures that end the accept loop

ASSUME ServerAssumption ==
  /\ IsFiniteSet(Handlers) /\ Handlers # {}
  /\ NoConn \notin Conns
  /\ MaxPollFaults \in Nat

VARIABLES
  running, stopping,   \* the lifecycle flags
  listening,           \* the listener and the self-pipe are open
  wake,                \* the self-pipe holds a byte
  idle,                \* handlers not reserved for a connection
  queued,              \* accepted connections that wait for a handler
  conn,                \* what has become of each connection
  apc, aconn,          \* the acceptor's place and its connection
  hpc, hconn,          \* a handler's place and its connection
  pollFaults

flags    == <<running, stopping, listening, wake>>
acceptor == <<apc, aconn>>
handler  == <<hpc, hconn>>
vars     == <<flags, idle, queued, conn, acceptor, handler, pollFaults>>

N == Cardinality(Handlers)

(* Types, part of the inductive invariant of ServerProofs.  *)
TypeOK ==
  /\ idle \in Nat
  /\ queued \in Seq(Conns)
  /\ conn \in [Conns -> {"away", "backlog", "accepted", "queued", "serving",
                         "served", "refused", "dropped", "reset"}]
  /\ aconn \in Conns \cup {NoConn}
  /\ apc \in {"none", "poll", "decide", "notify", "refuse"}
  /\ apc = "decide" => aconn \in Conns
  /\ hpc \in [Handlers -> {"none", "ready", "asleep", "serve", "release"}]
  /\ hconn \in [Handlers -> Conns \cup {NoConn}]

Init ==
  /\ running = FALSE /\ stopping = FALSE /\ listening = FALSE /\ wake = FALSE
  /\ idle = 0
  /\ queued = <<>>
  /\ conn = [c \in Conns |-> "away"]
  /\ apc = "none" /\ aconn = NoConn
  /\ hpc = [h \in Handlers |-> "none"]
  /\ hconn = [h \in Handlers |-> NoConn]
  /\ pollFaults = 0

Becomes(c, fate) == conn' = [conn EXCEPT ![c] = fate]

notify_all ==
  hpc' = [h \in Handlers |-> IF hpc[h] = "asleep" THEN "ready" ELSE hpc[h]]

-----------------------------------------------------------------------------
(* start(), once every thread of an earlier run has been joined.  *)

start ==
  /\ ~running /\ ~listening
  /\ running' = TRUE /\ stopping' = FALSE /\ listening' = TRUE
  /\ idle' = N
  /\ apc' = "poll"
  /\ hpc' = [h \in Handlers |-> "ready"]
  /\ UNCHANGED <<wake, queued, conn, aconn, hconn, pollFaults>>

(* Mutant: no byte is written to the self-pipe.  *)
shutdown_unwoken ==
  /\ running
  /\ running' = FALSE /\ stopping' = TRUE
  /\ notify_all
  /\ UNCHANGED <<listening, wake, idle, queued, conn, acceptor, hconn,
                 pollFaults>>

(* shutdown() up to the joins.  *)
shutdown ==
  /\ running
  /\ running' = FALSE /\ stopping' = TRUE /\ wake' = TRUE
  /\ notify_all
  /\ UNCHANGED <<listening, idle, queued, conn, acceptor, hconn, pollFaults>>

(* All threads joined: the listener, the pipe and what is queued are closed. *)
CloseListener ==
  /\ listening /\ stopping
  /\ apc = "none" /\ \A h \in Handlers : hpc[h] = "none"
  /\ listening' = FALSE /\ wake' = FALSE
  /\ queued' = <<>>
  /\ conn' = [c \in Conns |-> CASE conn[c] = "queued"  -> "dropped"
                                [] conn[c] = "backlog" -> "reset"
                                [] OTHER               -> conn[c]]
  /\ UNCHANGED <<running, stopping, idle, acceptor, handler, pollFaults>>

(* The kernel completes a client's connection to the listening socket.  *)
Connect(c) ==
  /\ listening
  /\ conn[c] = "away"
  /\ Becomes(c, "backlog")
  /\ UNCHANGED <<flags, idle, queued, acceptor, handler, pollFaults>>

-----------------------------------------------------------------------------
(* run_acceptor()  *)

(* poll() reports the listener and not the pipe; accept4 succeeds.  *)
Accept(c) ==
  /\ apc = "poll" /\ ~wake
  /\ conn[c] = "backlog"
  /\ Becomes(c, "accepted")
  /\ apc' = "decide" /\ aconn' = c
  /\ UNCHANGED <<flags, idle, queued, handler, pollFaults>>

(* poll() reports the pipe, or fails: the loop ends.  *)
AcceptorExit ==
  /\ apc = "poll"
  /\ \/ wake /\ UNCHANGED pollFaults
     \/ pollFaults < MaxPollFaults /\ pollFaults' = pollFaults + 1
  /\ apc' = "none"
  /\ UNCHANGED <<flags, idle, queued, conn, aconn, handler>>

(* Mutant: the acceptor waits for a handler instead of refusing.  *)
Decide_waits ==
  /\ apc = "decide"
  /\ ~stopping /\ idle > 0
  /\ idle' = idle - 1
  /\ queued' = Append(queued, aconn)
  /\ Becomes(aconn, "queued")
  /\ apc' = "notify"
  /\ UNCHANGED <<flags, aconn, handler, pollFaults>>

(* The slot is reserved under the mutex, or the connection refused.  *)
Decide ==
  /\ apc = "decide"
  /\ IF ~stopping /\ idle > 0
     THEN /\ idle' = idle - 1
          /\ queued' = Append(queued, aconn)
          /\ Becomes(aconn, "queued")
          /\ apc' = "notify"
     ELSE /\ apc' = "refuse"
          /\ UNCHANGED <<idle, queued, conn>>
  /\ UNCHANGED <<flags, aconn, handler, pollFaults>>

(* Mutant: the queued connection is not announced.  *)
Notify_silent ==
  /\ apc = "notify"
  /\ apc' = "poll" /\ aconn' = NoConn
  /\ UNCHANGED <<flags, idle, queued, conn, handler, pollFaults>>

(* work_ready.notify_one(): one sleeper, whichever, if there is one.  *)
Notify ==
  LET asleep == {h \in Handlers : hpc[h] = "asleep"} IN
  /\ apc = "notify"
  /\ apc' = "poll" /\ aconn' = NoConn
  /\ IF asleep = {} THEN UNCHANGED hpc
     ELSE \E h \in asleep : hpc' = [hpc EXCEPT ![h] = "ready"]
  /\ UNCHANGED <<flags, idle, queued, conn, hconn, pollFaults>>

(* 503, bounded by the send deadline, and close.  *)
Refuse ==
  /\ apc = "refuse"
  /\ Becomes(aconn, "refused")
  /\ apc' = "poll" /\ aconn' = NoConn
  /\ UNCHANGED <<flags, idle, queued, handler, pollFaults>>

-----------------------------------------------------------------------------
(* run_handler()  *)

HGoto(h, label) == hpc' = [hpc EXCEPT ![h] = label]

Sleep(h) ==
  /\ hpc[h] = "ready"
  /\ queued = <<>> /\ ~stopping
  /\ HGoto(h, "asleep")
  /\ UNCHANGED <<flags, idle, queued, conn, acceptor, hconn, pollFaults>>

SpuriousWakeup(h) ==
  /\ hpc[h] = "asleep"
  /\ HGoto(h, "ready")
  /\ UNCHANGED <<flags, idle, queued, conn, acceptor, hconn, pollFaults>>

(* Mutant: a stopping handler leaves connections in the queue.  *)
Exit_early(h) ==
  /\ hpc[h] = "ready"
  /\ stopping
  /\ HGoto(h, "none")
  /\ UNCHANGED <<flags, idle, queued, conn, acceptor, hconn, pollFaults>>

Exit(h) ==
  /\ hpc[h] = "ready"
  /\ queued = <<>> /\ stopping
  /\ HGoto(h, "none")
  /\ UNCHANGED <<flags, idle, queued, conn, acceptor, hconn, pollFaults>>

(* Mutant: the slot is taken when the handler wakes, too.  *)
Take_decrements(h) ==
  /\ hpc[h] = "ready"
  /\ queued # <<>>
  /\ queued' = Tail(queued)
  /\ idle' = idle - 1
  /\ Becomes(Head(queued), "serving")
  /\ HGoto(h, "serve")
  /\ hconn' = [hconn EXCEPT ![h] = Head(queued)]
  /\ UNCHANGED <<flags, acceptor, pollFaults>>

Take(h) ==
  /\ hpc[h] = "ready"
  /\ queued # <<>>
  /\ queued' = Tail(queued)
  /\ Becomes(Head(queued), "serving")
  /\ HGoto(h, "serve")
  /\ hconn' = [hconn EXCEPT ![h] = Head(queued)]
  /\ UNCHANGED <<flags, idle, acceptor, pollFaults>>

(* The connection handler returns and the descriptor is closed.  *)
Serve(h) ==
  /\ hpc[h] = "serve"
  /\ Becomes(hconn[h], "served")
  /\ HGoto(h, "release")
  /\ hconn' = [hconn EXCEPT ![h] = NoConn]
  /\ UNCHANGED <<flags, idle, queued, acceptor, pollFaults>>

Release(h) ==
  /\ hpc[h] = "release"
  /\ idle' = idle + 1
  /\ HGoto(h, "ready")
  /\ UNCHANGED <<flags, queued, conn, acceptor, hconn, pollFaults>>

-----------------------------------------------------------------------------

AcceptorStep ==
  \/ \E c \in Conns : Accept(c)
  \/ AcceptorExit \/ Decide \/ Notify \/ Refuse

HandlerStep(h) == Sleep(h) \/ Exit(h) \/ Take(h) \/ Release(h)

Next ==
  \/ start \/ shutdown \/ CloseListener
  \/ \E c \in Conns : Connect(c)
  \/ AcceptorStep
  \/ \E h \in Handlers : HandlerStep(h) \/ Serve(h) \/ SpuriousWakeup(h)

Spec == Init /\ [][Next]_vars

(* The threads are scheduled, but a client may keep its handler for ever.  *)
FairSpec ==
  /\ Spec
  /\ WF_vars(AcceptorStep)
  /\ \A h \in Handlers : WF_vars(HandlerStep(h))
  /\ WF_vars(CloseListener)

(* The receive and send deadlines end every exchange.  *)
DeadlinesHold == \A h \in Handlers : WF_vars(Serve(h))

-----------------------------------------------------------------------------
(* Properties.  *)

(* The reserved slots are exact while the listener is open: a handler is     *)
(* idle, promised to a queued connection or serving one, so that no          *)
(* connection is queued behind a busy pool (server.cpp, run_acceptor).       *)
SlotsAreExact ==
  listening => idle + Len(queued)
                 + Cardinality({h \in Handlers :
                                  hpc[h] \in {"serve", "release"}}) = N

(* Shutdown lets every connection it accepted be served: the clean-up loop   *)
(* of shutdown() never finds one to drop.                                    *)
NothingDropped == \A c \in Conns : conn[c] # "dropped"

(* The accept loop has ended on a poll() error although the server runs.  *)
Deaf == running /\ apc = "none"

(* Every connection is answered, by a handler or with 503, or is reset with  *)
(* the listener; none hangs in the queue, and none in the backlog unless the *)
(* accept loop has died of a poll() error.                                   *)
EveryConnectionEnds ==
  DeadlinesHold =>
    \A c \in Conns :
      /\ conn[c] = "backlog"
           ~> conn[c] \in {"served", "refused", "reset"} \/ Deaf
      /\ conn[c] = "queued" ~> conn[c] = "served"

(* shutdown() returns: the acceptor and the handlers end and are joined,     *)
(* from whatever place the call finds them in.                               *)
ShutdownReturns == DeadlinesHold => (stopping ~> ~listening)

(* A pool full of stalled clients does not silence the control plane         *)
(* (ADR-0013): a newcomer still gets past the backlog, if only to be told    *)
(* that the handlers are busy.                                               *)
NewcomerIsAnswered ==
  \A c \in Conns :
    conn[c] = "backlog"
      ~> conn[c] \notin {"backlog", "accepted"} \/ stopping \/ Deaf
=============================================================================
