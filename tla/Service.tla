------------------------------ MODULE Service ------------------------------
(***************************************************************************)
(* The daemon's processes (cpp/src/service.cpp, main.cpp): the stop        *)
(* signals, the singleton lock (singleton.cpp), the start and the stop of  *)
(* the service, the connection handlers that reach the manager through     *)
(* g_dispatch, and what the processes share: the lock file and the         *)
(* database (store.cpp, open and next_sequence).                           *)
(*                                                                         *)
(* The main thread's place is pc; a call that another process, another     *)
(* thread or a crash can come between is a step.  The worker pool and the  *)
(* handlers are what the lifecycle sees of them: one worker that may be in *)
(* the middle of a move, and one handler (JobManager and ConnectionServer  *)
(* have the detail).  A caller may start a stopped Service again.          *)
(***************************************************************************)
EXTENDS Integers, FiniteSets

CONSTANTS
  Procs,         \* processes configured with the same database
  Nobody,        \* no process
  Inodes,        \* the objects a lock file's name can denote
  Width,         \* bits of the int that next_sequence reads through
  MaxLaunches,   \* bound on processes launched
  MaxAgain,      \* bound on start() calls after the first of a process
  MaxSignals,    \* bound on stop signals sent
  MaxFaults,     \* bound on failing calls
  MaxCrashes,    \* bound on processes that are killed
  MaxEarlier,    \* submissions before the first launch, if there are any
  MaxSubmits     \* bound on POST /api/jobs

ASSUME ServiceAssumption ==
  /\ Nobody \notin Procs
  /\ Inodes \subseteq Nat \ {0} /\ IsFiniteSet(Inodes) /\ Inodes # {}
  /\ Width \in Nat \ {0}
  /\ {MaxLaunches, MaxAgain, MaxSignals, MaxFaults, MaxCrashes, MaxEarlier,
      MaxSubmits} \subseteq Nat

VARIABLES
  pc,            \* the main thread's place
  flag,          \* g_stop_requested
  pending,       \* a stop signal is blocked and pending
  lockFile,      \* the object under the lock file's name, 0 if none
  holder,        \* who holds the flock of each object
  fd,            \* the lock object a process has open, 0 if none
  subscribed,    \* the log sink is subscribed to the process's publisher
  manager,       \* the JobManager object
  storeOpen,     \* the process has connections to the database
  existed,       \* open(): the file was there before
  dispatch,      \* g_dispatch is set
  server,        \* the listener and the handler pool
  hpc, hseq,     \* the handler's place, the sequence number it was given
  busy,          \* a worker is in the middle of a move
  told,          \* what the service manager was told last
  watchdog,      \* the watchdog thread is running
  watchdog_stop, \* its stop flag
  watched,       \* the service manager asked this process for pings
  db,            \* the database: its file, user_version and sequence
  rows,          \* the submission recorded under each identifier, 0 if none
  submits, launches, again, signals, faults, crashes   \* the bounds used

lock    == <<lockFile, holder, fd>>
signal  == <<flag, pending>>
object  == <<subscribed, manager, storeOpen, existed, dispatch>>
threads == <<server, hpc, hseq, busy>>
notice  == <<told, watchdog, watchdog_stop, watched>>
durable == <<db, rows>>
budget  == <<submits, launches, again, signals, faults, crashes>>
vars    == <<pc, lock, signal, object, threads, notice, durable, budget>>

Place == {"down", "load", "mask", "acquire", "flock", "subscribe",
          "open", "version", "create", "spawn", "listen", "unwind",
          "unwindJoin", "ready", "test", "suspend", "asleep", "stopping",
          "joinWatchdog", "joinHandlers", "joinWorkers", "release", "idle"}

(* What sqlite3_column_int and the cast to uint64 make of the sequence: the  *)
(* low bits; the negative half of the int is the top of the uint64 range.    *)
Id(n) == n % (2 ^ Width)

Ids == 0..(2 ^ Width - 1)

(* Types, part of the inductive invariant of ServiceProofs.  *)
TypeOK ==
  /\ pc \in [Procs -> Place]
  /\ lockFile \in Inodes \cup {0}
  /\ holder \in [Inodes -> Procs \cup {Nobody}]
  /\ fd \in [Procs -> Inodes \cup {0}]
  /\ manager \in [Procs -> {"none", "new", "running", "stopping"}]
  /\ server \in [Procs -> {"closed", "accepting", "draining"}]
  /\ hpc \in [Procs -> {"none", "idle", "serve", "call", "insert"}]
  /\ told \in [Procs -> {"nothing", "READY", "STOPPING"}]
  /\ db = [file |-> db.file, version |-> db.version, next |-> db.next]
  /\ rows = [i \in Ids |-> rows[i]]

(* No process yet; the database is absent, empty, another build's, or ours   *)
(* with the submissions of earlier runs.                                     *)
Init ==
  /\ pc = [p \in Procs |-> "down"]
  /\ flag = [p \in Procs |-> FALSE] /\ pending = [p \in Procs |-> FALSE]
  /\ lockFile = 0
  /\ holder = [i \in Inodes |-> Nobody] /\ fd = [p \in Procs |-> 0]
  /\ subscribed = [p \in Procs |-> FALSE]
  /\ manager = [p \in Procs |-> "none"]
  /\ storeOpen = [p \in Procs |-> FALSE] /\ existed = [p \in Procs |-> FALSE]
  /\ dispatch = [p \in Procs |-> FALSE]
  /\ server = [p \in Procs |-> "closed"]
  /\ hpc = [p \in Procs |-> "none"] /\ hseq = [p \in Procs |-> 0]
  /\ busy = [p \in Procs |-> FALSE]
  /\ told = [p \in Procs |-> "nothing"]
  /\ watchdog = [p \in Procs |-> FALSE]
  /\ watchdog_stop = [p \in Procs |-> FALSE]
  /\ watched = [p \in Procs |-> FALSE]
  /\ db \in [file : {TRUE}, version : {1}, next : {0, MaxEarlier}]
              \cup [file : {TRUE}, version : {0, 2}, next : {0}]
              \cup [file : {FALSE}, version : {0}, next : {0}]
  /\ rows = [i \in Ids |-> LET first == IF i = 0 THEN 2 ^ Width ELSE i
                            IN  IF first <= db.next THEN first ELSE 0]
  /\ submits = 0 /\ launches = 0 /\ again = 0 /\ signals = 0 /\ faults = 0
  /\ crashes = 0

Goto(p, place) == pc' = [pc EXCEPT ![p] = place]

(* A call fails.  *)
Fault ==
  /\ faults < MaxFaults /\ faults' = faults + 1
  /\ UNCHANGED <<submits, launches, again, signals, crashes>>

(* Closing the descriptor gives up the flock, if there was one.  *)
CloseLock(p) ==
  /\ holder' = [i \in Inodes |-> IF i = fd[p] /\ holder[i] = p
                                 THEN Nobody ELSE holder[i]]
  /\ fd' = [fd EXCEPT ![p] = 0]

(* Mutant: release() removes the lock file before it closes it.  *)
release_unlinks(p) ==
  /\ CloseLock(p)
  /\ lockFile' = IF fd[p] = 0 THEN lockFile ELSE 0

(* SingletonLock::release(): the file stays.  *)
release(p) ==
  /\ CloseLock(p)
  /\ UNCHANGED lockFile

-----------------------------------------------------------------------------
(* The process.  *)

Launch(p) ==
  /\ pc[p] = "down"
  /\ launches < MaxLaunches /\ launches' = launches + 1
  /\ \E w \in BOOLEAN : watched' = [watched EXCEPT ![p] = w]
  /\ Goto(p, "load")
  /\ UNCHANGED <<lock, signal, object, threads, told, watchdog,
                 watchdog_stop, durable, submits, again, signals, faults,
                 crashes>>

(* Everything in the process's memory, and its locks, are gone.  *)
Gone(p) ==
  /\ Goto(p, "down")
  /\ flag' = [flag EXCEPT ![p] = FALSE]
  /\ pending' = [pending EXCEPT ![p] = FALSE]
  /\ CloseLock(p) /\ UNCHANGED lockFile
  /\ subscribed' = [subscribed EXCEPT ![p] = FALSE]
  /\ manager' = [manager EXCEPT ![p] = "none"]
  /\ storeOpen' = [storeOpen EXCEPT ![p] = FALSE]
  /\ existed' = [existed EXCEPT ![p] = FALSE]
  /\ dispatch' = [dispatch EXCEPT ![p] = FALSE]
  /\ server' = [server EXCEPT ![p] = "closed"]
  /\ hpc' = [hpc EXCEPT ![p] = "none"]
  /\ hseq' = [hseq EXCEPT ![p] = 0]
  /\ busy' = [busy EXCEPT ![p] = FALSE]
  /\ told' = [told EXCEPT ![p] = "nothing"]
  /\ watchdog' = [watchdog EXCEPT ![p] = FALSE]
  /\ watchdog_stop' = [watchdog_stop EXCEPT ![p] = FALSE]
  /\ watched' = [watched EXCEPT ![p] = FALSE]
  /\ UNCHANGED durable

(* main returns: an argument or the configuration was refused, the handlers  *)
(* or the mask could not be set, start() was refused or stop() returned.     *)
Exit(p) ==
  /\ pc[p] \in {"load", "mask", "idle"}
  /\ Gone(p)
  /\ UNCHANGED budget

Crash(p) ==
  /\ pc[p] # "down"
  /\ crashes < MaxCrashes /\ crashes' = crashes + 1
  /\ Gone(p)
  /\ UNCHANGED <<submits, launches, again, signals, faults>>

(* load_config_file and check_config accept the configuration;               *)
(* install_signal_handlers(): the handlers, and then the mask.               *)
InstallHandlers(p) ==
  /\ pc[p] = "load"
  /\ Goto(p, "mask")
  /\ UNCHANGED <<lock, signal, object, threads, notice, durable, budget>>

BlockSignals(p) ==
  /\ pc[p] = "mask"
  /\ Goto(p, "acquire")
  /\ UNCHANGED <<lock, signal, object, threads, notice, durable, budget>>

(* Mutant: the stop signals are never blocked.  *)
Signal_unblocked(p) ==
  /\ pc[p] # "down"
  /\ signals < MaxSignals /\ signals' = signals + 1
  /\ IF pc[p] = "load" THEN Gone(p)
     ELSE /\ flag' = [flag EXCEPT ![p] = TRUE]
          /\ pc' = [pc EXCEPT ![p] = IF @ = "asleep" THEN "test" ELSE @]
          /\ UNCHANGED <<pending, lock, object, threads, notice, durable>>
  /\ UNCHANGED <<submits, launches, again, faults, crashes>>

(* SIGINT or SIGTERM: the default action before the handlers are installed,  *)
(* on_stop_signal() while it is not blocked, and pending otherwise.          *)
Signal(p) ==
  /\ pc[p] # "down"
  /\ signals < MaxSignals /\ signals' = signals + 1
  /\ \/ pc[p] = "load" /\ Gone(p)
     \/ /\ pc[p] \in {"mask", "asleep"}
        /\ flag' = [flag EXCEPT ![p] = TRUE]
        /\ pc' = [pc EXCEPT ![p] = IF @ = "asleep" THEN "test" ELSE @]
        /\ UNCHANGED <<pending, lock, object, threads, notice, durable>>
     \/ /\ pc[p] \notin {"load", "mask", "asleep"}
        /\ pending' = [pending EXCEPT ![p] = TRUE]
        /\ UNCHANGED <<pc, flag, lock, object, threads, notice, durable>>
  /\ UNCHANGED <<submits, launches, again, faults, crashes>>

(* wait_for_stop_signal(): the loop's test.  *)
TestFlag(p) ==
  /\ pc[p] = "test"
  /\ Goto(p, IF flag[p] THEN "stopping" ELSE "suspend")
  /\ UNCHANGED <<lock, signal, object, threads, notice, durable, budget>>

(* sigsuspend(): unblocks and sleeps in one step, so that a pending signal   *)
(* is delivered and ends it.                                                 *)
Suspend(p) ==
  /\ pc[p] = "suspend"
  /\ IF pending[p]
     THEN /\ pending' = [pending EXCEPT ![p] = FALSE]
          /\ flag' = [flag EXCEPT ![p] = TRUE]
          /\ Goto(p, "test")
     ELSE /\ Goto(p, "asleep")
          /\ UNCHANGED signal
  /\ UNCHANGED <<lock, object, threads, notice, durable, budget>>

-----------------------------------------------------------------------------
(* Service::start()  *)

(* A caller of a Service that is not running calls start() again.  *)
StartAgain(p) ==
  /\ pc[p] = "idle"
  /\ again < MaxAgain /\ again' = again + 1
  /\ Goto(p, "acquire")
  /\ UNCHANGED <<lock, signal, object, threads, notice, durable, submits,
                 launches, signals, faults, crashes>>

(* SingletonLock::acquire() as far as open_lock_file(), which creates the    *)
(* file if there is none.                                                    *)
OpenLockFile(p) ==
  /\ pc[p] = "acquire"
  /\ \/ /\ IF lockFile # 0 THEN UNCHANGED lockFile
           ELSE \E i \in Inodes : /\ \A q \in Procs : fd[q] # i
                                  /\ lockFile' = i
        /\ fd' = [fd EXCEPT ![p] = lockFile']
        /\ Goto(p, "flock")
        /\ UNCHANGED budget
     \/ /\ Fault
        /\ Goto(p, "idle")
        /\ UNCHANGED <<lockFile, fd>>
  /\ UNCHANGED <<holder, signal, object, threads, notice, durable>>

(* flock(LOCK_EX | LOCK_NB), and the descriptor closed if it is refused or   *)
(* fails.                                                                    *)
Flock(p) ==
  /\ pc[p] = "flock"
  /\ \/ /\ holder[fd[p]] = Nobody
        /\ holder' = [holder EXCEPT ![fd[p]] = p]
        /\ Goto(p, "subscribe")
        /\ UNCHANGED <<fd, budget>>
     \/ /\ (holder[fd[p]] # Nobody /\ UNCHANGED budget) \/ Fault
        /\ CloseLock(p)
        /\ Goto(p, "idle")
  /\ UNCHANGED <<lockFile, signal, object, threads, notice, durable>>

(* The log sink; a duplicate subscription is refused.  *)
Subscribe(p) ==
  /\ pc[p] = "subscribe"
  /\ IF subscribed[p]
     THEN /\ release(p)
          /\ Goto(p, "idle")
          /\ UNCHANGED object
     ELSE /\ subscribed' = [subscribed EXCEPT ![p] = TRUE]
          /\ manager' = [manager EXCEPT ![p] = "new"]
          /\ Goto(p, "open")
          /\ UNCHANGED <<lock, storeOpen, existed, dispatch>>
  /\ UNCHANGED <<signal, threads, notice, durable, budget>>

(* Mutant: the subscription is left behind.  *)
Abandon_subscribed(p) ==
  /\ manager' = [manager EXCEPT ![p] = "none"]
  /\ storeOpen' = [storeOpen EXCEPT ![p] = FALSE]
  /\ dispatch' = [dispatch EXCEPT ![p] = FALSE]
  /\ release(p)
  /\ Goto(p, "idle")
  /\ UNCHANGED <<subscribed, existed>>

(* A failed start: delete the manager, whose connections close with it,      *)
(* clear g_dispatch, unsubscribe, release the lock.                          *)
Abandon(p) ==
  /\ manager' = [manager EXCEPT ![p] = "none"]
  /\ storeOpen' = [storeOpen EXCEPT ![p] = FALSE]
  /\ dispatch' = [dispatch EXCEPT ![p] = FALSE]
  /\ subscribed' = [subscribed EXCEPT ![p] = FALSE]
  /\ existed' = [existed EXCEPT ![p] = FALSE]
  /\ release(p)
  /\ Goto(p, "idle")

(* JobManager::start() opens the store (JobStore::open): stat, and the open  *)
(* that creates the file.                                                    *)
OpenStore(p) ==
  /\ pc[p] = "open"
  /\ \/ /\ existed' = [existed EXCEPT ![p] = db.file]
        /\ storeOpen' = [storeOpen EXCEPT ![p] = TRUE]
        /\ db' = [db EXCEPT !.file = TRUE]
        /\ Goto(p, "version")
        /\ UNCHANGED <<lock, subscribed, manager, dispatch, budget>>
     \/ Fault /\ Abandon(p) /\ UNCHANGED db
  /\ UNCHANGED <<signal, threads, notice, rows>>

(* Mutant: a store that was there before is taken to have its schema.  *)
ReadVersion_trusting(p) ==
  /\ pc[p] = "version"
  /\ IF existed[p] \/ db.version = 1
     THEN Goto(p, "spawn") /\ UNCHANGED <<lock, object>>
     ELSE Goto(p, "create") /\ UNCHANGED <<lock, object>>
  /\ UNCHANGED <<signal, threads, notice, durable, budget>>

(* The integrity check, the PRAGMAs read back, and user_version; neither 0   *)
(* nor ours is refused.                                                      *)
ReadVersion(p) ==
  /\ pc[p] = "version"
  /\ \/ /\ db.version \in {0, 1}
        /\ Goto(p, IF db.version = 0 THEN "create" ELSE "spawn")
        /\ UNCHANGED <<lock, object, budget>>
     \/ db.version = 2 /\ Abandon(p) /\ UNCHANGED budget
     \/ Fault /\ Abandon(p)
  /\ UNCHANGED <<signal, threads, notice, durable>>

(* The schema and user_version in one transaction.  *)
CreateSchema(p) ==
  /\ pc[p] = "create"
  /\ \/ /\ db' = [db EXCEPT !.version = 1]
        /\ Goto(p, "spawn")
        /\ UNCHANGED <<lock, object, budget>>
     \/ Fault /\ Abandon(p) /\ UNCHANGED db
  /\ UNCHANGED <<signal, threads, notice, rows>>

(* The workers are spawned and g_dispatch is set.  *)
SpawnWorkers(p) ==
  /\ pc[p] = "spawn"
  /\ manager' = [manager EXCEPT ![p] = "running"]
  /\ dispatch' = [dispatch EXCEPT ![p] = TRUE]
  /\ existed' = [existed EXCEPT ![p] = FALSE]
  /\ Goto(p, "listen")
  /\ UNCHANGED <<lock, signal, subscribed, storeOpen, threads, notice, durable,
                 budget>>

(* ConnectionServer::start(); a failure unwinds everything.  *)
Listen(p) ==
  /\ pc[p] = "listen"
  /\ \/ /\ server' = [server EXCEPT ![p] = "accepting"]
        /\ hpc' = [hpc EXCEPT ![p] = "idle"]
        /\ Goto(p, "ready")
        /\ UNCHANGED budget
     \/ Fault /\ Goto(p, "unwind") /\ UNCHANGED <<server, hpc>>
  /\ UNCHANGED <<lock, signal, object, hseq, busy, notice, durable>>

Unwind(p) ==
  /\ pc[p] = "unwind"
  /\ manager' = [manager EXCEPT ![p] = "stopping"]
  /\ Goto(p, "unwindJoin")
  /\ UNCHANGED <<lock, signal, subscribed, storeOpen, existed, dispatch,
                 threads, notice, durable, budget>>

UnwindJoin(p) ==
  /\ pc[p] = "unwindJoin"
  /\ ~busy[p]
  /\ Abandon(p)
  /\ UNCHANGED <<signal, threads, notice, durable, budget>>

(* Mutant: the stop flag of the last watchdog thread is not reset.  *)
Ready_stale(p) ==
  /\ pc[p] = "ready"
  /\ told' = [told EXCEPT ![p] = "READY"]
  /\ watchdog' = [watchdog EXCEPT ![p] = watched[p]]
  /\ Goto(p, "test")
  /\ UNCHANGED <<lock, signal, object, threads, watchdog_stop, watched,
                 durable, budget>>

(* running, READY=1, and the watchdog thread if it was asked for.  *)
Ready(p) ==
  /\ pc[p] = "ready"
  /\ told' = [told EXCEPT ![p] = "READY"]
  /\ watchdog' = [watchdog EXCEPT ![p] = watched[p]]
  /\ watchdog_stop' = [watchdog_stop EXCEPT ![p] = @ /\ ~watched[p]]
  /\ Goto(p, "test")
  /\ UNCHANGED <<lock, signal, object, threads, watched, durable, budget>>

-----------------------------------------------------------------------------
(* Service::stop()  *)

(* ServiceStopping is published, STOPPING=1 sent, the watchdog told to end.  *)
StopNotify(p) ==
  /\ pc[p] = "stopping"
  /\ told' = [told EXCEPT ![p] = "STOPPING"]
  /\ watchdog_stop' = [watchdog_stop EXCEPT ![p] = TRUE]
  /\ Goto(p, "joinWatchdog")
  /\ UNCHANGED <<lock, signal, object, threads, watchdog, watched, durable,
                 budget>>

(* The watchdog is joined; ConnectionServer::shutdown() up to its joins.  *)
StopServer(p) ==
  /\ pc[p] = "joinWatchdog"
  /\ ~watchdog[p]
  /\ server' = [server EXCEPT ![p] = "draining"]
  /\ Goto(p, "joinHandlers")
  /\ UNCHANGED <<lock, signal, object, hpc, hseq, busy, notice, durable,
                 budget>>

(* Mutant: the handlers are left to end by themselves.  *)
JoinHandlers_detached(p) ==
  /\ pc[p] = "joinHandlers"
  /\ server' = [server EXCEPT ![p] = "closed"]
  /\ dispatch' = [dispatch EXCEPT ![p] = FALSE]
  /\ manager' = [manager EXCEPT ![p] = "stopping"]
  /\ Goto(p, "joinWorkers")
  /\ UNCHANGED <<lock, signal, subscribed, storeOpen, existed, hpc, hseq, busy,
                 notice, durable, budget>>

(* ConnectionServer::shutdown() returns; g_dispatch is cleared, and          *)
(* JobManager::shutdown() begins.                                            *)
JoinHandlers(p) ==
  /\ pc[p] = "joinHandlers"
  /\ hpc[p] = "none"
  /\ server' = [server EXCEPT ![p] = "closed"]
  /\ dispatch' = [dispatch EXCEPT ![p] = FALSE]
  /\ manager' = [manager EXCEPT ![p] = "stopping"]
  /\ Goto(p, "joinWorkers")
  /\ UNCHANGED <<lock, signal, subscribed, storeOpen, existed, hpc, hseq, busy,
                 notice, durable, budget>>

(* JobManager::shutdown() returns; the manager is deleted.  *)
JoinWorkers(p) ==
  /\ pc[p] = "joinWorkers"
  /\ ~busy[p]
  /\ manager' = [manager EXCEPT ![p] = "none"]
  /\ storeOpen' = [storeOpen EXCEPT ![p] = FALSE]
  /\ Goto(p, "release")
  /\ UNCHANGED <<lock, signal, subscribed, existed, dispatch, threads, notice,
                 durable, budget>>

(* The sink comes off, and the lock is released last.  *)
Release(p) ==
  /\ pc[p] = "release"
  /\ subscribed' = [subscribed EXCEPT ![p] = FALSE]
  /\ release(p)
  /\ Goto(p, "idle")
  /\ UNCHANGED <<signal, manager, storeOpen, existed, dispatch, threads, notice,
                 durable, budget>>

-----------------------------------------------------------------------------
(* The other threads.  *)

(* run_watchdog(): ends at the first test of the flag after it is set.  *)
WatchdogExit(p) ==
  /\ watchdog[p] /\ watchdog_stop[p]
  /\ watchdog' = [watchdog EXCEPT ![p] = FALSE]
  /\ UNCHANGED <<pc, lock, signal, object, threads, told, watchdog_stop,
                 watched, durable, budget>>

HGoto(p, place) == hpc' = [hpc EXCEPT ![p] = place]

(* A connection reaches a handler.  *)
TakeConnection(p) ==
  /\ server[p] = "accepting" /\ hpc[p] = "idle"
  /\ submits < MaxSubmits /\ submits' = submits + 1
  /\ HGoto(p, "serve")
  /\ UNCHANGED <<pc, lock, signal, object, server, hseq, busy, notice, durable,
                 launches, again, signals, faults, crashes>>

(* serve(): g_dispatch is read; without a manager the connection is closed   *)
(* unanswered.                                                               *)
Dispatch(p) ==
  /\ hpc[p] = "serve"
  /\ HGoto(p, IF dispatch[p] THEN "call" ELSE "idle")
  /\ UNCHANGED <<pc, lock, signal, object, server, hseq, busy, notice, durable,
                 budget>>

(* JobManager::submit(): refused unless running, and then next_sequence(),   *)
(* whose transaction is committed before the number is used.                 *)
NextSequence(p) ==
  /\ hpc[p] = "call"
  /\ \/ /\ manager[p] = "running"
        /\ db' = [db EXCEPT !.next = @ + 1]
        /\ hseq' = [hseq EXCEPT ![p] = db'.next]
        /\ HGoto(p, "insert")
        /\ UNCHANGED budget
     \/ /\ manager[p] # "running"
        /\ HGoto(p, "idle")
        /\ UNCHANGED <<db, hseq, budget>>
     \/ Fault /\ HGoto(p, "idle") /\ UNCHANGED <<db, hseq>>
  /\ UNCHANGED <<pc, lock, signal, object, server, busy, notice, rows>>

(* Mutant: INSERT OR REPLACE.  *)
RecordIntent_replaces(p) ==
  /\ hpc[p] = "insert"
  /\ rows' = [rows EXCEPT ![Id(hseq[p])] = hseq[p]]
  /\ hseq' = [hseq EXCEPT ![p] = 0]
  /\ HGoto(p, "idle")
  /\ UNCHANGED <<pc, lock, signal, object, server, busy, notice, db, budget>>

(* record_intent() under the identifier made from the number; a duplicate    *)
(* identifier is refused.                                                    *)
RecordIntent(p) ==
  /\ hpc[p] = "insert"
  /\ rows' = [rows EXCEPT ![Id(hseq[p])] = IF @ = 0 THEN hseq[p] ELSE @]
  /\ hseq' = [hseq EXCEPT ![p] = 0]
  /\ HGoto(p, "idle")
  /\ UNCHANGED <<pc, lock, signal, object, server, busy, notice, db, budget>>

HandlerExit(p) ==
  /\ server[p] = "draining" /\ hpc[p] = "idle"
  /\ HGoto(p, "none")
  /\ UNCHANGED <<pc, lock, signal, object, server, hseq, busy, notice, durable,
                 budget>>

(* A worker takes a job, and is done with it.  *)
BeginMove(p) ==
  /\ manager[p] = "running" /\ ~busy[p]
  /\ \E i \in Ids : rows[i] # 0
  /\ busy' = [busy EXCEPT ![p] = TRUE]
  /\ UNCHANGED <<pc, lock, signal, object, server, hpc, hseq, notice, durable,
                 budget>>

EndMove(p) ==
  /\ busy[p]
  /\ busy' = [busy EXCEPT ![p] = FALSE]
  /\ UNCHANGED <<pc, lock, signal, object, server, hpc, hseq, notice, durable,
                 budget>>

-----------------------------------------------------------------------------

MainStep(p) ==
  \/ InstallHandlers(p) \/ BlockSignals(p)
  \/ OpenLockFile(p) \/ Flock(p) \/ Subscribe(p) \/ OpenStore(p)
  \/ ReadVersion(p) \/ CreateSchema(p) \/ SpawnWorkers(p) \/ Listen(p)
  \/ Unwind(p) \/ UnwindJoin(p) \/ Ready(p) \/ TestFlag(p) \/ Suspend(p)
  \/ StopNotify(p) \/ StopServer(p) \/ JoinHandlers(p) \/ JoinWorkers(p)
  \/ Release(p) \/ Exit(p)

HandlerStep(p) ==
  Dispatch(p) \/ NextSequence(p) \/ RecordIntent(p) \/ HandlerExit(p)

Next ==
  \E p \in Procs :
    \/ Launch(p) \/ Crash(p) \/ Signal(p) \/ StartAgain(p)
    \/ MainStep(p) \/ WatchdogExit(p)
    \/ TakeConnection(p) \/ HandlerStep(p)
    \/ BeginMove(p) \/ EndMove(p)

Spec == Init /\ [][Next]_vars

(* Every thread is scheduled; the handler's deadlines and the end of a move  *)
(* are those of ConnectionServer and MoveEngine.                             *)
FairSpec ==
  /\ Spec
  /\ \A p \in Procs : /\ WF_vars(MainStep(p)) /\ WF_vars(WatchdogExit(p))
                      /\ WF_vars(HandlerStep(p)) /\ WF_vars(EndMove(p))

-----------------------------------------------------------------------------
(* Properties.  *)

(* Two processes never have the store open at once, whichever of them is     *)
(* starting, draining or has been killed (L2-CTL-008; singleton.cpp:129,     *)
(* service.cpp:457).                                                         *)
OneInstance ==
  \A p, q \in Procs : storeOpen[p] /\ storeOpen[q] => p = q

(* A connection that reached a handler is answered by a manager that is      *)
(* running: it is never closed for want of one, and the manager is neither   *)
(* shut down nor deleted under it (service.cpp:366, 441).                    *)
ServedByManager ==
  \A p \in Procs : hpc[p] \in {"serve", "call", "insert"} =>
                     dispatch[p] /\ manager[p] = "running"

(* A service that is not running holds nothing, so that it can be started    *)
(* again: no lock, subscription, store, thread or socket is left behind by   *)
(* stop() or by a start() that failed, wherever it failed (L2-CTL-020).      *)
IdleIsClean ==
  \A p \in Procs : pc[p] = "idle" =>
    /\ fd[p] = 0 /\ \A i \in Inodes : holder[i] # p
    /\ ~subscribed[p] /\ ~storeOpen[p] /\ ~dispatch[p]
    /\ manager[p] = "none" /\ server[p] = "closed" /\ hpc[p] = "none"
    /\ ~busy[p] /\ ~watchdog[p]

(* While READY=1 is the last word to the service manager, connections are    *)
(* accepted, the pool runs and the liveness pings it asked for are sent      *)
(* (L2-CTL-011, L2-CTL-012; service.cpp:388-400, 428).                       *)
ReadyMeansServing ==
  \A p \in Procs : told[p] = "READY" =>
    /\ server[p] = "accepting" /\ manager[p] = "running"
    /\ watched[p] => watchdog[p] /\ ~watchdog_stop[p]

(* The pool never runs on a database without its schema, also when an        *)
(* earlier process died between creating the file and the schema (L2-JOB-004;*)
(* store.cpp:333-376).                                                       *)
RunsOnSchema ==
  \A p \in Procs : manager[p] = "running" => storeOpen[p] /\ db.version = 1

(* An identifier names one submission for ever: no restart, crash or wrap of *)
(* the sequence puts another job under it (L2-JOB-013, L2-JOB-015).          *)
IdNamesOneJob ==
  [][\A i \in Ids : rows[i] # 0 => rows'[i] = rows[i]]_vars

(* A stop signal ends the process wherever it finds it: in start(), between  *)
(* the test of the flag and the sleep, asleep, or already stopping           *)
(* (L2-CTL-009; service.cpp:75-100).                                         *)
StopSignalStops ==
  \A p \in Procs : flag[p] \/ pending[p] ~> pc[p] = "down"
=============================================================================
