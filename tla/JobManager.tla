---------------------------- MODULE JobManager ----------------------------
(***************************************************************************)
(* The job manager (cpp/src/manager.cpp): the worker pool, the dispatch    *)
(* sets, the lifecycle commands and the durable rows they share.           *)
(*                                                                         *)
(* A stretch of code under the manager mutex is one step; so is a store    *)
(* statement, and store_mutex, which a command may hold across several     *)
(* statements, is a variable.  JobStore::update_state is two statements, a *)
(* SELECT and an UPDATE, on a connection that each worker has to itself:   *)
(* the steps "check" and "write".  What a worker does inside the move      *)
(* engine is its durable effect (mover.cpp; MoveEngine has the detail):    *)
(* the states it records and where the job's file is.                      *)
(***************************************************************************)
EXTENDS Naturals, Sequences, FiniteSets, JobCore

CONSTANTS
  Jobs,            \* job identifiers
  RetryIds,        \* the identifiers retry() may allocate, a part of Jobs
  NoJob,           \* no job
  Workers,         \* the threads of the pool
  Clients,         \* the threads that issue commands (HTTP handlers)
  NoClient,        \* nobody
  Menus,           \* which commands each client may issue, the choices
  Pumped,          \* whether anything calls pump()
  DrainedFirst,    \* no command is in progress when shutdown() is called
  MaxAttempts,     \* config.retry_max_attempts
  MaxStoreFaults,  \* bound on failing store calls
  MaxFsFaults,     \* bound on failing system calls of the engine
  FailsForGood,    \* system calls may fail without bound
  MaxCrashes       \* bound on crashes of the process

ASSUME ManagerAssumption ==
  /\ RetryIds \subseteq Jobs
  /\ NoJob \notin Jobs
  /\ NoClient \notin Clients
  /\ IsFiniteSet(Workers) /\ Workers # {}
  /\ \A menu \in Menus : DOMAIN menu = Clients
  /\ {Pumped, DrainedFirst, FailsForGood} \subseteq BOOLEAN
  /\ MaxAttempts \in Nat \ {0}
  /\ {MaxStoreFaults, MaxFsFaults, MaxCrashes} \subseteq Nat

VARIABLES
  running, stopping,   \* the lifecycle flags
  open,                \* the command connection to the store is open
  requests,            \* ids the manager knows (keys of the request map)
  pending,             \* ids claimed by a submit or retry in progress
  runnable,            \* the queue the workers take from
  waiting,             \* ids in backoff (keys of the due-time map)
  paused, active,      \* ids withheld by an operator; ids being executed
  record, attempts,    \* the durable state and attempts columns
  disk,                \* where each job's file is
  wpc, wjob, wto,      \* a worker's place, its job, the state it records
  cpc, cjob, cnew,     \* a client's place, its job, the id it is creating
  was_runnable,        \* cancel()'s local
  commands,            \* what each client may issue
  store_mutex,         \* the client that holds it
  cancelled,           \* history: jobs whose cancel() returned Ok
  halted,              \* history: jobs whose last run stopped past commit
  storeFaults, fsFaults, crashes   \* how much of each bound is used

lifecycle == <<running, stopping, open>>
dispatch  == <<requests, pending, runnable, waiting, paused, active>>
rows      == <<record, attempts>>
worker    == <<wpc, wjob, wto>>
client    == <<cpc, cjob, cnew, was_runnable, store_mutex, commands>>
history   == <<cancelled, halted>>
budget    == <<storeFaults, fsFaults, crashes>>
vars      == <<lifecycle, dispatch, rows, disk, worker, client, history,
               budget>>

WorkerLabel == {"none", "starting", "ready", "asleep", "validate", "check",
                "write", "commit", "finish", "publish", "abort", "reject",
                "settle", "reschedule"}
ClientLabel == {"idle", "record", "publish", "cancelLoad", "cancelCheck",
                "cancelWrite", "cancelBack", "retryLoad", "retryProbe"}

Elements(s) == {s[i] : i \in 1..Len(s)}

(* Types, part of the inductive invariant of ManagerProofs.  *)
TypeOK ==
  /\ requests \subseteq Jobs /\ pending \subseteq Jobs
  /\ runnable \in Seq(Jobs)
  /\ wpc \in [Workers -> WorkerLabel]
  /\ wjob \in [Workers -> Jobs \cup {NoJob}]
  /\ cpc \in [Clients -> ClientLabel]
  /\ cjob \in [Clients -> Jobs \cup {NoJob}]
  /\ cnew \in [Clients -> Jobs \cup {NoJob}]
  /\ was_runnable \in [Clients -> BOOLEAN]
  /\ commands \in Menus
  /\ storeFaults \in Nat

(* The process is up and nothing has started; a source may be missing.  *)
Init ==
  /\ running = FALSE /\ stopping = FALSE /\ open = FALSE
  /\ requests = {} /\ pending = {} /\ runnable = <<>>
  /\ waiting = {} /\ paused = {} /\ active = {}
  /\ record = [j \in Jobs |-> "ABSENT"]
  /\ attempts = [j \in Jobs |-> 0]
  /\ disk \in [Jobs -> {"source", "missing"}]
  /\ \A j \in RetryIds : disk[j] = "missing"
  /\ wpc = [w \in Workers |-> "none"]
  /\ wjob = [w \in Workers |-> NoJob]
  /\ wto = [w \in Workers |-> "QUEUED"]
  /\ cpc = [c \in Clients |-> "idle"]
  /\ cjob = [c \in Clients |-> NoJob]
  /\ cnew = [c \in Clients |-> NoJob]
  /\ was_runnable = [c \in Clients |-> FALSE]
  /\ store_mutex = NoClient
  /\ commands \in Menus
  /\ cancelled = {} /\ halted = {}
  /\ storeFaults = 0 /\ fsFaults = 0 /\ crashes = 0

-----------------------------------------------------------------------------
(* What the steps are made of.  *)

(* A store call fails and has no effect.  *)
StoreFault ==
  /\ storeFaults < MaxStoreFaults
  /\ storeFaults' = storeFaults + 1
  /\ UNCHANGED <<fsFaults, crashes>>

(* A system call of the engine fails and has no effect.  *)
FsFault ==
  /\ \/ FailsForGood /\ UNCHANGED fsFaults
     \/ fsFaults < MaxFsFaults /\ fsFaults' = fsFaults + 1
  /\ UNCHANGED <<storeFaults, crashes>>

(* A command's store call fails by itself, or because shutdown closed it.  *)
CommandStoreFault ==
  \/ ~open /\ UNCHANGED budget
  \/ open /\ StoreFault

(* work_ready.notify_one(): one sleeper, whichever, if there is one.  *)
notify_one ==
  LET asleep == {w \in Workers : wpc[w] = "asleep"}
  IN  IF asleep = {} THEN UNCHANGED wpc
      ELSE \E w \in asleep : wpc' = [wpc EXCEPT ![w] = "ready"]

notify_all ==
  wpc' = [w \in Workers |-> IF wpc[w] = "asleep" THEN "ready" ELSE wpc[w]]

(* push_back, then notify_one.  *)
MakeRunnable(j) ==
  /\ runnable' = Append(runnable, j)
  /\ notify_one

(* take_runnable(): the queue without the first occurrence of j.  *)
take_runnable(j) ==
  IF j \notin Elements(runnable) THEN runnable
  ELSE LET i == CHOOSE k \in 1..Len(runnable) :
                  runnable[k] = j /\ \A m \in 1..(k - 1) : runnable[m] # j
       IN  SubSeq(runnable, 1, i - 1)
             \o SubSeq(runnable, i + 1, Len(runnable))

(* record_attempt(): attempts + 1, saturating where the code stops looking. *)
record_attempt(j) ==
  attempts' = [attempts EXCEPT
                 ![j] = IF @ = MaxAttempts THEN @ ELSE @ + 1]

-----------------------------------------------------------------------------
(* start(), shutdown() and the end of the process.  A manager that has been *)
(* shut down is deleted (Service::stop); the next one is a new process here. *)

Start ==
  /\ ~running /\ ~stopping
  /\ \/ /\ running' = TRUE /\ open' = TRUE
        /\ wpc' = [w \in Workers |-> "starting"]
        /\ UNCHANGED budget
     \/ StoreFault /\ UNCHANGED <<running, open, wpc>>
  /\ UNCHANGED <<stopping, dispatch, rows, disk, wjob, wto, client, history>>

(* Mutant: the sleeping workers are not notified.  *)
Shutdown_silent ==
  /\ running
  /\ DrainedFirst => \A c \in Clients : cpc[c] = "idle"
  /\ running' = FALSE /\ stopping' = TRUE
  /\ UNCHANGED <<open, dispatch, rows, disk, worker, client, history, budget>>

(* shutdown() up to the joins.  Service::stop joins the connection handlers *)
(* before it calls it; other callers of the manager need not.               *)
Shutdown ==
  /\ running
  /\ DrainedFirst => \A c \in Clients : cpc[c] = "idle"
  /\ running' = FALSE /\ stopping' = TRUE
  /\ notify_all
  /\ UNCHANGED <<open, dispatch, rows, disk, wjob, wto, client, history,
                 budget>>

(* Every worker is joined; the command connection is closed.  *)
CloseStore ==
  /\ stopping /\ open
  /\ \A w \in Workers : wpc[w] = "none"
  /\ store_mutex = NoClient
  /\ open' = FALSE
  /\ UNCHANGED <<running, stopping, dispatch, rows, disk, worker, client,
                 history, budget>>

(* The process dies: only the rows and the files survive.  *)
Crash ==
  /\ crashes < MaxCrashes
  /\ crashes' = crashes + 1
  /\ running' = FALSE /\ stopping' = FALSE /\ open' = FALSE
  /\ requests' = {} /\ pending' = {} /\ runnable' = <<>>
  /\ waiting' = {} /\ paused' = {} /\ active' = {}
  /\ wpc' = [w \in Workers |-> "none"]
  /\ wjob' = [w \in Workers |-> NoJob]
  /\ wto' = [w \in Workers |-> "QUEUED"]
  /\ cpc' = [c \in Clients |-> "idle"]
  /\ cjob' = [c \in Clients |-> NoJob]
  /\ cnew' = [c \in Clients |-> NoJob]
  /\ was_runnable' = [c \in Clients |-> FALSE]
  /\ store_mutex' = NoClient
  /\ UNCHANGED <<rows, disk, commands, history, storeFaults, fsFaults>>

-----------------------------------------------------------------------------
(* run_worker().  *)

WGoto(w, label) ==
  /\ wpc' = [wpc EXCEPT ![w] = label]
  /\ UNCHANGED <<wjob, wto>>

(* The worker is about to call update_state(job, to).  *)
WRecord(w, to) ==
  /\ wpc' = [wpc EXCEPT ![w] = "check"]
  /\ wto' = [wto EXCEPT ![w] = to]
  /\ UNCHANGED wjob

(* The worker opens a connection of its own, or contributes nothing.  *)
OpenWorker(w) ==
  /\ wpc[w] = "starting"
  /\ \/ WGoto(w, "ready") /\ UNCHANGED budget
     \/ WGoto(w, "none") /\ StoreFault
  /\ UNCHANGED <<lifecycle, dispatch, rows, disk, client, history>>

(* work_ready.wait(): the predicate is false, so the worker sleeps ...  *)
Sleep(w) ==
  /\ wpc[w] = "ready"
  /\ runnable = <<>> /\ ~stopping
  /\ WGoto(w, "asleep")
  /\ UNCHANGED <<lifecycle, dispatch, rows, disk, client, history, budget>>

(* ... and may wake without having been notified.  *)
SpuriousWakeup(w) ==
  /\ wpc[w] = "asleep"
  /\ WGoto(w, "ready")
  /\ UNCHANGED <<lifecycle, dispatch, rows, disk, client, history, budget>>

(* Mutant: a stopping worker leaves jobs in the queue.  *)
Exit_early(w) ==
  /\ wpc[w] = "ready"
  /\ stopping
  /\ WGoto(w, "none")
  /\ UNCHANGED <<lifecycle, dispatch, rows, disk, client, history, budget>>

Exit(w) ==
  /\ wpc[w] = "ready"
  /\ runnable = <<>> /\ stopping
  /\ WGoto(w, "none")
  /\ UNCHANGED <<lifecycle, dispatch, rows, disk, client, history, budget>>

(* Mutant: front() without pop_front().  *)
Take_unpopped(w) ==
  /\ wpc[w] = "ready"
  /\ runnable # <<>>
  /\ active' = active \cup {Head(runnable)}
  /\ wpc' = [wpc EXCEPT ![w] = "validate"]
  /\ wjob' = [wjob EXCEPT ![w] = Head(runnable)]
  /\ UNCHANGED <<lifecycle, requests, pending, runnable, waiting, paused, rows,
                 disk, wto, client, history, budget>>

(* Mutant: the job is not entered in the active set.  *)
Take_inactive(w) ==
  /\ wpc[w] = "ready"
  /\ runnable # <<>>
  /\ runnable' = Tail(runnable)
  /\ wpc' = [wpc EXCEPT ![w] = "validate"]
  /\ wjob' = [wjob EXCEPT ![w] = Head(runnable)]
  /\ UNCHANGED <<lifecycle, requests, pending, waiting, paused, active, rows,
                 disk, wto, client, history, budget>>

Take(w) ==
  /\ wpc[w] = "ready"
  /\ runnable # <<>>
  /\ runnable' = Tail(runnable)
  /\ active' = active \cup {Head(runnable)}
  /\ wpc' = [wpc EXCEPT ![w] = "validate"]
  /\ wjob' = [wjob EXCEPT ![w] = Head(runnable)]
  /\ halted' = halted \ {Head(runnable)}
  /\ UNCHANGED <<lifecycle, requests, pending, waiting, paused, rows, disk,
                 wto, client, cancelled, budget>>

(* Mutant: a rescheduled job is not put in the backoff map.  *)
Settle_forgets(w) ==
  /\ wpc[w] \in {"settle", "reschedule"}
  /\ active' = active \ {wjob[w]}
  /\ wpc' = [wpc EXCEPT ![w] = "ready"]
  /\ wjob' = [wjob EXCEPT ![w] = NoJob]
  /\ wto' = [wto EXCEPT ![w] = "QUEUED"]
  /\ UNCHANGED <<lifecycle, requests, pending, runnable, waiting, paused, rows,
                 disk, client, history, budget>>

(* The worker returns to the pool, the job off the active set.  *)
Settle(w) ==
  /\ wpc[w] \in {"settle", "reschedule"}
  /\ active' = active \ {wjob[w]}
  /\ waiting' = IF wpc[w] = "reschedule" THEN waiting \cup {wjob[w]}
                ELSE waiting
  /\ wpc' = [wpc EXCEPT ![w] = "ready"]
  /\ wjob' = [wjob EXCEPT ![w] = NoJob]
  /\ wto' = [wto EXCEPT ![w] = "QUEUED"]
  /\ UNCHANGED <<lifecycle, requests, pending, runnable, paused, rows, disk,
                 client, history, budget>>

-----------------------------------------------------------------------------
(* The worker inside MoveEngine::execute.  *)

(* Mutant: a halt past the commit point is handled as a rejection.  *)
Halt_rejects(w) ==
  /\ WGoto(w, "reject")
  /\ halted' = halted \cup {wjob[w]}

(* HaltedAfterCommit: nobody runs the job again by itself.  *)
Halt(w) ==
  /\ WGoto(w, "settle")
  /\ halted' = halted \cup {wjob[w]}

Validate(w) ==
  LET j == wjob[w] IN
  /\ wpc[w] = "validate"
  /\ \/ /\ disk[j] = "source"
        /\ \/ record[j] = "QUEUED" /\ WRecord(w, "RENAMING")
           \/ record[j] \in {"RENAMING", "TRANSFERRING"} /\ WGoto(w, "commit")
           \/ record[j] = "DONE" /\ WGoto(w, "settle")
           \/ record[j] = "FAILED" /\ WGoto(w, "reject")
        /\ UNCHANGED budget
     \/ disk[j] # "source" /\ WGoto(w, "reject") /\ UNCHANGED budget
     \/ StoreFault /\ WGoto(w, "reject")
  /\ UNCHANGED <<lifecycle, dispatch, rows, disk, client, history>>

(* The source moves to the staging name; another run may have been first.  *)
Commit(w) ==
  LET j == wjob[w] IN
  /\ wpc[w] = "commit"
  /\ \/ /\ disk[j] = "source"
        /\ disk' = [disk EXCEPT ![j] = "staged"]
        /\ WGoto(w, "finish")
        /\ UNCHANGED budget
     \/ /\ (disk[j] # "source" /\ UNCHANGED budget) \/ FsFault
        /\ WGoto(w, "abort")
        /\ UNCHANGED disk
  /\ UNCHANGED <<lifecycle, dispatch, rows, client, history>>

Finish(w) ==
  LET j == wjob[w] IN
  /\ wpc[w] = "finish"
  /\ \/ /\ \/ record[j] = "DONE" /\ WGoto(w, "settle") /\ UNCHANGED halted
           \/ record[j] = "FAILED" /\ Halt(w)
           \/ record[j] = "RENAMING" /\ WRecord(w, "TRANSFERRING")
              /\ UNCHANGED halted
           \/ /\ record[j] \in {"QUEUED", "TRANSFERRING"}
              /\ WGoto(w, "publish") /\ UNCHANGED halted
        /\ UNCHANGED budget
     \/ StoreFault /\ Halt(w)
  /\ UNCHANGED <<lifecycle, dispatch, rows, disk, client, cancelled>>

Publish(w) ==
  LET j == wjob[w] IN
  /\ wpc[w] = "publish"
  /\ \/ /\ disk' = [disk EXCEPT ![j] = "final"]
        /\ WRecord(w, "DONE")
        /\ UNCHANGED <<halted, budget>>
     \/ FsFault /\ Halt(w) /\ UNCHANGED disk
  /\ UNCHANGED <<lifecycle, dispatch, rows, client, cancelled>>

(* update_state: SELECT and the question to the core state machine.  An     *)
(* error aborts the move before the commit point and halts it after; the    *)
(* result of recording FAILED is ignored.                                   *)
Check(w) ==
  LET j     == wjob[w]
      legal == is_legal_transition(record[j], wto[w])
  IN
  /\ wpc[w] = "check"
  /\ \/ legal /\ WGoto(w, "write") /\ UNCHANGED <<halted, budget>>
     \/ /\ (~legal /\ UNCHANGED budget) \/ StoreFault
        /\ CASE wto[w] = "RENAMING" -> WGoto(w, "abort") /\ UNCHANGED halted
             [] wto[w] = "FAILED"   -> WGoto(w, "settle") /\ UNCHANGED halted
             [] OTHER               -> Halt(w)
  /\ UNCHANGED <<lifecycle, dispatch, rows, disk, client, cancelled>>

(* update_state: UPDATE ... WHERE id = ?, whatever the row holds by now.  *)
Write(w) ==
  /\ wpc[w] = "write"
  /\ record' = [record EXCEPT ![wjob[w]] = wto[w]]
  /\ WGoto(w, CASE wto[w] = "RENAMING"     -> "commit"
                [] wto[w] = "TRANSFERRING" -> "publish"
                [] OTHER                   -> "settle")
  /\ UNCHANGED <<lifecycle, dispatch, attempts, disk, client, history, budget>>

(* Mutant: no attempt ceiling.  *)
HandleFailure_endless(w) ==
  /\ wpc[w] = "abort"
  /\ record_attempt(wjob[w])
  /\ WGoto(w, "reschedule")
  /\ UNCHANGED <<lifecycle, dispatch, record, disk, client, history, budget>>

(* handle_failure(): back off, give up, or drop the job on a store error.  *)
HandleFailure(w) ==
  LET j == wjob[w] IN
  /\ wpc[w] = "abort"
  /\ \/ /\ attempts[j] + 1 < MaxAttempts
        /\ record_attempt(j)
        /\ WGoto(w, "reschedule")
        /\ UNCHANGED budget
     \/ /\ attempts[j] + 1 >= MaxAttempts
        /\ WGoto(w, "reject")
        /\ UNCHANGED <<attempts, budget>>
     \/ StoreFault /\ WGoto(w, "settle") /\ UNCHANGED attempts
  /\ UNCHANGED <<lifecycle, dispatch, record, disk, client, history>>

(* fail_permanently(): count the attempt, then FAILED unless it is already. *)
FailPermanently(w) ==
  LET j      == wjob[w]
      Record == IF record[j] = "FAILED" THEN WGoto(w, "settle")
                ELSE WRecord(w, "FAILED")
  IN
  /\ wpc[w] = "reject"
  /\ \/ record_attempt(j) /\ Record /\ UNCHANGED budget
     \/ /\ StoreFault
        /\ \/ UNCHANGED attempts /\ Record
           \/ record_attempt(j) /\ WGoto(w, "settle")
  /\ UNCHANGED <<lifecycle, dispatch, record, disk, client, history>>

-----------------------------------------------------------------------------
(* The commands.  Every refusal on entry (not running, unknown id, in       *)
(* flight, not paused) leaves the manager as it was and is no step.         *)

(* The command returns; store_mutex, if it holds it, is released.  *)
CReturn(c) ==
  /\ cpc' = [cpc EXCEPT ![c] = "idle"]
  /\ cjob' = [cjob EXCEPT ![c] = NoJob]
  /\ cnew' = [cnew EXCEPT ![c] = NoJob]
  /\ was_runnable' = [was_runnable EXCEPT ![c] = FALSE]
  /\ store_mutex' = IF store_mutex = c THEN NoClient ELSE store_mutex
  /\ UNCHANGED commands

CGoto(c, label) ==
  /\ cpc' = [cpc EXCEPT ![c] = label]
  /\ UNCHANGED <<cjob, cnew, was_runnable, commands>>

(* A command of client c may look at the manager.  *)
Enter(c, command) ==
  /\ cpc[c] = "idle"
  /\ command \in commands[c]
  /\ running

(* submit(): the id is claimed, recorded without the mutex, and published.  *)
SubmitClaim(c, j) ==
  /\ Enter(c, "submit")
  /\ j \in Jobs \ (requests \cup pending \cup RetryIds)
  /\ pending' = pending \cup {j}
  /\ cpc' = [cpc EXCEPT ![c] = "record"]
  /\ cnew' = [cnew EXCEPT ![c] = j]
  /\ UNCHANGED <<lifecycle, requests, runnable, waiting, paused, active, rows,
                 disk, worker, cjob, was_runnable, store_mutex, commands,
                 history, budget>>

(* Mutant: INSERT OR REPLACE.  *)
RecordIntent_replaces(c) ==
  /\ cpc[c] = "record"
  /\ store_mutex \in {NoClient, c}
  /\ open
  /\ record' = [record EXCEPT ![cnew[c]] = "QUEUED"]
  /\ CGoto(c, "publish")
  /\ UNCHANGED <<lifecycle, dispatch, attempts, disk, worker, store_mutex,
                 history, budget>>

(* record_intent() of submit and of retry, which holds store_mutex already; *)
(* a retry's file is where the failed job left it.  On an error the id is   *)
(* released and the command fails.                                          *)
RecordIntent(c) ==
  LET j == cnew[c] IN
  /\ cpc[c] = "record"
  /\ store_mutex \in {NoClient, c}
  /\ \/ /\ open /\ record[j] = "ABSENT"
        /\ record' = [record EXCEPT ![j] = "QUEUED"]
        /\ disk' = IF cjob[c] # NoJob /\ disk[cjob[c]] = "source"
                   THEN [disk EXCEPT ![j] = "source"] ELSE disk
        /\ CGoto(c, "publish")
        /\ UNCHANGED <<pending, store_mutex, budget>>
     \/ /\ \/ open /\ record[j] # "ABSENT" /\ UNCHANGED budget
           \/ CommandStoreFault
        /\ pending' = pending \ {j}
        /\ CReturn(c)
        /\ UNCHANGED <<record, disk>>
  /\ UNCHANGED <<lifecycle, requests, runnable, waiting, paused, active,
                 attempts, worker, history>>

(* Mutant: the job is known but not queued.  *)
PublishJob_unqueued(c) ==
  /\ cpc[c] = "publish"
  /\ pending' = pending \ {cnew[c]}
  /\ requests' = requests \cup {cnew[c]}
  /\ CReturn(c)
  /\ UNCHANGED <<lifecycle, runnable, waiting, paused, active, rows, disk,
                 worker, history, budget>>

PublishJob(c) ==
  LET j == cnew[c] IN
  /\ cpc[c] = "publish"
  /\ pending' = pending \ {j}
  /\ requests' = requests \cup {j}
  /\ MakeRunnable(j)
  /\ CReturn(c)
  /\ UNCHANGED <<lifecycle, waiting, paused, active, rows, disk, wjob, wto,
                 history, budget>>

(* Mutant: the job is left in the queue.  *)
pause_queued(c, j) ==
  /\ Enter(c, "pause")
  /\ j \in requests \ active
  /\ waiting' = waiting \ {j}
  /\ paused' = paused \cup {j}
  /\ UNCHANGED <<lifecycle, requests, pending, runnable, active, rows, disk,
                 worker, client, history, budget>>

pause(c, j) ==
  /\ Enter(c, "pause")
  /\ j \in requests \ active
  /\ runnable' = take_runnable(j)
  /\ waiting' = waiting \ {j}
  /\ paused' = paused \cup {j}
  /\ UNCHANGED <<lifecycle, requests, pending, active, rows, disk, worker,
                 client, history, budget>>

resume(c, j) ==
  /\ Enter(c, "resume")
  /\ j \in requests \cap paused
  /\ paused' = paused \ {j}
  /\ MakeRunnable(j)
  /\ UNCHANGED <<lifecycle, requests, pending, waiting, active, rows, disk,
                 wjob, wto, client, history, budget>>

(* Mutant: the in-flight check is missing.  *)
CancelClaim_in_flight(c, j) ==
  /\ Enter(c, "cancel")
  /\ j \in requests
  /\ runnable' = take_runnable(j)
  /\ waiting' = waiting \ {j}
  /\ paused' = paused \ {j}
  /\ cpc' = [cpc EXCEPT ![c] = "cancelLoad"]
  /\ cjob' = [cjob EXCEPT ![c] = j]
  /\ was_runnable' = [was_runnable EXCEPT ![c] = j \in Elements(runnable)]
  /\ UNCHANGED <<lifecycle, requests, pending, active, rows, disk, worker,
                 cnew, store_mutex, commands, history, budget>>

(* cancel(): out of every set first, then the record, then perhaps back.  *)
CancelClaim(c, j) ==
  /\ Enter(c, "cancel")
  /\ j \in requests \ active
  /\ runnable' = take_runnable(j)
  /\ waiting' = waiting \ {j}
  /\ paused' = paused \ {j}
  /\ cpc' = [cpc EXCEPT ![c] = "cancelLoad"]
  /\ cjob' = [cjob EXCEPT ![c] = j]
  /\ was_runnable' = [was_runnable EXCEPT ![c] = j \in Elements(runnable)]
  /\ UNCHANGED <<lifecycle, requests, pending, active, rows, disk, worker,
                 cnew, store_mutex, commands, history, budget>>

CancelLoad(c) ==
  /\ cpc[c] = "cancelLoad"
  /\ store_mutex = NoClient
  /\ store_mutex' = c
  /\ \/ /\ open
        /\ CGoto(c, IF record[cjob[c]] = "QUEUED" THEN "cancelCheck"
                    ELSE "cancelBack")
        /\ UNCHANGED budget
     \/ CommandStoreFault /\ CGoto(c, "cancelBack")
  /\ UNCHANGED <<lifecycle, dispatch, rows, disk, worker, history>>

(* The SELECT of update_state(FAILED), and then its UPDATE.  *)
CancelCheck(c) ==
  /\ cpc[c] = "cancelCheck"
  /\ \/ /\ CGoto(c, IF is_legal_transition(record[cjob[c]], "FAILED")
                    THEN "cancelWrite" ELSE "cancelBack")
        /\ UNCHANGED budget
     \/ StoreFault /\ CGoto(c, "cancelBack")
  /\ UNCHANGED <<lifecycle, dispatch, rows, disk, worker, store_mutex,
                 history>>

CancelWrite(c) ==
  /\ cpc[c] = "cancelWrite"
  /\ record' = [record EXCEPT ![cjob[c]] = "FAILED"]
  /\ cancelled' = cancelled \cup {cjob[c]}
  /\ CReturn(c)
  /\ UNCHANGED <<lifecycle, dispatch, attempts, disk, worker, halted, budget>>

CancelBack(c) ==
  /\ cpc[c] = "cancelBack"
  /\ IF was_runnable[c] THEN MakeRunnable(cjob[c])
     ELSE UNCHANGED <<runnable, wpc>>
  /\ CReturn(c)
  /\ UNCHANGED <<lifecycle, requests, pending, waiting, paused, active, rows,
                 disk, wjob, wto, history, budget>>

(* retry(): a new job for the request of a FAILED one, under store_mutex.  *)
RetryLookup(c, j) ==
  /\ Enter(c, "retry")
  /\ j \in requests
  /\ cpc' = [cpc EXCEPT ![c] = "retryLoad"]
  /\ cjob' = [cjob EXCEPT ![c] = j]
  /\ UNCHANGED <<lifecycle, dispatch, rows, disk, worker, cnew, was_runnable,
                 store_mutex, commands, history, budget>>

RetryLoad(c) ==
  /\ cpc[c] = "retryLoad"
  /\ store_mutex = NoClient
  /\ \/ /\ open /\ record[cjob[c]] = "FAILED"
        /\ store_mutex' = c
        /\ CGoto(c, "retryProbe")
        /\ UNCHANGED budget
     \/ /\ \/ open /\ record[cjob[c]] # "FAILED" /\ UNCHANGED budget
           \/ CommandStoreFault
        /\ CReturn(c)
  /\ UNCHANGED <<lifecycle, dispatch, rows, disk, worker, history>>

(* The probe for an id that neither the store nor the manager has; with all *)
(* of RetryIds taken, the bound on retries, the command ends here.          *)
RetryProbe(c) ==
  LET free == {k \in RetryIds : /\ record[k] = "ABSENT"
                                /\ k \notin requests \cup pending}
  IN
  /\ cpc[c] = "retryProbe"
  /\ \/ \E k \in free :
          /\ pending' = pending \cup {k}
          /\ cnew' = [cnew EXCEPT ![c] = k]
          /\ cpc' = [cpc EXCEPT ![c] = "record"]
          /\ UNCHANGED <<cjob, was_runnable, store_mutex, commands, budget>>
     \/ /\ (free = {} /\ UNCHANGED budget) \/ StoreFault
        /\ CReturn(c)
        /\ UNCHANGED pending
  /\ UNCHANGED <<lifecycle, requests, runnable, waiting, paused, active, rows,
                 disk, worker, history>>

(* pump(): the waiting jobs that are due, which some are, become runnable.  *)
pump ==
  /\ Pumped /\ running
  /\ \E order \in UNION {[1..n -> waiting \ paused] :
                           n \in 1..Cardinality(waiting \ paused)} :
       /\ \A m, n \in DOMAIN order : order[m] = order[n] => m = n
       /\ runnable' = runnable \o order
       /\ waiting' = waiting \ Elements(order)
  /\ notify_all
  /\ UNCHANGED <<lifecycle, requests, pending, paused, active, rows, disk,
                 wjob, wto, client, history, budget>>

-----------------------------------------------------------------------------

WorkerStep(w) ==
  \/ OpenWorker(w) \/ Sleep(w) \/ Exit(w) \/ Take(w) \/ Settle(w)
  \/ Validate(w) \/ Commit(w) \/ Finish(w) \/ Publish(w)
  \/ Check(w) \/ Write(w) \/ HandleFailure(w) \/ FailPermanently(w)

(* A client that is in the middle of a command goes on with it.  *)
CommandStep(c) ==
  \/ RecordIntent(c) \/ PublishJob(c)
  \/ CancelLoad(c) \/ CancelCheck(c) \/ CancelWrite(c) \/ CancelBack(c)
  \/ RetryLoad(c) \/ RetryProbe(c)

Command(c, j) ==
  \/ SubmitClaim(c, j) \/ pause(c, j) \/ resume(c, j)
  \/ CancelClaim(c, j) \/ RetryLookup(c, j)

Next ==
  \/ Start \/ Shutdown \/ CloseStore \/ Crash \/ pump
  \/ \E w \in Workers : WorkerStep(w) \/ SpuriousWakeup(w)
  \/ \E c \in Clients : CommandStep(c) \/ \E j \in Jobs : Command(c, j)

Spec == Init /\ [][Next]_vars

(* The threads are scheduled, and pump(), where it has a caller, is called  *)
(* again and again.  No command, no shutdown and no restart has to come.    *)
(* A mutex that is free again and again is got in the end.                  *)
FairSpec ==
  /\ Spec
  /\ \A w \in Workers : WF_vars(WorkerStep(w))
  /\ \A c \in Clients : SF_vars(CommandStep(c))
  /\ WF_vars(CloseStore)
  /\ WF_vars(pump)

-----------------------------------------------------------------------------
(* Properties.  *)

(* The jobs that workers are executing.  *)
Executing == {wjob[w] : w \in Workers} \ {NoJob}

(* Something will still look at the job: a set that leads to a worker, an    *)
(* operator's pause, a worker, or a cancel in progress.                      *)
Owned(j) ==
  \/ j \in Elements(runnable) \cup waiting \cup paused \cup active
  \/ \E c \in Clients : /\ cjob[c] = j
                        /\ cpc[c] \in {"cancelLoad", "cancelCheck",
                                       "cancelWrite", "cancelBack"}

(* No two workers execute the same job at the same time (C4-PLAN: each job   *)
(* is run exactly once): the engine's steps of one job have one author.      *)
ExclusiveRun ==
  \A v, w \in Workers : wjob[v] = wjob[w] /\ wjob[v] # NoJob => v = w

(* The active set is exactly what the workers execute, so that wait_idle()   *)
(* and the in-flight refusals of pause and cancel can be believed.           *)
ActiveIsExact == active = Executing

(* A paused job performs no work and is not about to (L2-LIF-004): it is in  *)
(* no queue, in no backoff and in no worker's hands.                         *)
PausedIsIdle ==
  paused \cap (Elements(runnable) \cup waiting \cup Executing) = {}

(* A job whose cancel() returned Ok is FAILED and its file never left the    *)
(* source name, then or later, whatever else is done to the job.             *)
CancelledIsUntouched ==
  \A j \in cancelled : record[j] = "FAILED"
                       /\ disk[j] \in {"source", "missing"}

(* Terminal states are final in the store (L1-SYS-022), although             *)
(* update_state reads the row and writes it in two statements.               *)
TerminalIsFinal ==
  [][\A j \in Jobs : is_terminal(record[j]) => record'[j] = record[j]]_vars

(* A job that the manager accepted and that is still QUEUED is owned, as     *)
(* long as no store call failed: handle_failure and fail_permanently drop a  *)
(* job whose retry state they cannot read or write (manager.cpp:378).        *)
QueuedIsOwned ==
  storeFaults = 0 => \A j \in requests : record[j] = "QUEUED" => Owned(j)

(* No command strands a job (manager.cpp, cancel: a refusal must not leave   *)
(* it "owned by nobody"): a job short of its commit point that did not halt  *)
(* is owned, in backoff as much as in the queue.                             *)
NothingStranded ==
  \A j \in requests \ halted :
    record[j] \in {"QUEUED", "RENAMING"} => Owned(j)

(* FAILED is recorded only for a move that did not happen: past the commit   *)
(* point a job halts for the operator (L2-JOB-014) and is not run again,     *)
(* unless that operator pauses and resumes it.                               *)
FailedIsPreCommit ==
  (\A c \in Clients : "resume" \notin commands[c]) =>
    \A j \in Jobs : record[j] = "FAILED" => disk[j] \in {"source", "missing"}

(* Shutdown drains (L2-MGR-003): once it has returned nothing is left in the *)
(* queue, neither by the workers nor by a command.                           *)
StoppedIsDrained == stopping /\ ~open => runnable = <<>>

(* Every accepted job is eventually settled, also on a filesystem that fails *)
(* for good: terminal, halted past its commit point, or withheld by an       *)
(* operator; backoff is neither the end of it nor endless (L2-RTY-005).      *)
AcceptedSettles ==
  \A j \in Jobs :
    j \in requests ~> \/ is_terminal(record[j])
                      \/ j \in halted \cup paused
                      \/ ~running

(* shutdown() returns: the workers drain, are joined, and the store closes.  *)
ShutdownCompletes == stopping ~> ~open

(* A job interrupted by a crash is failed after the restart (L1-SYS-016), or *)
(* at least taken up again with its retry state (L2-RTY-004).                *)
InterruptedIsResolved ==
  \A j \in Jobs :
    (running /\ record[j] \in {"QUEUED", "RENAMING", "TRANSFERRING"})
       ~> (j \in requests \/ is_terminal(record[j]) \/ ~running)

(* How far a job's file has got, as MoveContract sees it.  *)
Place == [j \in Jobs |-> IF disk[j] = "missing" THEN "source" ELSE disk[j]]

Contract == INSTANCE MoveContract WITH disk <- Place

(* Driven by the pool and by commands, the rows and the files of all jobs    *)
(* keep the engine's contract: cancel, retry and repeated runs add no step   *)
(* to it, nor do pause and resume when commands come one at a time.          *)
ImplementsContract == Contract!Spec
=============================================================================
