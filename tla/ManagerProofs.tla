--------------------------- MODULE ManagerProofs ---------------------------
(***************************************************************************)
(* Proofs about JobManager: that no job is executed twice at once, for any *)
(* number of workers, clients and jobs, whatever fails and whenever the    *)
(* process dies, as long as no client resumes jobs or no client cancels    *)
(* what another may be pausing.  The argument counts tokens: a job is at   *)
(* any time in at most one of the queue, the backoff map, a worker's       *)
(* hands, a cancel() that took it from the queue, a submission that has    *)
(* not published it and, in the second case, the paused set.  The second   *)
(* part is about the rows that the commands write.                         *)
(***************************************************************************)
EXTENDS JobManager, SequenceFacts, TLAPS

(* Zenon is the default; a leaf that it does not find says SMT.  *)
USE Zenon

(* No client may resume a job (manager_double_run shows why), ...  *)
NoResume == \A menu \in Menus : \A c \in Clients : "resume" \notin menu[c]

(* ... or none may cancel where another may pause.  *)
Separate ==
  \A menu \in Menus : \A c, d \in Clients :
    c # d /\ "cancel" \in menu[c] => "pause" \notin menu[d]

Busy       == WorkerLabel \ {"none", "starting", "ready", "asleep"}
Cancelling == {"cancelLoad", "cancelCheck", "cancelWrite", "cancelBack"}
Creating   == {"record", "publish"}

Queued(j) == \E i \in 1..Len(runnable) : runnable[i] = j

(* Neither queued, nor in backoff, nor being executed, now and one step on.  *)
Loose(j) == j \notin waiting \cup active /\ ~Queued(j)

LooseNext(j) == /\ j \notin waiting' \cup active'
                /\ \A i \in 1..Len(runnable') : runnable'[i] # j

(* The active set is what the workers execute.  *)
PoolInv ==
  /\ \A w \in Workers : wjob[w] # NoJob <=> wpc[w] \in Busy
  /\ running \/ stopping \/ \A w \in Workers : wpc[w] = "none"
  /\ active \subseteq requests
  /\ \A j \in Jobs : j \in active <=> \E w \in Workers : wjob[w] = j
  /\ ExclusiveRun

(* The queue and the backoff map hold a job once, and only when no worker    *)
(* does.                                                                     *)
QueueInv ==
  /\ Distinct(runnable)
  /\ \A i \in 1..Len(runnable) :
       runnable[i] \in requests \ (waiting \cup active)
  /\ waiting \subseteq requests \ active

(* A job that a cancel() holds is nowhere else, and held once.  *)
HeldInv ==
  /\ \A c \in Clients : cpc[c] \in Cancelling => cjob[c] \in requests
  /\ \A c \in Clients : cpc[c] \in Cancelling /\ was_runnable[c] =>
       cjob[c] \notin waiting \cup active /\ ~Queued(cjob[c])
  /\ \A c, d \in Clients :
       /\ cpc[c] \in Cancelling /\ was_runnable[c]
       /\ cpc[d] \in Cancelling /\ was_runnable[d]
       /\ cjob[c] = cjob[d]
       => c = d

(* A job being submitted is not known yet, and has one submitter.  *)
CreateInv ==
  /\ pending \cap requests = {}
  /\ \A c \in Clients : cpc[c] \in Creating => cnew[c] \in pending
  /\ \A c, d \in Clients :
       cpc[c] \in Creating /\ cpc[d] \in Creating /\ cnew[c] = cnew[d] => c = d

TokenInv == TypeOK /\ PoolInv /\ QueueInv /\ HeldInv /\ CreateInv

(* A paused job is nowhere else, and no cancel() holds it.  *)
PausedInv ==
  /\ paused \subseteq requests
  /\ \A j \in paused : Loose(j)
  /\ \A c \in Clients : cpc[c] \in Cancelling =>
       cjob[c] \notin paused /\ "cancel" \in commands[c]

(* What holds in either case.  *)
DispatchInv == TokenInv /\ (Separate => PausedInv)

-----------------------------------------------------------------------------

(* Initially no job is known.  *)
LEMMA InitToken == Init => TokenInv
<1> SUFFICES ASSUME Init PROVE TokenInv
  OBVIOUS
<1>1. TypeOK
  BY SMT DEF Init, TypeOK, WorkerLabel, ClientLabel
<1>2. PoolInv
  BY ManagerAssumption DEF Init, PoolInv, Busy, ExclusiveRun
<1>3. QueueInv
  BY SMT DEF Init, QueueInv, Distinct
<1>4. HeldInv /\ CreateInv
  BY DEF Init, HeldInv, CreateInv, Cancelling, Creating
<1> QED
  BY <1>1, <1>2, <1>3, <1>4 DEF TokenInv

(* A step in which one worker, and no more than that, changes its place      *)
(* without taking up or putting down a job.                                  *)
Moves(w) ==
  /\ \E label \in WorkerLabel :
       /\ wpc' = [wpc EXCEPT ![w] = label]
       /\ label \in Busy <=> wpc[w] \in Busy
  /\ wpc[w] # "none"
  /\ UNCHANGED <<running, stopping, dispatch, wjob, client>>
  /\ storeFaults' \in Nat

LEMMA MovesToken ==
  ASSUME TokenInv, NEW w \in Workers, Moves(w)
  PROVE  TokenInv'
<1> USE DEF TokenInv
<1>0. /\ UNCHANGED <<running, stopping, requests, pending, runnable, waiting,
                     active, wjob, cpc, cjob, cnew, was_runnable, commands>>
      /\ storeFaults' \in Nat
  BY DEF Moves, dispatch, client
<1>1. TypeOK'
  BY <1>0 DEF Moves, TypeOK
<1>2. PoolInv'
  <2>1. \A v \in Workers : wpc'[v] \in Busy <=> wpc[v] \in Busy
    BY DEF Moves, TypeOK
  <2>2. running \/ stopping
    BY DEF Moves, PoolInv
  <2> QED
    BY <1>0, <2>1, <2>2 DEF PoolInv, ExclusiveRun
<1>3. QueueInv' /\ HeldInv' /\ CreateInv'
  BY <1>0 DEF QueueInv, HeldInv, Queued, CreateInv
<1> QED
  BY <1>1, <1>2, <1>3

(* The worker's steps that are of this kind.  *)
LEMMA WorkerMoves ==
  ASSUME TokenInv, NEW w \in Workers,
         \/ OpenWorker(w) \/ Sleep(w) \/ Exit(w) \/ SpuriousWakeup(w)
         \/ Validate(w) \/ Commit(w) \/ Finish(w) \/ Publish(w)
         \/ Check(w) \/ Write(w) \/ HandleFailure(w) \/ FailPermanently(w)
  PROVE  Moves(w)
<1>a. UNCHANGED storeFaults \/ StoreFault => storeFaults' \in Nat
  <2>1. storeFaults \in Nat
    BY DEF TokenInv, TypeOK
  <2> QED
    BY ONLY <2>1 DEF StoreFault
<1>b. ASSUME NEW label \in Busy, wpc[w] \in Busy, storeFaults' \in Nat,
             wpc' = [wpc EXCEPT ![w] = label],
             UNCHANGED <<running, stopping, dispatch, wjob, client>>
      PROVE  Moves(w)
  BY <1>b DEF Moves, Busy
<1> USE DEF TokenInv, TypeOK, Moves, WGoto, WRecord, StoreFault, FsFault, budget,
        WorkerLabel, Busy, lifecycle
<1>1. CASE OpenWorker(w)
  BY <1>1, SMT DEF OpenWorker
<1>2. CASE Sleep(w) \/ Exit(w) \/ SpuriousWakeup(w)
  BY <1>2 DEF Sleep, Exit, SpuriousWakeup
<1>3. CASE Validate(w)
  <2>1. /\ wpc[w] = "validate" /\ (UNCHANGED storeFaults \/ StoreFault)
        /\ UNCHANGED <<running, stopping, dispatch, wjob, client>>
    BY <1>3 DEF Validate
  <2>2. \E label \in {"check", "commit", "settle", "reject"} :
          wpc' = [wpc EXCEPT ![w] = label]
    BY <1>3 DEF Validate
  <2> QED
    BY <1>a, <1>b, <2>1, <2>2
<1>4. CASE Commit(w)
  BY <1>4 DEF Commit
<1>5. CASE Finish(w)
  <2>1. /\ wpc[w] = "finish" /\ (UNCHANGED storeFaults \/ StoreFault)
        /\ UNCHANGED <<running, stopping, dispatch, wjob, client>>
    BY <1>5 DEF Finish, Halt
  <2>2. \E label \in {"settle", "check", "publish"} :
          wpc' = [wpc EXCEPT ![w] = label]
    BY <1>5 DEF Finish, Halt
  <2> QED
    BY <1>a, <1>b, <2>1, <2>2
<1>6. CASE Publish(w)
  BY <1>6 DEF Publish, Halt
<1>7. CASE Check(w)
  <2>1. /\ wpc[w] = "check" /\ (UNCHANGED storeFaults \/ StoreFault)
        /\ UNCHANGED <<running, stopping, dispatch, wjob, client>>
    BY <1>7 DEF Check, Halt
  <2>2. \E label \in {"write", "abort", "settle"} :
          wpc' = [wpc EXCEPT ![w] = label]
    BY <1>7 DEF Check, Halt
  <2> QED
    BY <1>a, <1>b, <2>1, <2>2
<1>8. CASE Write(w)
  BY <1>8 DEF Write
<1>9. CASE HandleFailure(w)
  <2>1. /\ wpc[w] = "abort" /\ (UNCHANGED storeFaults \/ StoreFault)
        /\ UNCHANGED <<running, stopping, dispatch, wjob, client>>
    BY <1>9 DEF HandleFailure
  <2>2. \E label \in {"reschedule", "reject", "settle"} :
          wpc' = [wpc EXCEPT ![w] = label]
    BY <1>9 DEF HandleFailure
  <2> QED
    BY <1>a, <1>b, <2>1, <2>2
<1>10. CASE FailPermanently(w)
  <2>1. /\ wpc[w] = "reject" /\ (UNCHANGED storeFaults \/ StoreFault)
        /\ UNCHANGED <<running, stopping, dispatch, wjob, client>>
    BY <1>10 DEF FailPermanently
  <2>2. \E label \in {"settle", "check"} :
          wpc' = [wpc EXCEPT ![w] = label]
    BY <1>10 DEF FailPermanently
  <2> QED
    BY <1>a, <1>b, <2>1, <2>2
<1> QED
  BY <1>1, <1>2, <1>3, <1>4, <1>5, <1>6, <1>7, <1>8, <1>9, <1>10

(* A worker takes a job from the queue ...  *)
LEMMA TakeToken ==
  ASSUME TokenInv, NEW w \in Workers, Take(w)
  PROVE  TokenInv'
<1> DEFINE j == Head(runnable)
<1> USE DEF TokenInv
<1>1. /\ j \in Jobs /\ j = runnable[1] /\ 1 \in 1..Len(runnable)
      /\ runnable' \in Seq(Jobs)
      /\ Len(runnable') = Len(runnable) - 1
      /\ \A i \in 1..Len(runnable') :
           runnable'[i] = runnable[i + 1] /\ i + 1 \in 1..Len(runnable)
  BY SMT DEF Take, TypeOK
<1>2. /\ active' = active \cup {j}
      /\ wpc' = [wpc EXCEPT ![w] = "validate"]
      /\ wjob' = [wjob EXCEPT ![w] = j]
      /\ UNCHANGED <<running, stopping, requests, pending, waiting, cpc, cjob,
                     cnew, was_runnable, commands, storeFaults>>
  BY DEF Take, lifecycle, client, budget
<1>3. j \in requests \ (waiting \cup active) /\ j # NoJob
  BY <1>1, ManagerAssumption DEF QueueInv
<1>4. wjob[w] = NoJob /\ wpc[w] = "ready" /\ (running \/ stopping)
  BY DEF Take, PoolInv, Busy
<1> HIDE DEF j
<1>5. TypeOK'
  BY <1>1, <1>2 DEF TypeOK, WorkerLabel
<1>6. PoolInv'
  <2>1. \A v \in Workers : wjob'[v] = IF v = w THEN j ELSE wjob[v]
    BY <1>2 DEF TypeOK
  <2>2. \A v \in Workers : wpc'[v] = IF v = w THEN "validate" ELSE wpc[v]
    BY <1>2 DEF TypeOK
  <2>3. \A v \in Workers : wjob'[v] # NoJob <=> wpc'[v] \in Busy
    BY <1>3, <2>1, <2>2, SMT DEF PoolInv, Busy, WorkerLabel
  <2>4. ExclusiveRun'
    BY <1>1, <1>3, <2>1, SMT DEF PoolInv, ExclusiveRun
  <2>5. \A k \in Jobs : k \in active' <=> \E v \in Workers : wjob'[v] = k
    BY <1>2, <1>4, <2>1, ManagerAssumption DEF PoolInv
  <2> QED
    BY <1>2, <1>3, <1>4, <2>3, <2>4, <2>5 DEF PoolInv
<1>7. \A i \in 1..Len(runnable') : runnable'[i] # j
  BY <1>1, SMTT(30) DEF QueueInv, Distinct, TypeOK
<1>8. QueueInv'
  <2>1. Distinct(runnable')
    BY <1>1, SMT DEF QueueInv, Distinct, TypeOK
  <2> QED
    BY <1>1, <1>2, <1>3, <1>7, <2>1 DEF QueueInv
<1>9. HeldInv'
  <2>1. \A k : Queued(k)' => Queued(k)
    BY <1>1 DEF Queued
  <2>2. Queued(j)
    BY <1>1 DEF Queued
  <2> QED
    BY <1>2, <2>1, <2>2 DEF HeldInv
<1>10. CreateInv'
  BY <1>2 DEF CreateInv
<1> QED
  BY <1>5, <1>6, <1>8, <1>9, <1>10

(* ... and gives it up, perhaps to the backoff map.  *)
LEMMA SettleToken ==
  ASSUME TokenInv, NEW w \in Workers, Settle(w)
  PROVE  TokenInv'
<1> DEFINE j == wjob[w]
<1> USE DEF TokenInv
<1>1. j \in Jobs /\ j \in active /\ wpc[w] # "none"
  BY SMT DEF Settle, TypeOK, PoolInv, Busy, WorkerLabel
<1>2. /\ active' = active \ {j}
      /\ waiting' \subseteq waiting \cup {j}
      /\ wpc' = [wpc EXCEPT ![w] = "ready"]
      /\ wjob' = [wjob EXCEPT ![w] = NoJob]
      /\ UNCHANGED <<running, stopping, requests, pending, runnable, cpc, cjob,
                     cnew, was_runnable, commands, storeFaults>>
  BY DEF Settle, lifecycle, client, budget
<1>3. TypeOK'
  BY <1>2 DEF TypeOK, WorkerLabel
<1>4. PoolInv'
  <2>1. \A v \in Workers : wjob'[v] = IF v = w THEN NoJob ELSE wjob[v]
    BY <1>2 DEF TypeOK
  <2>2. \A v \in Workers : wpc'[v] = IF v = w THEN "ready" ELSE wpc[v]
    BY <1>2 DEF TypeOK
  <2>3. \A v \in Workers : wjob'[v] # NoJob <=> wpc'[v] \in Busy
    BY <2>1, <2>2, SMT DEF PoolInv, Busy, WorkerLabel
  <2>4. ExclusiveRun'
    BY <2>1 DEF PoolInv, ExclusiveRun
  <2>5. \A k \in Jobs : k \in active' <=> \E v \in Workers : wjob'[v] = k
    BY <1>1, <1>2, <2>1, ManagerAssumption, SMT DEF PoolInv, ExclusiveRun
  <2>6. running \/ stopping
    BY <1>1 DEF PoolInv
  <2> QED
    BY <1>2, <2>3, <2>4, <2>5, <2>6 DEF PoolInv
<1>5. QueueInv'
  BY <1>1, <1>2 DEF QueueInv, PoolInv
<1>6. HeldInv'
  <2>1. \A c \in Clients : cpc[c] \in Cancelling /\ was_runnable[c] =>
          cjob[c] # j
    BY <1>1 DEF HeldInv
  <2> QED
    BY <1>2, <2>1 DEF HeldInv, Queued
<1>7. CreateInv'
  BY <1>2 DEF CreateInv
<1> QED
  BY <1>3, <1>4, <1>5, <1>6, <1>7

(* start(), shutdown() and the end of the process.  *)
LEMMA LifecycleToken ==
  ASSUME TokenInv, Start \/ Shutdown \/ CloseStore \/ Crash
  PROVE  TokenInv'
<1> USE DEF TokenInv
<1>1. CASE Start
  <2>1. /\ UNCHANGED <<dispatch, wjob, client>> /\ stopping' = stopping
        /\ \A w \in Workers : wpc[w] = "none"
        /\ storeFaults' \in Nat
        /\ \/ running' = TRUE /\ wpc' = [w \in Workers |-> "starting"]
           \/ UNCHANGED <<running, wpc>>
    BY <1>1, SMT DEF Start, TypeOK, PoolInv, StoreFault, budget
  <2>2. TypeOK'
    BY <2>1 DEF TypeOK, dispatch, client, WorkerLabel
  <2>3. PoolInv'
    BY <2>1 DEF PoolInv, ExclusiveRun, dispatch, Busy
  <2>4. QueueInv' /\ HeldInv' /\ CreateInv'
    BY <2>1 DEF QueueInv, HeldInv, Queued, CreateInv, dispatch, client
  <2> QED
    BY <2>2, <2>3, <2>4
<1>2. CASE Shutdown
  <2>1. /\ UNCHANGED <<dispatch, wjob, client, storeFaults>> /\ stopping'
        /\ wpc' = [w \in Workers |-> IF wpc[w] = "asleep" THEN "ready"
                                     ELSE wpc[w]]
    BY <1>2 DEF Shutdown, notify_all, budget
  <2>2. TypeOK'
    BY <2>1 DEF TypeOK, dispatch, client, WorkerLabel
  <2>3. PoolInv'
    BY <2>1 DEF PoolInv, ExclusiveRun, dispatch, Busy
  <2>4. QueueInv' /\ HeldInv' /\ CreateInv'
    BY <2>1 DEF QueueInv, HeldInv, Queued, CreateInv, dispatch, client
  <2> QED
    BY <2>2, <2>3, <2>4
<1>3. CASE CloseStore
  <2>1. UNCHANGED <<running, stopping, dispatch, worker, client, storeFaults>>
    BY <1>3 DEF CloseStore, budget
  <2> QED
    BY <2>1 DEF TypeOK, PoolInv, ExclusiveRun, QueueInv, HeldInv, Queued,
       CreateInv, dispatch, worker, client
<1>4. CASE Crash
  <2>1. TypeOK'
    BY <1>4, SMT DEF Crash, TypeOK, WorkerLabel, ClientLabel
  <2>2. PoolInv'
    BY <1>4, ManagerAssumption, SMT DEF Crash, PoolInv, ExclusiveRun, Busy
  <2>3. QueueInv' /\ HeldInv' /\ CreateInv'
    BY <1>4, SMT DEF Crash, QueueInv, Distinct, HeldInv, CreateInv,
       Cancelling, Creating
  <2> QED
    BY <2>1, <2>2, <2>3
<1> QED
  BY <1>1, <1>2, <1>3, <1>4

(* A notification wakes sleepers and does nothing else.  *)
Woken ==
  /\ wpc' \in [Workers -> WorkerLabel]
  /\ \A w \in Workers : /\ wpc'[w] \in Busy <=> wpc[w] \in Busy
                        /\ wpc'[w] = "none" <=> wpc[w] = "none"
                        /\ wpc'[w] \in {wpc[w], "ready"}

LEMMA NotifyWakes ==
  ASSUME TypeOK, notify_one \/ notify_all \/ UNCHANGED wpc
  PROVE  Woken
<1>1. CASE UNCHANGED wpc
  BY <1>1 DEF Woken, TypeOK
<1>2. CASE notify_all
  BY <1>2 DEF notify_all, Woken, TypeOK, Busy, WorkerLabel
<1>3. CASE notify_one
  BY <1>3, SMT DEF notify_one, Woken, TypeOK, Busy, WorkerLabel
<1> QED
  BY <1>1, <1>2, <1>3

(* The pool after a notification.  *)
LEMMA WokenPool ==
  ASSUME TokenInv, Woken, active \subseteq requests',
         UNCHANGED <<running, stopping, active, wjob>>
  PROVE  PoolInv'
BY DEF TokenInv, PoolInv, ExclusiveRun, Woken

(* A queue that gets a job it does not have.  *)
LEMMA AppendOne ==
  ASSUME NEW q \in Seq(Jobs), NEW j \in Jobs, Distinct(q),
         \A i \in 1..Len(q) : q[i] # j
  PROVE  /\ Append(q, j) \in Seq(Jobs) /\ Distinct(Append(q, j))
         /\ \A i \in 1..Len(Append(q, j)) :
              \/ Append(q, j)[i] = j
              \/ \E m \in 1..Len(q) : Append(q, j)[i] = q[m]
BY SMT DEF Distinct

(* The element that take_runnable() takes out is the only one of its kind.  *)
LEMMA TakenAt ==
  ASSUME TypeOK, QueueInv, NEW j \in Jobs, j \in Elements(runnable)
  PROVE  \E k \in 1..Len(runnable) :
           runnable[k] = j /\ take_runnable(j) = Without(runnable, k)
<1> DEFINE First(k) == runnable[k] = j /\ \A m \in 1..(k - 1) : runnable[m] # j
<1>1. PICK k \in 1..Len(runnable) : runnable[k] = j
  BY DEF Elements
<1>2. \A m \in 1..(k - 1) : runnable[m] # j
  BY <1>1, SMT DEF QueueInv, Distinct, TypeOK
<1>3. \A n \in 1..Len(runnable) : First(n) => n = k
  BY <1>1 DEF QueueInv, Distinct, TypeOK
<1>4. (CHOOSE n \in 1..Len(runnable) : First(n)) = k
  BY <1>1, <1>2, <1>3
<1>5. take_runnable(j) = Without(runnable, k)
  BY <1>4 DEF take_runnable, Without
<1> QED
  BY <1>1, <1>5

(* take_runnable() leaves no trace of the job, and the others.  *)
LEMMA TakenOut ==
  ASSUME TypeOK, QueueInv, NEW j \in Jobs
  PROVE  /\ take_runnable(j) \in Seq(Jobs) /\ Distinct(take_runnable(j))
         /\ \A i \in 1..Len(take_runnable(j)) :
              /\ take_runnable(j)[i] # j
              /\ \E m \in 1..Len(runnable) : take_runnable(j)[i] = runnable[m]
<1>1. CASE j \notin Elements(runnable)
  BY <1>1 DEF take_runnable, Elements, TypeOK, QueueInv
<1>2. CASE j \in Elements(runnable)
  <2>1. PICK k \in 1..Len(runnable) :
          runnable[k] = j /\ take_runnable(j) = Without(runnable, k)
    BY <1>2, TakenAt
  <2> QED
    BY <2>1, EraseOne, SMT DEF TypeOK, QueueInv
<1> QED
  BY <1>1, <1>2

(* pump() moves jobs from the backoff map to the queue.  *)
LEMMA PumpToken ==
  ASSUME TokenInv, pump
  PROVE  TokenInv'
<1> USE DEF TokenInv
<1>1. PICK order \in UNION {[1..n -> waiting \ paused] :
                              n \in 1..Cardinality(waiting \ paused)} :
        /\ \A m, n \in DOMAIN order : order[m] = order[n] => m = n
        /\ runnable' = runnable \o order
        /\ waiting' = waiting \ Elements(order)
  BY DEF pump
<1>2. /\ notify_all
      /\ UNCHANGED <<running, stopping, requests, pending, active, wjob, cpc,
                     cjob, cnew, was_runnable, commands, storeFaults>>
  BY DEF pump, lifecycle, client, budget
<1>3. waiting \subseteq Jobs
  BY DEF QueueInv, TypeOK
<1>4. /\ order \in Seq(Jobs) /\ Distinct(order)
      /\ \A k \in 1..Len(order) : order[k] \in waiting /\ order[k] \notin waiting'
  <2>1. PICK n \in 1..Cardinality(waiting \ paused) :
          order \in [1..n -> waiting \ paused]
    BY <1>1
  <2>2. order \in Seq(Jobs) /\ Len(order) = n /\ DOMAIN order = 1..n
    BY <1>3, <2>1, SMT
  <2> QED
    BY <1>1, <2>1, <2>2 DEF Distinct, Elements
<1>5. \A i \in 1..Len(runnable) : \A k \in 1..Len(order) : runnable[i] # order[k]
  BY <1>4 DEF QueueInv
<1>6. /\ runnable' \in Seq(Jobs) /\ Distinct(runnable')
      /\ \A i \in 1..Len(runnable') :
           \/ \E m \in 1..Len(runnable) : runnable'[i] = runnable[m]
           \/ \E m \in 1..Len(order) : runnable'[i] = order[m]
  BY <1>1, <1>4, <1>5, ConcatDistinct, SMTT(30) DEF TypeOK, QueueInv
<1>7. Woken
  BY <1>2, NotifyWakes
<1>8. TypeOK'
  BY <1>2, <1>6, <1>7 DEF TypeOK, Woken
<1>9. PoolInv'
  BY <1>2, <1>7, WokenPool DEF PoolInv
<1>10. waiting' \subseteq waiting
  BY <1>1
<1>11. QueueInv'
  BY <1>2, <1>4, <1>6, <1>10 DEF QueueInv
<1>12. HeldInv'
  BY <1>2, <1>4, <1>6, <1>10, ZenonT(30) DEF HeldInv, Queued
<1>13. CreateInv'
  BY <1>2 DEF CreateInv
<1> QED
  BY <1>8, <1>9, <1>11, <1>12, <1>13

(* A step of a command that claims nothing and gives nothing back.  *)
Works(c) ==
  /\ \E label \in ClientLabel \ Creating :
       /\ cpc' = [cpc EXCEPT ![c] = label]
       /\ label \in Cancelling =>
            /\ cpc[c] \in Cancelling
            /\ UNCHANGED <<cjob, was_runnable>>
  /\ cjob' = [cjob EXCEPT ![c] = cjob'[c]] /\ cjob'[c] \in Jobs \cup {NoJob}
  /\ cnew' = [cnew EXCEPT ![c] = cnew'[c]] /\ cnew'[c] \in Jobs \cup {NoJob}
  /\ was_runnable' \in [Clients -> BOOLEAN]
  /\ \A d \in Clients \ {c} : was_runnable'[d] = was_runnable[d]
  /\ UNCHANGED <<running, stopping, dispatch, wpc, wjob, commands>>
  /\ storeFaults' \in Nat

LEMMA WorksToken ==
  ASSUME TokenInv, NEW c \in Clients, Works(c)
  PROVE  TokenInv'
<1> USE DEF TokenInv
<1>1. /\ UNCHANGED <<running, stopping, requests, pending, runnable, waiting,
                     active, wpc, wjob, commands>>
      /\ storeFaults' \in Nat
  BY DEF Works, dispatch
<1>2. TypeOK'
  BY <1>1, SMT DEF TypeOK, Works
<1>3. PoolInv' /\ QueueInv'
  BY <1>1 DEF PoolInv, ExclusiveRun, QueueInv
<1>4. \A d \in Clients : cpc'[d] \in Cancelling =>
        /\ cpc[d] \in Cancelling /\ cjob'[d] = cjob[d]
        /\ was_runnable'[d] = was_runnable[d]
  BY SMT DEF Works, TypeOK
<1>5. \A d \in Clients : cpc'[d] \in Creating =>
        cpc[d] \in Creating /\ cnew'[d] = cnew[d]
  BY DEF Works, TypeOK
<1>6. HeldInv'
  BY <1>1, <1>4, SMT DEF HeldInv, Queued
<1>7. CreateInv'
  BY <1>1, <1>5 DEF CreateInv
<1> QED
  BY <1>2, <1>3, <1>6, <1>7

(* The steps of the commands that are of that kind.  *)
LEMMA ReturnWorks ==
  ASSUME TypeOK, NEW c \in Clients, CReturn(c), storeFaults' \in Nat,
         UNCHANGED <<running, stopping, dispatch, wpc, wjob>>
  PROVE  Works(c)
<1>1. cpc' = [cpc EXCEPT ![c] = "idle"] /\ "idle" \in ClientLabel \ Creating
      /\ "idle" \notin Cancelling
  BY DEF CReturn, ClientLabel, Creating, Cancelling
<1>2. /\ cjob' = [cjob EXCEPT ![c] = NoJob] /\ cjob'[c] = NoJob
      /\ cnew' = [cnew EXCEPT ![c] = NoJob] /\ cnew'[c] = NoJob
      /\ was_runnable' \in [Clients -> BOOLEAN]
      /\ \A d \in Clients \ {c} : was_runnable'[d] = was_runnable[d]
      /\ UNCHANGED commands
  BY DEF CReturn, TypeOK
<1> QED
  BY <1>1, <1>2 DEF Works

LEMMA GotoWorks ==
  ASSUME TypeOK, NEW c \in Clients, NEW label \in ClientLabel \ Creating,
         CGoto(c, label), label \in Cancelling => cpc[c] \in Cancelling,
         storeFaults' \in Nat,
         UNCHANGED <<running, stopping, dispatch, wpc, wjob>>
  PROVE  Works(c)
<1>1. /\ cpc' = [cpc EXCEPT ![c] = label]
      /\ UNCHANGED <<cjob, cnew, was_runnable, commands>>
  BY DEF CGoto
<1>2. /\ cjob' = [cjob EXCEPT ![c] = cjob'[c]] /\ cjob'[c] \in Jobs \cup {NoJob}
      /\ cnew' = [cnew EXCEPT ![c] = cnew'[c]] /\ cnew'[c] \in Jobs \cup {NoJob}
      /\ was_runnable' \in [Clients -> BOOLEAN]
  BY <1>1 DEF TypeOK
<1> QED
  BY <1>1, <1>2 DEF Works

LEMMA CommandWorks ==
  ASSUME TypeOK, NEW c \in Clients,
         \/ CancelLoad(c) \/ CancelCheck(c) \/ CancelWrite(c) \/ RetryLoad(c)
         \/ RetryProbe(c) /\ UNCHANGED pending
         \/ \E j \in Jobs : RetryLookup(c, j)
  PROVE  Works(c)
<1> DEFINE Rest == UNCHANGED <<running, stopping, dispatch, wpc, wjob>>
<1>1. CASE CancelLoad(c)
  <2>1. Rest /\ storeFaults' \in Nat /\ cpc[c] = "cancelLoad"
    BY <1>1, SMT DEF CancelLoad, lifecycle, worker, CommandStoreFault,
       StoreFault, budget, TypeOK
  <2>2. CGoto(c, "cancelCheck") \/ CGoto(c, "cancelBack")
    BY <1>1 DEF CancelLoad
  <2> QED
    BY <2>1, <2>2, GotoWorks DEF ClientLabel, Creating, Cancelling
<1>2. CASE CancelCheck(c)
  <2>1. Rest /\ storeFaults' \in Nat /\ cpc[c] = "cancelCheck"
    BY <1>2, SMT DEF CancelCheck, lifecycle, worker, StoreFault, budget,
       TypeOK
  <2>2. CGoto(c, "cancelWrite") \/ CGoto(c, "cancelBack")
    BY <1>2 DEF CancelCheck
  <2> QED
    BY <2>1, <2>2, GotoWorks DEF ClientLabel, Creating, Cancelling
<1>3. CASE CancelWrite(c)
  BY <1>3, ReturnWorks DEF CancelWrite, lifecycle, worker, budget, TypeOK
<1>4. CASE RetryLoad(c)
  <2>1. Rest /\ storeFaults' \in Nat
    BY <1>4, SMT DEF RetryLoad, lifecycle, worker, CommandStoreFault,
       StoreFault, budget, TypeOK
  <2>2. CGoto(c, "retryProbe") \/ CReturn(c)
    BY <1>4 DEF RetryLoad
  <2> QED
    BY <2>1, <2>2, GotoWorks, ReturnWorks
    DEF ClientLabel, Creating, Cancelling
<1>5. CASE RetryProbe(c) /\ UNCHANGED pending
  <2>1. Rest /\ storeFaults' \in Nat
    BY <1>5, SMT DEF RetryProbe, lifecycle, dispatch, worker, StoreFault,
       budget, TypeOK
  <2>2. CASE CReturn(c)
    BY <2>1, <2>2, ReturnWorks
  <2>3. CASE ~CReturn(c)
    <3>1. PICK k \in RetryIds : k \notin pending /\ pending' = pending \cup {k}
      BY <1>5, <2>3 DEF RetryProbe
    <3> QED
      BY <1>5, <3>1
  <2> QED
    BY <2>2, <2>3
<1>6. CASE \E j \in Jobs : RetryLookup(c, j)
  <2>1. PICK j \in Jobs : RetryLookup(c, j)
    BY <1>6
  <2>2. Rest /\ storeFaults' \in Nat
    BY <2>1 DEF RetryLookup, lifecycle, worker, budget, TypeOK
  <2>3. /\ cpc' = [cpc EXCEPT ![c] = "retryLoad"]
        /\ cjob' = [cjob EXCEPT ![c] = j] /\ cjob'[c] = j
        /\ UNCHANGED <<cnew, was_runnable, commands>>
    BY <2>1 DEF RetryLookup, TypeOK
  <2>4. cnew' = [cnew EXCEPT ![c] = cnew'[c]] /\ cnew'[c] \in Jobs \cup {NoJob}
        /\ was_runnable' \in [Clients -> BOOLEAN]
    BY <2>3 DEF TypeOK
  <2>5. "retryLoad" \in ClientLabel \ Creating /\ "retryLoad" \notin Cancelling
    BY DEF ClientLabel, Creating, Cancelling
  <2>6. cjob' = [cjob EXCEPT ![c] = cjob'[c]] /\ cjob'[c] \in Jobs \cup {NoJob}
    BY <2>3
  <2> QED
    BY <2>2, <2>3, <2>4, <2>5, <2>6 DEF Works
<1> QED
  BY <1>1, <1>2, <1>3, <1>4, <1>5, <1>6

(* A submission or a retry claims an id that nobody has.  *)
LEMMA ClaimToken ==
  ASSUME TokenInv, NEW c \in Clients, NEW k \in Jobs \ (requests \cup pending),
         cpc[c] \notin Cancelling,
         pending' = pending \cup {k},
         cnew' = [cnew EXCEPT ![c] = k],
         cpc' = [cpc EXCEPT ![c] = "record"],
         UNCHANGED <<running, stopping, requests, runnable, waiting, active,
                     wpc, wjob, cjob, was_runnable, commands, storeFaults>>
  PROVE  TokenInv'
<1> USE DEF TokenInv
<1>1. TypeOK'
  BY DEF TypeOK, ClientLabel
<1>2. PoolInv' /\ QueueInv'
  BY DEF PoolInv, ExclusiveRun, QueueInv
<1>3. \A d \in Clients : cpc'[d] \in Cancelling => cpc[d] \in Cancelling
  BY DEF TypeOK, Cancelling
<1>4. HeldInv'
  BY <1>3 DEF HeldInv, Queued
<1>5. \A d \in Clients \ {c} : cpc'[d] = cpc[d] /\ cnew'[d] = cnew[d]
  BY DEF TypeOK
<1>6. cnew'[c] = k
  BY DEF TypeOK
<1>7. CreateInv'
  BY <1>5, <1>6, SMT DEF CreateInv
<1> QED
  BY <1>1, <1>2, <1>4, <1>7

LEMMA ClaimSteps ==
  ASSUME TokenInv, NEW c \in Clients,
         (\E j \in Jobs : SubmitClaim(c, j)) \/ RetryProbe(c)
  PROVE  TokenInv'
<1> USE DEF TokenInv
<1>1. CASE \E j \in Jobs : SubmitClaim(c, j)
  BY <1>1, ClaimToken DEF SubmitClaim, Enter, lifecycle, worker,
     budget, Cancelling
<1>2. CASE RetryProbe(c) /\ UNCHANGED pending
  BY <1>2, CommandWorks, WorksToken
<1>3. CASE RetryProbe(c) /\ pending' # pending
  <2>1. cpc[c] = "retryProbe"
    BY <1>3 DEF RetryProbe
  <2>2. PICK k \in RetryIds :
          /\ k \notin requests \cup pending
          /\ pending' = pending \cup {k}
          /\ cnew' = [cnew EXCEPT ![c] = k]
          /\ cpc' = [cpc EXCEPT ![c] = "record"]
          /\ UNCHANGED <<cjob, was_runnable, store_mutex, commands, budget>>
    BY <1>3 DEF RetryProbe
  <2>3. UNCHANGED <<running, stopping, requests, runnable, waiting, active,
                    wpc, wjob>>
    BY <1>3 DEF RetryProbe, lifecycle, worker
  <2>4. k \in Jobs \ (requests \cup pending)
    BY <2>2, ManagerAssumption
  <2> QED
    BY <2>1, <2>2, <2>3, <2>4, ClaimToken DEF Cancelling, budget
<1> QED
  BY <1>1, <1>2, <1>3

(* record_intent() keeps the claim, or gives it up.  *)
LEMMA RecordToken ==
  ASSUME TokenInv, NEW c \in Clients, RecordIntent(c)
  PROVE  TokenInv'
<1> USE DEF TokenInv
<1>1. /\ UNCHANGED <<running, stopping, requests, runnable, waiting, active,
                     wpc, wjob>>
      /\ cpc[c] = "record" /\ storeFaults' \in Nat
  BY SMT DEF RecordIntent, lifecycle, worker, CommandStoreFault, StoreFault,
     budget, TypeOK
<1>2. PoolInv' /\ QueueInv'
  BY <1>1 DEF PoolInv, ExclusiveRun, QueueInv
<1>3. CASE CGoto(c, "publish") /\ UNCHANGED pending
  <2>1. /\ cpc' = [cpc EXCEPT ![c] = "publish"]
        /\ UNCHANGED <<cjob, cnew, was_runnable, commands>>
    BY <1>3 DEF CGoto
  <2>2. TypeOK'
    BY <1>1, <1>3, <2>1 DEF TypeOK, ClientLabel
  <2>3. \A d \in Clients : /\ cpc'[d] \in Cancelling => cpc[d] \in Cancelling
                           /\ cpc'[d] \in Creating => cpc[d] \in Creating
    BY <1>1, <2>1 DEF TypeOK, Cancelling, Creating
  <2>4. HeldInv' /\ CreateInv'
    BY <1>1, <1>3, <2>1, <2>3 DEF HeldInv, CreateInv, Queued
  <2> QED
    BY <1>2, <2>2, <2>4
<1>4. CASE CReturn(c) /\ pending' = pending \ {cnew[c]}
  <2>1. /\ cpc' = [cpc EXCEPT ![c] = "idle"]
        /\ cjob' = [cjob EXCEPT ![c] = NoJob]
        /\ cnew' = [cnew EXCEPT ![c] = NoJob]
        /\ was_runnable' = [was_runnable EXCEPT ![c] = FALSE]
        /\ UNCHANGED commands
    BY <1>4 DEF CReturn
  <2>2. TypeOK'
    BY <1>1, <1>4, <2>1 DEF TypeOK, ClientLabel
  <2>3. \A d \in Clients :
          cpc'[d] \in Cancelling \cup Creating =>
            d # c /\ cpc'[d] = cpc[d] /\ cjob'[d] = cjob[d]
            /\ cnew'[d] = cnew[d] /\ was_runnable'[d] = was_runnable[d]
    BY <2>1 DEF TypeOK, Cancelling, Creating
  <2>4. HeldInv'
    BY <1>1, <2>3, SMT DEF HeldInv, Queued
  <2>5. cpc[c] \in Creating
    BY <1>1 DEF Creating
  <2>6. CreateInv'
    BY <1>1, <1>4, <2>3, <2>5 DEF CreateInv
  <2> QED
    BY <1>2, <2>2, <2>4, <2>6
<1> QED
  BY <1>3, <1>4 DEF RecordIntent

(* A job goes to the end of the queue, and its command is over.  *)
LEMMA EnqueueToken ==
  ASSUME TokenInv, NEW c \in Clients, NEW j \in Jobs,
         MakeRunnable(j),
         \/ CReturn(c)
         \/ /\ cpc[c] = "idle"
            /\ UNCHANGED <<cpc, cjob, cnew, was_runnable, commands>>,
         requests' = requests \cup {j}, pending' = pending \ {j},
         j \notin waiting \cup active, ~Queued(j),
         \A d \in Clients \ {c} :
           /\ cpc[d] \in Cancelling /\ was_runnable[d] => cjob[d] # j
           /\ cpc[d] \in Creating => cnew[d] # j,
         UNCHANGED <<running, stopping, waiting, active, wjob, storeFaults>>
  PROVE  TokenInv'
<1> USE DEF TokenInv
<1>1. /\ cpc' \in [Clients -> ClientLabel]
      /\ cjob' \in [Clients -> Jobs \cup {NoJob}]
      /\ cnew' \in [Clients -> Jobs \cup {NoJob}]
      /\ was_runnable' \in [Clients -> BOOLEAN]
      /\ UNCHANGED commands
      /\ cpc'[c] = "idle"
      /\ \A d \in Clients \ {c} :
           /\ cpc'[d] = cpc[d] /\ cjob'[d] = cjob[d]
           /\ cnew'[d] = cnew[d] /\ was_runnable'[d] = was_runnable[d]
  <2>1. CASE CReturn(c)
    BY <2>1 DEF CReturn, TypeOK, ClientLabel
  <2>2. CASE cpc[c] = "idle"
             /\ UNCHANGED <<cpc, cjob, cnew, was_runnable, commands>>
    BY <2>2 DEF TypeOK
  <2> QED
    BY <2>1, <2>2
<1>2. runnable' = Append(runnable, j) /\ notify_one
  BY DEF MakeRunnable
<1>3. Woken
  BY <1>2, NotifyWakes
<1>4. /\ runnable' \in Seq(Jobs) /\ Distinct(runnable')
      /\ \A i \in 1..Len(runnable') :
           \/ runnable'[i] = j
           \/ \E m \in 1..Len(runnable) : runnable'[i] = runnable[m]
  <2>1. \A i \in 1..Len(runnable) : runnable[i] # j
    BY DEF Queued
  <2>2. runnable \in Seq(Jobs) /\ Distinct(runnable) /\ j \in Jobs
    BY DEF TypeOK, QueueInv
  <2>3. /\ Append(runnable, j) \in Seq(Jobs) /\ Distinct(Append(runnable, j))
        /\ \A i \in 1..Len(Append(runnable, j)) :
             \/ Append(runnable, j)[i] = j
             \/ \E m \in 1..Len(runnable) : Append(runnable, j)[i] = runnable[m]
    BY ONLY <2>1, <2>2, AppendOne, Zenon
  <2> QED
    BY ONLY <1>2, <2>3
<1>5. TypeOK'
  BY <1>1, <1>3, <1>4 DEF TypeOK, Woken
<1>6. PoolInv'
  BY <1>3, WokenPool DEF PoolInv
<1>7. QueueInv'
  BY <1>4 DEF QueueInv
<1>8. \A d \in Clients :
        cpc'[d] \in Cancelling \cup Creating =>
          d # c /\ cpc'[d] = cpc[d] /\ cjob'[d] = cjob[d]
          /\ cnew'[d] = cnew[d] /\ was_runnable'[d] = was_runnable[d]
  BY <1>1 DEF Cancelling, Creating
<1>9. \A k \in Jobs : k # j /\ ~Queued(k) =>
        \A i \in 1..Len(runnable') : runnable'[i] # k
  BY <1>4 DEF Queued
<1>10. HeldInv'
  <2>1. \A d \in Clients : cpc[d] \in Cancelling => cjob[d] \in Jobs
    BY DEF HeldInv, TypeOK
  <2>2. \A d \in Clients : cpc'[d] \in Cancelling /\ was_runnable'[d] =>
          \A i \in 1..Len(runnable') : runnable'[i] # cjob'[d]
    BY <1>8, <1>9, <2>1, ZenonT(30) DEF HeldInv
  <2> QED
    BY <1>8, <2>2 DEF HeldInv, Queued
<1>11. CreateInv'
  BY <1>8 DEF CreateInv
<1> QED
  BY <1>5, <1>6, <1>7, <1>10, <1>11

LEMMA EnqueueSteps ==
  ASSUME TokenInv, NEW c \in Clients, PublishJob(c) \/ CancelBack(c)
  PROVE  TokenInv'
<1> USE DEF TokenInv
<1>1. CASE PublishJob(c)
  <2> DEFINE j == cnew[c]
  <2>1. /\ MakeRunnable(j) /\ CReturn(c) /\ cpc[c] \in Creating
        /\ requests' = requests \cup {j} /\ pending' = pending \ {j}
        /\ UNCHANGED <<running, stopping, waiting, active, wjob, storeFaults>>
    BY <1>1 DEF PublishJob, lifecycle, budget, Creating
  <2>2. j \in pending /\ j \notin requests /\ j \in Jobs
    BY <2>1 DEF CreateInv, TypeOK
  <2>3. j \notin waiting \cup active /\ ~Queued(j)
    BY <2>2 DEF QueueInv, PoolInv, Queued
  <2>4. \A d \in Clients \ {c} :
          /\ cpc[d] \in Cancelling /\ was_runnable[d] => cjob[d] # j
          /\ cpc[d] \in Creating => cnew[d] # j
    BY <2>1, <2>2 DEF HeldInv, CreateInv
  <2> HIDE DEF j
  <2> QED
    BY <2>1, <2>2, <2>3, <2>4, EnqueueToken
<1>2. CASE CancelBack(c) /\ was_runnable[c]
  <2> DEFINE j == cjob[c]
  <2>1. /\ MakeRunnable(j) /\ CReturn(c) /\ cpc[c] \in Cancelling
        /\ UNCHANGED <<running, stopping, requests, pending, waiting, active,
                       wjob, storeFaults>>
    BY <1>2 DEF CancelBack, lifecycle, budget, Cancelling
  <2>2. j \in requests /\ j \notin pending /\ j \in Jobs
    BY <2>1 DEF HeldInv, CreateInv, TypeOK
  <2>3. requests' = requests \cup {j} /\ pending' = pending \ {j}
    BY <2>1, <2>2
  <2>4. j \notin waiting \cup active /\ ~Queued(j)
    BY <1>2, <2>1 DEF HeldInv
  <2>5. \A d \in Clients \ {c} :
          /\ cpc[d] \in Cancelling /\ was_runnable[d] => cjob[d] # j
          /\ cpc[d] \in Creating => cnew[d] # j
    BY <1>2, <2>1, <2>2 DEF HeldInv, CreateInv
  <2> HIDE DEF j
  <2> QED
    BY <2>1, <2>2, <2>3, <2>4, <2>5, EnqueueToken
<1>3. CASE CancelBack(c) /\ ~was_runnable[c]
  <2>1. /\ CReturn(c)
        /\ UNCHANGED <<running, stopping, dispatch, wpc, wjob, storeFaults>>
    BY <1>3 DEF CancelBack, lifecycle, dispatch, budget
  <2>2. Works(c)
    BY <2>1, ReturnWorks DEF TypeOK
  <2> QED
    BY <2>2, WorksToken
<1> QED
  BY <1>1, <1>2, <1>3

(* pause() and cancel() take a job out of the queue and the backoff map; a   *)
(* cancel() remembers whether it came from the queue.                        *)
LEMMA WithdrawToken ==
  ASSUME TokenInv, NEW c \in Clients, NEW j \in requests \ active,
         cpc[c] = "idle",
         runnable' = take_runnable(j), waiting' = waiting \ {j},
         \/ UNCHANGED <<cpc, cjob, was_runnable>>
         \/ /\ cpc' = [cpc EXCEPT ![c] = "cancelLoad"]
            /\ cjob' = [cjob EXCEPT ![c] = j]
            /\ IF Queued(j)
               THEN was_runnable' = [was_runnable EXCEPT ![c] = TRUE]
               ELSE was_runnable' = [was_runnable EXCEPT ![c] = FALSE],
         UNCHANGED <<running, stopping, requests, pending, active, wpc, wjob,
                     cnew, commands, storeFaults>>
  PROVE  TokenInv'
<1> USE DEF TokenInv
<1>0. j \in Jobs
  BY DEF TypeOK
<1>1. /\ runnable' \in Seq(Jobs) /\ Distinct(runnable')
      /\ \A i \in 1..Len(runnable') :
           /\ runnable'[i] # j
           /\ \E m \in 1..Len(runnable) : runnable'[i] = runnable[m]
  <2> DEFINE q == take_runnable(j)
  <2>1. /\ q \in Seq(Jobs) /\ Distinct(q)
        /\ \A i \in 1..Len(q) :
             q[i] # j /\ \E m \in 1..Len(runnable) : q[i] = runnable[m]
    BY <1>0, TakenOut
  <2>2. runnable' = q
    OBVIOUS
  <2> HIDE DEF q
  <2> QED
    BY ONLY <2>1, <2>2, SMT
<1>2. TypeOK'
  <2>1. cpc' \in [Clients -> ClientLabel]
    BY SMT DEF TypeOK, ClientLabel
  <2>2. was_runnable' \in [Clients -> BOOLEAN]
    BY DEF TypeOK
  <2>3. cjob' \in [Clients -> Jobs \cup {NoJob}]
    BY <1>0 DEF TypeOK
  <2> QED
    BY <1>1, <2>1, <2>2, <2>3 DEF TypeOK
<1>3. PoolInv' /\ QueueInv'
  <2>1. PoolInv'
    BY DEF PoolInv, ExclusiveRun
  <2>2. \A i \in 1..Len(runnable) : runnable[i] \in requests \ (waiting \cup active)
    BY DEF QueueInv
  <2>3. \A i \in 1..Len(runnable') :
          runnable'[i] \in requests' \ (waiting' \cup active')
    BY <1>1, <2>2
  <2>4. waiting' \subseteq requests' \ active'
    BY DEF QueueInv
  <2> QED
    BY <1>1, <2>1, <2>3, <2>4 DEF QueueInv
<1>4. \A d \in Clients : \/ /\ cpc'[d] = cpc[d] /\ cjob'[d] = cjob[d]
                            /\ was_runnable'[d] = was_runnable[d]
                         \/ /\ d = c /\ cjob'[d] = j
                            /\ cpc'[d] = "cancelLoad"
                            /\ was_runnable'[d] <=> Queued(j)
  BY SMT DEF TypeOK
<1>5. \A k : k = j \/ ~Queued(k) => \A i \in 1..Len(runnable') : runnable'[i] # k
  BY <1>1 DEF Queued
<1>6. HeldInv'
  <2>1. \A d \in Clients : cpc'[d] \in Cancelling => cjob'[d] \in requests
    BY <1>4 DEF HeldInv
  <2>2. \A d \in Clients : cpc'[d] \in Cancelling /\ was_runnable'[d] =>
          /\ cjob'[d] \notin waiting' \cup active
          /\ \A i \in 1..Len(runnable') : runnable'[i] # cjob'[d]
    BY <1>4, <1>5, SMTT(30) DEF HeldInv
  <2>3. \A d, e \in Clients :
          /\ cpc'[d] \in Cancelling /\ was_runnable'[d]
          /\ cpc'[e] \in Cancelling /\ was_runnable'[e]
          /\ cjob'[d] = cjob'[e]
          => d = e
    BY <1>4, SMT DEF HeldInv
  <2> QED
    BY <2>1, <2>2, <2>3 DEF HeldInv, Queued
<1>7. CreateInv'
  <2>1. \A d \in Clients : cpc'[d] \in Creating => cpc[d] \in Creating
    BY <1>4 DEF Creating
  <2> QED
    BY <2>1 DEF CreateInv
<1> QED
  BY <1>2, <1>3, <1>6, <1>7

(* resume() puts a job in the queue that is nowhere else.  *)
LEMMA ResumeToken ==
  ASSUME TokenInv, PausedInv, NEW c \in Clients, NEW j \in Jobs, resume(c, j)
  PROVE  TokenInv'
<1>1. /\ j \in requests /\ j \in paused /\ MakeRunnable(j) /\ cpc[c] = "idle"
      /\ UNCHANGED <<running, stopping, requests, pending, waiting, active,
                     wjob, cpc, cjob, cnew, was_runnable, commands,
                     storeFaults>>
  BY DEF resume, Enter, lifecycle, client, budget
<1>2. requests' = requests \cup {j} /\ pending' = pending \ {j}
  BY <1>1 DEF TokenInv, CreateInv
<1>3. j \notin waiting \cup active /\ ~Queued(j)
  BY <1>1 DEF PausedInv, Loose
<1>4. \A d \in Clients \ {c} :
        /\ cpc[d] \in Cancelling /\ was_runnable[d] => cjob[d] # j
        /\ cpc[d] \in Creating => cnew[d] # j
  BY <1>1 DEF PausedInv, TokenInv, CreateInv
<1> QED
  BY <1>1, <1>2, <1>3, <1>4, EnqueueToken

(* Every step of a client keeps the invariant.  *)
LEMMA ClientToken ==
  ASSUME NoResume \/ PausedInv, TokenInv, NEW c \in Clients,
         CommandStep(c) \/ \E j \in Jobs : Command(c, j)
  PROVE  TokenInv'
<1> USE DEF TokenInv
<1>1. CASE \E j \in Jobs : resume(c, j)
  BY <1>1, ResumeToken DEF resume, Enter, NoResume, TypeOK
<1>2. CASE \E j \in Jobs : pause(c, j)
  BY <1>2, WithdrawToken DEF pause, Enter, lifecycle, worker, client,
     budget
<1>7. CASE \E j \in Jobs : CancelClaim(c, j)
  <2>1. PICK j \in Jobs : CancelClaim(c, j)
    BY <1>7
  <2>2. Queued(j) <=> j \in Elements(runnable)
    BY DEF Queued, Elements
  <2>3. (j \in Elements(runnable)) \in BOOLEAN
    BY SMT
  <2>4. IF Queued(j) THEN was_runnable' = [was_runnable EXCEPT ![c] = TRUE]
        ELSE was_runnable' = [was_runnable EXCEPT ![c] = FALSE]
    <3>1. was_runnable' = [was_runnable EXCEPT ![c] = j \in Elements(runnable)]
      BY <2>1 DEF CancelClaim
    <3>2. CASE Queued(j)
      <4>1. (j \in Elements(runnable)) = TRUE
        BY <2>2, <3>2
      <4> QED
        BY <3>1, <3>2, <4>1
    <3>3. CASE ~Queued(j)
      <4>1. (j \in Elements(runnable)) = FALSE
        BY <2>2, <3>3, SMT
      <4> QED
        BY <3>1, <3>3, <4>1
    <3> QED
      BY <3>2, <3>3
  <2>5. /\ cpc[c] = "idle" /\ j \in requests \ active
        /\ runnable' = take_runnable(j) /\ waiting' = waiting \ {j}
        /\ cpc' = [cpc EXCEPT ![c] = "cancelLoad"]
        /\ cjob' = [cjob EXCEPT ![c] = j]
        /\ UNCHANGED <<running, stopping, requests, pending, active, wpc, wjob,
                       cnew, commands, storeFaults>>
    BY <2>1 DEF CancelClaim, Enter, lifecycle, worker, budget
  <2> QED
    BY <2>4, <2>5, WithdrawToken
<1>3. CASE (\E j \in Jobs : SubmitClaim(c, j)) \/ RetryProbe(c)
  BY <1>3, ClaimSteps
<1>4. CASE RecordIntent(c)
  BY <1>4, RecordToken
<1>5. CASE PublishJob(c) \/ CancelBack(c)
  BY <1>5, EnqueueSteps
<1>6. CASE \/ CancelLoad(c) \/ CancelCheck(c) \/ CancelWrite(c) \/ RetryLoad(c)
           \/ \E j \in Jobs : RetryLookup(c, j)
  BY <1>6, CommandWorks, WorksToken
<1> QED
  BY <1>1, <1>2, <1>3, <1>4, <1>5, <1>6, <1>7 DEF CommandStep, Command

(* Every step does.  *)
LEMMA NextToken ==
  ASSUME NoResume \/ PausedInv, TokenInv, [Next]_vars
  PROVE  TokenInv'
<1>1. CASE Start \/ Shutdown \/ CloseStore \/ Crash
  BY <1>1, LifecycleToken
<1>2. CASE pump
  BY <1>2, PumpToken
<1>3. CASE \E w \in Workers : WorkerStep(w) \/ SpuriousWakeup(w)
  <2>1. PICK w \in Workers : WorkerStep(w) \/ SpuriousWakeup(w)
    BY <1>3
  <2>2. CASE Take(w)
    BY <2>2, TakeToken
  <2>3. CASE Settle(w)
    BY <2>3, SettleToken
  <2>4. CASE ~Take(w) /\ ~Settle(w)
    BY <2>1, <2>4, WorkerMoves, MovesToken DEF WorkerStep
  <2> QED
    BY <2>2, <2>3, <2>4
<1>4. CASE \E c \in Clients : CommandStep(c) \/ \E j \in Jobs : Command(c, j)
  BY <1>4, ClientToken
<1>5. CASE UNCHANGED vars
  BY <1>5, ZenonT(30) DEF vars, lifecycle, dispatch, worker, client, budget,
     TokenInv, TypeOK, PoolInv, ExclusiveRun, QueueInv, HeldInv, CreateInv,
     Queued
<1> QED
  BY <1>1, <1>2, <1>3, <1>4, <1>5 DEF Next

LEMMA ExactActive == TokenInv => active = Executing
<1> SUFFICES ASSUME TokenInv PROVE active = Executing
  OBVIOUS
<1>1. active \subseteq Jobs /\ \A w \in Workers : wjob[w] \in Jobs \cup {NoJob}
  BY DEF TokenInv, TypeOK, PoolInv
<1>2. \A j \in Jobs : j \in active <=> \E w \in Workers : wjob[w] = j
  BY DEF TokenInv, PoolInv
<1> QED
  BY <1>1, <1>2, ManagerAssumption, SMT DEF Executing

-----------------------------------------------------------------------------
(* The paused set.  *)

(* A step that pauses nothing and claims nothing for a cancel().  *)
LEMMA PausedKept ==
  ASSUME PausedInv, paused' \subseteq paused, requests \subseteq requests',
         \A k \in paused' : LooseNext(k),
         \A d \in Clients : cpc'[d] \in Cancelling =>
           cpc[d] \in Cancelling /\ cjob'[d] = cjob[d],
         UNCHANGED commands
  PROVE  PausedInv'
<1>1. paused' \subseteq requests'
  BY DEF PausedInv
<1>2. \A k \in paused' : Loose(k)'
  BY DEF Loose, LooseNext, Queued
<1>3. \A d \in Clients : cpc'[d] \in Cancelling =>
        cjob'[d] \notin paused' /\ "cancel" \in commands'[d]
  BY DEF PausedInv
<1> QED
  BY <1>1, <1>2, <1>3 DEF PausedInv

(* One that leaves the dispatch sets alone.  *)
LEMMA PausedIdle ==
  ASSUME PausedInv, UNCHANGED <<requests, runnable, waiting, paused, active>>,
         \A d \in Clients : cpc'[d] \in Cancelling =>
           cpc[d] \in Cancelling /\ cjob'[d] = cjob[d],
         UNCHANGED commands
  PROVE  PausedInv'
<1>1. \A k \in paused' : LooseNext(k)
  BY DEF PausedInv, Loose, LooseNext, Queued
<1> QED
  BY <1>1, PausedKept

(* What a worker takes came from the queue, and what it puts in backoff was  *)
(* active.                                                                   *)
LEMMA WorkerPaused ==
  ASSUME TokenInv, PausedInv, NEW w \in Workers,
         WorkerStep(w) \/ SpuriousWakeup(w)
  PROVE  PausedInv'
<1>1. CASE Take(w)
  <2>1. /\ runnable # <<>> /\ runnable' = Tail(runnable)
        /\ active' = active \cup {Head(runnable)}
        /\ UNCHANGED <<requests, waiting, paused, cpc, cjob, commands>>
    BY <1>1 DEF Take, client
  <2>2. /\ Head(runnable) = runnable[1] /\ 1 \in 1..Len(runnable)
        /\ \A i \in 1..Len(runnable') :
             \E m \in 1..Len(runnable) : runnable'[i] = runnable[m]
    BY <2>1, SMT DEF TokenInv, TypeOK
  <2>3. \A k \in paused : k \notin waiting /\ k \notin active /\ ~Queued(k)
    BY DEF PausedInv, Loose
  <2>4. \A k \in paused' : LooseNext(k)
    BY <2>1, <2>2, <2>3, SMT DEF LooseNext, Queued
  <2> QED
    BY <2>1, <2>4, PausedKept
<1>2. CASE Settle(w)
  <2>1. /\ active' \subseteq active /\ waiting' \subseteq waiting \cup {wjob[w]}
        /\ wpc[w] \in Busy
        /\ UNCHANGED <<requests, runnable, paused, cpc, cjob, commands>>
    BY <1>2 DEF Settle, client, Busy, WorkerLabel
  <2>2. wjob[w] \in active
    BY <2>1, ManagerAssumption DEF TokenInv, TypeOK, PoolInv
  <2>3. \A k \in paused : k \notin waiting /\ k \notin active /\ ~Queued(k)
    BY DEF PausedInv, Loose
  <2>4. \A k \in paused' : LooseNext(k)
    BY <2>1, <2>2, <2>3, SMT DEF LooseNext, Queued
  <2> QED
    BY <2>1, <2>4, PausedKept
<1>3. CASE ~Take(w) /\ ~Settle(w)
  <2>1. UNCHANGED <<dispatch, client>>
    BY <1>3, WorkerMoves DEF WorkerStep, Moves
  <2> QED
    BY <2>1, PausedIdle DEF dispatch, client
<1> QED
  BY <1>1, <1>2, <1>3

(* start(), shutdown(), a crash and pump(), which passes over paused jobs.  *)
LEMMA LifecyclePaused ==
  ASSUME TokenInv, PausedInv, Start \/ Shutdown \/ CloseStore \/ Crash \/ pump
  PROVE  PausedInv'
<1>1. CASE Start \/ Shutdown \/ CloseStore
  BY <1>1, PausedIdle DEF Start, Shutdown, CloseStore, dispatch, client
<1>2. CASE Crash
  <2>1. paused' = {} /\ \A d \in Clients : cpc'[d] = "idle"
    BY <1>2 DEF Crash
  <2> QED
    BY <2>1 DEF PausedInv, Cancelling
<1>3. CASE pump
  <2>1. PICK order \in UNION {[1..n -> waiting \ paused] :
                                n \in 1..Cardinality(waiting \ paused)} :
          /\ runnable' = runnable \o order
          /\ waiting' = waiting \ Elements(order)
    BY <1>3 DEF pump
  <2>2. UNCHANGED <<requests, paused, active, cpc, cjob, commands>>
    BY <1>3 DEF pump, client
  <2>3. PICK n \in 1..Cardinality(waiting \ paused) :
          order \in [1..n -> waiting \ paused]
    BY <2>1
  <2>4. order \in Seq(waiting \ paused) /\ runnable \in Seq(Jobs)
    BY <2>3, SMT DEF TokenInv, TypeOK
  <2>5. \A i \in 1..Len(runnable') :
          \/ \E m \in 1..Len(runnable) : runnable'[i] = runnable[m]
          \/ runnable'[i] \in waiting \ paused
    BY <2>1, <2>4, SMT
  <2>6. \A k \in paused' : LooseNext(k)
    BY <2>1, <2>2, <2>5 DEF PausedInv, Loose, LooseNext, Queued
  <2> QED
    BY <2>2, <2>6, PausedKept
<1> QED
  BY <1>1, <1>2, <1>3

(* A client that may pause meets no cancel() of another one.  *)
LEMMA PausePaused ==
  ASSUME Separate, TokenInv, PausedInv, NEW c \in Clients, NEW j \in Jobs,
         pause(c, j)
  PROVE  PausedInv'
<1>1. /\ cpc[c] = "idle" /\ "pause" \in commands[c] /\ j \in requests \ active
      /\ runnable' = take_runnable(j) /\ waiting' = waiting \ {j}
      /\ paused' = paused \cup {j}
      /\ UNCHANGED <<requests, active, cpc, cjob, commands>>
  BY DEF pause, Enter, client
<1> DEFINE q == take_runnable(j)
<1>2. \A i \in 1..Len(q) :
        q[i] # j /\ \E m \in 1..Len(runnable) : q[i] = runnable[m]
  BY TakenOut DEF TokenInv
<1>3. runnable' = q
  BY <1>1
<1> HIDE DEF q
<1>4. \A k \in paused' : Loose(k)'
  <2>1. \A k \in paused : k \notin waiting /\ k \notin active /\ ~Queued(k)
    BY DEF PausedInv, Loose
  <2> QED
    BY <1>1, <1>2, <1>3, <2>1, SMT DEF Loose, Queued
<1>5. \A d \in Clients : cpc[d] \in Cancelling => cjob[d] # j
  <2> SUFFICES ASSUME NEW d \in Clients, cpc[d] \in Cancelling PROVE FALSE
    OBVIOUS
  <2>1. d # c /\ "cancel" \in commands[d] /\ commands \in Menus
    BY <1>1 DEF PausedInv, Cancelling, TokenInv, TypeOK
  <2> QED
    BY <1>1, <2>1 DEF Separate
<1>6. \A d \in Clients : cpc'[d] \in Cancelling =>
        cjob'[d] \notin paused' /\ "cancel" \in commands'[d]
  BY <1>1, <1>5 DEF PausedInv
<1>7. paused' \subseteq requests'
  BY <1>1 DEF PausedInv
<1> QED
  BY <1>4, <1>6, <1>7 DEF PausedInv

(* A cancel() takes its job out of the paused set as well.  *)
LEMMA CancelPaused ==
  ASSUME TokenInv, PausedInv, NEW c \in Clients, NEW j \in Jobs,
         CancelClaim(c, j)
  PROVE  PausedInv'
<1>1. /\ "cancel" \in commands[c]
      /\ runnable' = take_runnable(j) /\ waiting' = waiting \ {j}
      /\ paused' = paused \ {j}
      /\ cpc' = [cpc EXCEPT ![c] = "cancelLoad"]
      /\ cjob' = [cjob EXCEPT ![c] = j]
      /\ UNCHANGED <<requests, active, commands>>
  BY DEF CancelClaim, Enter
<1> DEFINE q == take_runnable(j)
<1>2. \A i \in 1..Len(q) : \E m \in 1..Len(runnable) : q[i] = runnable[m]
  BY TakenOut DEF TokenInv
<1>3. runnable' = q
  BY <1>1
<1> HIDE DEF q
<1>4. \A k \in paused' : Loose(k)'
  BY <1>1, <1>2, <1>3 DEF PausedInv, Loose, Queued
<1>5. \A d \in Clients : \/ d = c /\ cjob'[d] = j
                         \/ cpc'[d] = cpc[d] /\ cjob'[d] = cjob[d]
  BY <1>1 DEF TokenInv, TypeOK
<1>6. \A d \in Clients : cpc'[d] \in Cancelling =>
        cjob'[d] \notin paused' /\ "cancel" \in commands'[d]
  <2>1. \A d \in Clients : cpc[d] \in Cancelling =>
          cjob[d] \notin paused /\ "cancel" \in commands[d]
    BY DEF PausedInv
  <2> QED
    BY <1>1, <1>5, <2>1, SMT
<1>7. paused' \subseteq requests'
  BY <1>1 DEF PausedInv
<1> QED
  BY <1>4, <1>6, <1>7 DEF PausedInv

(* What a command puts in the queue is not paused, or no longer.  *)
LEMMA EnqueuePaused ==
  ASSUME TokenInv, PausedInv, NEW c \in Clients, NEW j \in Jobs,
         MakeRunnable(j), paused' \subseteq paused, j \notin paused',
         requests \subseteq requests',
         \A d \in Clients : cpc'[d] \in Cancelling =>
           cpc[d] \in Cancelling /\ cjob'[d] = cjob[d],
         UNCHANGED <<waiting, active, commands>>
  PROVE  PausedInv'
<1>1. runnable \in Seq(Jobs) /\ runnable' = Append(runnable, j)
  BY DEF MakeRunnable, TokenInv, TypeOK
<1>2. \A i \in 1..Len(runnable') :
        \/ runnable'[i] = j
        \/ \E m \in 1..Len(runnable) : runnable'[i] = runnable[m]
  BY <1>1, SMTT(30)
<1>3. \A k \in paused : k \notin waiting /\ k \notin active /\ ~Queued(k)
  BY DEF PausedInv, Loose
<1>4. \A k \in paused' : LooseNext(k)
  BY <1>2, <1>3, SMT DEF LooseNext, Queued
<1> QED
  BY <1>4, PausedKept

LEMMA ClientPaused ==
  ASSUME Separate, TokenInv, PausedInv, NEW c \in Clients,
         CommandStep(c) \/ \E j \in Jobs : Command(c, j)
  PROVE  PausedInv'
<1>0. CReturn(c) => /\ UNCHANGED commands
                    /\ \A d \in Clients : cpc'[d] \in Cancelling =>
                         cpc[d] \in Cancelling /\ cjob'[d] = cjob[d]
  BY DEF CReturn, TokenInv, TypeOK, Cancelling
<1>1. CASE \E j \in Jobs : pause(c, j)
  BY <1>1, PausePaused
<1>2. CASE \E j \in Jobs : CancelClaim(c, j)
  BY <1>2, CancelPaused
<1>3. CASE \E j \in Jobs : resume(c, j)
  BY <1>3, EnqueuePaused DEF resume, client
<1>4. CASE PublishJob(c)
  <2>1. cnew[c] \in Jobs /\ cnew[c] \notin paused
    BY <1>4 DEF PublishJob, PausedInv, TokenInv, TypeOK, CreateInv, Creating
  <2> QED
    BY <1>0, <1>4, <2>1, EnqueuePaused DEF PublishJob
<1>5. CASE CancelBack(c) /\ was_runnable[c]
  <2>1. cjob[c] \in Jobs /\ cjob[c] \notin paused
    BY <1>5 DEF CancelBack, PausedInv, TokenInv, TypeOK, HeldInv, Cancelling
  <2> QED
    BY <1>0, <1>5, <2>1, EnqueuePaused DEF CancelBack
<1>6. CASE CancelBack(c) /\ ~was_runnable[c]
  BY <1>0, <1>6, PausedIdle DEF CancelBack
<1>7. CASE \/ CancelLoad(c) \/ CancelCheck(c) \/ CancelWrite(c)
           \/ RetryLoad(c) \/ RetryProbe(c) \/ RecordIntent(c)
           \/ \E j \in Jobs : RetryLookup(c, j) \/ SubmitClaim(c, j)
  <2>1. UNCHANGED <<requests, runnable, waiting, paused, active, commands>>
    BY <1>0, <1>7 DEF CancelLoad, CancelCheck, CancelWrite, RetryLoad,
       RetryProbe, RecordIntent, RetryLookup, SubmitClaim, dispatch, CGoto
  <2>2. \A d \in Clients : cpc'[d] \in Cancelling =>
          cpc[d] \in Cancelling /\ cjob'[d] = cjob[d]
    <3>1. CASE CancelLoad(c) \/ CancelCheck(c) \/ CancelWrite(c)
      BY <1>0, <3>1 DEF CancelLoad, CancelCheck, CancelWrite, CGoto, TokenInv,
         TypeOK, Cancelling
    <3>2. CASE RetryLoad(c) \/ RetryProbe(c) \/ RecordIntent(c)
      BY <1>0, <3>2 DEF RetryLoad, RetryProbe, RecordIntent, CGoto, TokenInv,
         TypeOK, Cancelling
    <3>3. CASE \E j \in Jobs : RetryLookup(c, j) \/ SubmitClaim(c, j)
      BY <3>3, ZenonT(60) DEF RetryLookup, SubmitClaim, TokenInv, TypeOK, Cancelling
    <3> QED
      BY <1>7, <3>1, <3>2, <3>3
  <2> QED
    BY <2>1, <2>2, PausedIdle
<1> QED
  BY <1>1, <1>2, <1>3, <1>4, <1>5, <1>6, <1>7 DEF CommandStep, Command

LEMMA NextPaused ==
  ASSUME Separate, TokenInv, PausedInv, [Next]_vars
  PROVE  PausedInv'
<1>1. CASE Start \/ Shutdown \/ CloseStore \/ Crash \/ pump
  BY <1>1, LifecyclePaused
<1>2. CASE \E w \in Workers : WorkerStep(w) \/ SpuriousWakeup(w)
  BY <1>2, WorkerPaused
<1>3. CASE \E c \in Clients : CommandStep(c) \/ \E j \in Jobs : Command(c, j)
  BY <1>3, ClientPaused
<1>4. CASE UNCHANGED vars
  BY <1>4, PausedIdle DEF vars, dispatch, client
<1> QED
  BY <1>1, <1>2, <1>3, <1>4 DEF Next

-----------------------------------------------------------------------------

LEMMA InitPaused == Init => PausedInv
BY DEF Init, PausedInv, Cancelling

LEMMA NextDispatch ==
  ASSUME NoResume \/ Separate, DispatchInv, [Next]_vars
  PROVE  DispatchInv'
<1>1. NoResume \/ PausedInv
  BY DEF DispatchInv
<1> QED
  BY <1>1, NextToken, NextPaused DEF DispatchInv

(* The queue, the backoff map, the workers, the cancels and the submissions  *)
(* hold a job between them at most once (manager.cpp: the sets that          *)
(* Manager::Impl keeps under its mutex), for every pool and every set of     *)
(* jobs, through store errors, failing moves, shutdown and crashes, as long  *)
(* as nobody calls resume() or nobody cancels where another may pause.       *)
THEOREM DispatchInvAlways == NoResume \/ Separate => (Spec => []DispatchInv)
<1> SUFFICES ASSUME NoResume \/ Separate PROVE Spec => []DispatchInv
  OBVIOUS
<1>1. Init => DispatchInv
  BY InitToken, InitPaused DEF DispatchInv
<1>2. DispatchInv /\ [Next]_vars => DispatchInv'
  BY NextDispatch
<1> QED
  BY <1>1, <1>2, PTL DEF Spec

(* No two workers ever execute the same job at the same time.  *)
THEOREM ExclusiveRunAlways == NoResume \/ Separate => (Spec => []ExclusiveRun)
<1> SUFFICES ASSUME NoResume \/ Separate PROVE Spec => []ExclusiveRun
  OBVIOUS
<1>1. DispatchInv => ExclusiveRun
  BY DEF DispatchInv, TokenInv, PoolInv
<1> QED
  BY <1>1, DispatchInvAlways, PTL

(* The active set, which wait_idle(), pause() and cancel() consult, is       *)
(* always exactly what the workers execute.                                  *)
THEOREM ActiveIsExactAlways == NoResume \/ Separate => (Spec => []ActiveIsExact)
<1> SUFFICES ASSUME NoResume \/ Separate PROVE Spec => []ActiveIsExact
  OBVIOUS
<1>1. DispatchInv => ActiveIsExact
  BY ExactActive DEF DispatchInv, ActiveIsExact
<1> QED
  BY <1>1, DispatchInvAlways, PTL

(* A paused job is in no queue, in no backoff and in no worker's hands, for  *)
(* any number of clients, as long as none cancels where another may pause.   *)
THEOREM PausedIsIdleAlways == Separate => (Spec => []PausedIsIdle)
<1> SUFFICES ASSUME Separate PROVE Spec => []PausedIsIdle
  OBVIOUS
<1>1. DispatchInv => PausedIsIdle
  <2> SUFFICES ASSUME DispatchInv, NEW k \in paused
               PROVE  k \notin Elements(runnable) \cup waiting \cup Executing
    BY DEF PausedIsIdle
  <2>1. Loose(k) /\ active = Executing
    BY ExactActive DEF DispatchInv, PausedInv
  <2> QED
    BY <2>1 DEF Loose, Queued, Elements
<1> QED
  BY <1>1, DispatchInvAlways, PTL

-----------------------------------------------------------------------------
(* What the commands do to the rows: a terminal row is never written again   *)
(* and a job whose cancel() returned Ok is never moved, although             *)
(* update_state() reads and writes a row in two statements.  That is so      *)
(* while no store call has failed, and also when some have, as long as only  *)
(* one client cancels: a cancel() that a store error refuses puts its job    *)
(* back in the queue while a second cancel() may be about to write its row.  *)

(* No store call has failed so far, unless shutdown() had closed the store.  *)
StoreWorks == storeFaults = 0

(* At most one client may cancel.  *)
Sole ==
  \A c, d \in Clients :
    "cancel" \in commands[c] /\ "cancel" \in commands[d] => c = d

Calm == StoreWorks \/ Sole

(* A store call has failed, and has put nobody in danger.  *)
Alone == ~StoreWorks /\ Sole

Moving == {"RENAMING", "TRANSFERRING"}
Past   == {"commit", "finish", "publish"}

(* Every known job has a row.  *)
RowInv ==
  /\ record \in [Jobs -> RowState]
  /\ wto \in [Workers -> JobState]
  /\ \A j \in requests : record[j] # "ABSENT"
  /\ \A c \in Clients : cpc[c] = "publish" => record[cnew[c]] # "ABSENT"

(* Between the two statements of a cancel() nobody else can touch the row:   *)
(* the job is in nobody's hands and store_mutex is held.  A cancel() that    *)
(* was refused has nothing left to lose, or is the only one.                 *)
CancelInv ==
  /\ running \/ stopping \/ \A c \in Clients : cpc[c] = "idle"
  /\ \A c \in Clients : cpc[c] \in {"cancelCheck", "cancelWrite"} =>
       record[cjob[c]] = "QUEUED" /\ store_mutex = c /\ open
  /\ \A c \in Clients : cpc[c] \in Cancelling => "cancel" \in commands[c]
  /\ \A c \in Clients : cpc[c] = "cancelBack" =>
       ~open \/ record[cjob[c]] # "QUEUED" \/ Alone
  /\ \A c \in Clients :
       /\ cpc[c] \in {"cancelLoad", "cancelCheck", "cancelWrite"}
       /\ open /\ record[cjob[c]] = "QUEUED"
       => Loose(cjob[c])

(* Between the two statements of a worker's update_state() the row does not  *)
(* change, and a worker that handles the file has a row that says so.        *)
EngineInv ==
  /\ \A w \in Workers : wpc[w] = "write" =>
       is_legal_transition(record[wjob[w]], wto[w])
  /\ \A w \in Workers : wpc[w] \in Past => record[wjob[w]] \in Moving
  /\ \A j \in Jobs : record[j] \in {"ABSENT", "QUEUED"} =>
       disk[j] \in {"source", "missing"}
  /\ disk \in [Jobs -> {"source", "staged", "final", "missing"}]
  /\ cancelled \subseteq Jobs
  /\ CancelledIsUntouched

CommandInv ==
  TokenInv /\ (Separate => PausedInv) /\ RowInv /\ CancelInv /\ EngineInv

-----------------------------------------------------------------------------

LEMMA InitCommand == Init => CommandInv
<1> SUFFICES ASSUME Init PROVE CommandInv
  OBVIOUS
<1>1. TokenInv /\ PausedInv
  BY InitToken, InitPaused
<1>2. RowInv
  BY DEF Init, RowInv, RowState, JobState
<1>3. CancelInv
  BY DEF Init, CancelInv, Cancelling
<1>4. disk \in [Jobs -> {"source", "staged", "final", "missing"}]
      /\ \A j \in Jobs : disk[j] \in {"source", "missing"}
  BY DEF Init
<1>5. EngineInv
  BY <1>4 DEF Init, EngineInv, CancelledIsUntouched, Past
<1> QED
  BY <1>1, <1>2, <1>3, <1>5 DEF CommandInv

(* What the counting of tokens gives: a worker's job is active and known, a  *)
(* cancelled one is known, one being submitted is not.                       *)
LEMMA Whose ==
  ASSUME TokenInv
  PROVE  /\ \A w \in Workers : wpc[w] \in Busy =>
              /\ wjob[w] \in Jobs /\ wjob[w] \in active /\ wjob[w] \in requests
              /\ \A v \in Workers : wjob[v] = wjob[w] => v = w
         /\ \A c \in Clients : cpc[c] \in Cancelling =>
              cjob[c] \in Jobs /\ cjob[c] \in requests
         /\ \A c \in Clients : cpc[c] \in Creating =>
              cnew[c] \in Jobs /\ cnew[c] \notin requests
         /\ requests \subseteq Jobs /\ waiting \subseteq Jobs
<1>1. requests \subseteq Jobs /\ waiting \subseteq requests
  BY DEF TokenInv, TypeOK, QueueInv
<1>2. ASSUME NEW w \in Workers, wpc[w] \in Busy
      PROVE  /\ wjob[w] \in Jobs /\ wjob[w] \in active /\ wjob[w] \in requests
             /\ \A v \in Workers : wjob[v] = wjob[w] => v = w
  <2>1. wjob[w] \in Jobs
    BY <1>2 DEF TokenInv, TypeOK, PoolInv
  <2>2. wjob[w] \in active /\ wjob[w] \in requests
    BY <2>1 DEF TokenInv, PoolInv
  <2>3. \A v \in Workers : wjob[v] = wjob[w] => v = w
    BY <2>1, ManagerAssumption DEF TokenInv, PoolInv, ExclusiveRun
  <2> QED
    BY <2>1, <2>2, <2>3
<1>3. \A c \in Clients : cpc[c] \in Cancelling =>
        cjob[c] \in Jobs /\ cjob[c] \in requests
  BY <1>1 DEF TokenInv, HeldInv
<1>4. \A c \in Clients : cpc[c] \in Creating =>
        cnew[c] \in Jobs /\ cnew[c] \notin requests
  <2>1. pending \subseteq Jobs /\ pending \cap requests = {}
    BY DEF TokenInv, TypeOK, CreateInv
  <2>2. \A c \in Clients : cpc[c] \in Creating => cnew[c] \in pending
    BY DEF TokenInv, CreateInv
  <2> QED
    BY ONLY <2>1, <2>2
<1> QED
  BY <1>1, <1>2, <1>3, <1>4

(* What every step does to the count of failed store calls.  *)
Steady ==
  /\ UNCHANGED commands
  /\ Alone => Alone'
  /\ StoreFault => Alone'

(* A step counts at most one failed store call, and no client gets another   *)
(* menu.                                                                     *)
LEMMA FaultStep ==
  ASSUME [Next]_vars
  PROVE  UNCHANGED commands /\ (UNCHANGED storeFaults \/ StoreFault)
<1> USE DEF budget
<1>1. CASE Start \/ Shutdown \/ CloseStore \/ Crash \/ pump
  BY <1>1 DEF Start, Shutdown, CloseStore, Crash, pump, client
<1>2. CASE \E w \in Workers : WorkerStep(w) \/ SpuriousWakeup(w)
  <2>1. PICK w \in Workers : WorkerStep(w) \/ SpuriousWakeup(w)
    BY <1>2
  <2>2. UNCHANGED commands
    BY <2>1 DEF WorkerStep, OpenWorker, Sleep, SpuriousWakeup, Exit, Take,
       Settle, Validate, Commit, Finish, Publish, Check, Write, HandleFailure,
       FailPermanently, client
  <2>3. UNCHANGED storeFaults \/ StoreFault
    BY <2>1 DEF WorkerStep, OpenWorker, Sleep, SpuriousWakeup, Exit, Take,
       Settle, Validate, Commit, Finish, Publish, Check, Write, HandleFailure,
       FailPermanently, FsFault
  <2> QED
    BY <2>2, <2>3
<1>3. CASE \E c \in Clients : CommandStep(c) \/ \E j \in Jobs : Command(c, j)
  <2>1. PICK c \in Clients : CommandStep(c) \/ \E j \in Jobs : Command(c, j)
    BY <1>3
  <2>2. UNCHANGED commands
    BY <2>1 DEF CommandStep, Command, RecordIntent, PublishJob, CancelLoad,
       CancelCheck, CancelWrite, CancelBack, RetryLoad, RetryProbe,
       SubmitClaim, pause, resume, CancelClaim, RetryLookup, CReturn, CGoto,
       client
  <2>3. UNCHANGED storeFaults \/ StoreFault
    BY <2>1 DEF CommandStep, Command, RecordIntent, PublishJob, CancelLoad,
       CancelCheck, CancelWrite, CancelBack, RetryLoad, RetryProbe,
       SubmitClaim, pause, resume, CancelClaim, RetryLookup, CommandStoreFault
  <2> QED
    BY <2>2, <2>3
<1>4. CASE UNCHANGED vars
  BY <1>4 DEF vars, client
<1> QED
  BY <1>1, <1>2, <1>3, <1>4 DEF Next

(* A step into a calm state comes from one, and a store that works in the    *)
(* end worked all along.                                                     *)
LEMMA CalmStep ==
  ASSUME storeFaults \in Nat, [Next]_vars
  PROVE  /\ storeFaults' \in Nat
         /\ StoreWorks' => StoreWorks /\ ~StoreFault
         /\ Calm' => Calm /\ Steady
<1>1. UNCHANGED commands /\ (UNCHANGED storeFaults \/ StoreFault)
  BY FaultStep
<1>2. /\ storeFaults' \in Nat
      /\ storeFaults' = 0 => storeFaults = 0 /\ ~StoreFault
  BY <1>1, SMT DEF StoreFault
<1>3. Sole' <=> Sole
  BY <1>1 DEF Sole
<1> QED
  BY <1>1, <1>2, <1>3 DEF StoreWorks, Calm, Alone, Steady

(* A step that touches neither the rows nor the files, and moves no worker   *)
(* except from its sleep.                                                    *)
LEMMA EngineKept ==
  ASSUME EngineInv,
         \A w \in Workers : wpc'[w] \in Past \cup {"write"} => wpc'[w] = wpc[w],
         UNCHANGED <<record, disk, cancelled, wjob, wto>>
  PROVE  EngineInv'
BY DEF EngineInv, CancelledIsUntouched

(* A step of one worker that writes no row and takes or settles no job.  *)
Quiet(w) ==
  /\ \E label \in WorkerLabel :
       /\ wpc' = [wpc EXCEPT ![w] = label]
       /\ label = "write" =>
            is_legal_transition(record[wjob[w]], wto[w]) /\ UNCHANGED wto
       /\ label \in Past => record[wjob[w]] \in Moving
  /\ wto' \in [Workers -> JobState]
  /\ \A v \in Workers \ {w} : wto'[v] = wto[v]
  /\ \/ UNCHANGED disk
     \/ /\ record[wjob[w]] \in Moving
        /\ disk' = [disk EXCEPT ![wjob[w]] = "staged"]
     \/ /\ record[wjob[w]] \in Moving
        /\ disk' = [disk EXCEPT ![wjob[w]] = "final"]
  /\ UNCHANGED <<lifecycle, dispatch, record, wjob, client, cancelled>>

LEMMA QuietKeeps ==
  ASSUME CommandInv, Steady, NEW w \in Workers, Quiet(w)
  PROVE  RowInv' /\ CancelInv' /\ EngineInv'
<1> USE DEF CommandInv
<1>1. UNCHANGED <<running, stopping, open, requests, waiting, active, runnable,
                  record, wjob, cpc, cjob, cnew, store_mutex, cancelled>>
  BY DEF Quiet, lifecycle, dispatch, client
<1>2. RowInv'
  BY <1>1 DEF RowInv, Quiet
<1>3. CancelInv'
  BY <1>1 DEF CancelInv, Loose, Queued, Steady
<1>4. EngineInv'
  <2>1. \A v \in Workers : wpc'[v] = "write" =>
          is_legal_transition(record[wjob[v]], wto'[v])
    BY DEF EngineInv, Quiet, TokenInv, TypeOK
  <2>2. \A v \in Workers : wpc'[v] \in Past => record[wjob[v]] \in Moving
    BY DEF EngineInv, Quiet, TokenInv, TypeOK
  <2>3. disk' \in [Jobs -> {"source", "staged", "final", "missing"}]
    BY DEF EngineInv, Quiet
  <2>4. \A j \in Jobs : disk'[j] = disk[j] \/ record[j] \in Moving
    BY DEF EngineInv, Quiet
  <2>5. CancelledIsUntouched'
    BY <1>1, <2>4 DEF EngineInv, CancelledIsUntouched, Moving
  <2>6. \A j \in Jobs : record[j] \in {"ABSENT", "QUEUED"} =>
          disk'[j] \in {"source", "missing"}
    BY <2>4 DEF EngineInv, Moving
  <2> QED
    BY <1>1, <2>1, <2>2, <2>3, <2>5, <2>6 DEF EngineInv
<1> QED
  BY <1>2, <1>3, <1>4

LEMMA WorkerQuiet ==
  ASSUME CommandInv, NEW w \in Workers,
         \/ OpenWorker(w) \/ Sleep(w) \/ Exit(w) \/ SpuriousWakeup(w)
         \/ Validate(w) \/ Commit(w) \/ Finish(w) \/ Publish(w)
         \/ Check(w) \/ HandleFailure(w) \/ FailPermanently(w)
  PROVE  Quiet(w)
<1>1. /\ wpc[w] \in Past => record[wjob[w]] \in Moving
      /\ wto \in [Workers -> JobState]
  BY DEF CommandInv, RowInv, EngineInv
<1> USE <1>1 DEF Quiet, WGoto, WorkerLabel, Past, Moving, JobState, rows,
        budget, history
<1>3. CASE OpenWorker(w)
  BY <1>3 DEF OpenWorker
<1>4. CASE Sleep(w)
  BY <1>4 DEF Sleep
<1>5. CASE Exit(w)
  BY <1>5 DEF Exit
<1>6. CASE SpuriousWakeup(w)
  BY <1>6 DEF SpuriousWakeup
<1>7. CASE Validate(w)
  BY <1>7 DEF Validate, WRecord
<1>8. CASE Commit(w)
  BY <1>8 DEF Commit, FsFault
<1>9. CASE Finish(w)
  BY <1>9 DEF Finish, Halt, WRecord
<1>10. CASE Publish(w)
  BY <1>10 DEF Publish, Halt, WRecord, FsFault
<1>11. CASE Check(w)
  BY <1>11 DEF Check, Halt
<1>12. CASE HandleFailure(w)
  BY <1>12 DEF HandleFailure
<1>13. CASE FailPermanently(w)
  BY <1>13 DEF FailPermanently, WRecord
<1> QED
  BY <1>3, <1>4, <1>5, <1>6, <1>7, <1>8, <1>9, <1>10, <1>11, <1>12, <1>13

(* The UPDATE of a worker: the row is the one that the SELECT saw.  *)
LEMMA WriteKeeps ==
  ASSUME CommandInv, Steady, NEW w \in Workers, Write(w)
  PROVE  /\ RowInv' /\ CancelInv' /\ EngineInv'
         /\ \A j \in Jobs : is_terminal(record[j]) => record'[j] = record[j]
<1> USE DEF CommandInv
<1> DEFINE j == wjob[w]
<1>1. /\ wpc[w] = "write"
      /\ record' = [record EXCEPT ![j] = wto[w]]
      /\ \E label \in {"commit", "publish", "settle"} :
           /\ wpc' = [wpc EXCEPT ![w] = label]
           /\ label \in Past => wto[w] \in Moving
      /\ UNCHANGED <<running, stopping, open, requests, waiting, active,
                     runnable, wjob, wto, disk, cpc, cjob, cnew, store_mutex,
                     cancelled>>
  BY DEF Write, WGoto, lifecycle, dispatch, client, history, budget,
     Past, Moving
<1>2. /\ j \in Jobs /\ j \in active /\ j \in requests
      /\ \A v \in Workers : wjob[v] = j => v = w
  BY <1>1, Whose DEF Busy, WorkerLabel
<1>3. is_legal_transition(record[j], wto[w]) /\ wto[w] \in JobState
  BY <1>1 DEF EngineInv, RowInv
<1>4. /\ record[j] \notin {"ABSENT", "DONE", "FAILED"}
      /\ wto[w] \notin {"ABSENT", "QUEUED"}
  BY <1>3 DEF is_legal_transition, JobState
<1>5. /\ record' \in [Jobs -> RowState] /\ record'[j] = wto[w]
      /\ \A k \in Jobs \ {j} : record'[k] = record[k]
  BY <1>1, <1>2, <1>3 DEF RowInv, RowState
<1> HIDE DEF j
<1>6. RowInv'
  <2>1. \A c \in Clients : cpc[c] = "publish" => cnew[c] \in Jobs \ {j}
    BY <1>2, Whose DEF Creating
  <2>2. requests \subseteq Jobs
    BY Whose
  <2> QED
    BY <1>1, <1>4, <1>5, <2>1, <2>2 DEF RowInv
<1>7. CancelInv'
  <2>1. \A c \in Clients : cpc[c] \in Cancelling => cjob[c] \in Jobs
    BY Whose
  <2>2. \A c \in Clients : cpc[c] \in {"cancelCheck", "cancelWrite"} =>
          cjob[c] # j
    BY <1>2 DEF CancelInv, Loose
  <2>3. \A c \in Clients : cpc[c] \in Cancelling =>
          \/ record'[cjob[c]] = record[cjob[c]]
          \/ record'[cjob[c]] # "QUEUED" /\ cjob[c] = j
    BY <1>4, <1>5, <2>1
  <2>4. \A c \in Clients : Loose(cjob[c]) => Loose(cjob[c])'
    BY <1>1 DEF Loose, Queued
  <2> QED
    <3>1. /\ cpc' = cpc /\ cjob' = cjob /\ open' = open
          /\ store_mutex' = store_mutex
          /\ running' = running /\ stopping' = stopping
      BY <1>1
    <3>2. ASSUME NEW c \in Clients, cpc[c] \in Cancelling,
                 record'[cjob[c]] = "QUEUED"
          PROVE  record[cjob[c]] = "QUEUED"
      BY <2>3, <3>2
    <3>3. ASSUME NEW c \in Clients, cpc[c] \in {"cancelCheck", "cancelWrite"}
          PROVE  record'[cjob[c]] = "QUEUED" /\ store_mutex = c /\ open
      <4>1. cpc[c] \in Cancelling
        BY ONLY <3>3 DEF Cancelling
      <4>2. record[cjob[c]] = "QUEUED" /\ store_mutex = c /\ open
        BY <3>3 DEF CancelInv
      <4> QED
        BY <2>2, <2>3, <3>3, <4>1, <4>2
    <3>4. ASSUME NEW c \in Clients, cpc[c] = "cancelBack", open,
                 record'[cjob[c]] = "QUEUED"
          PROVE  Alone'
      <4>1. record[cjob[c]] = "QUEUED"
        BY <3>2, <3>4 DEF Cancelling
      <4> QED
        BY <3>4, <4>1 DEF CancelInv, Steady
    <3>5. ASSUME NEW c \in Clients, open, record'[cjob[c]] = "QUEUED",
                 cpc[c] \in {"cancelLoad", "cancelCheck", "cancelWrite"}
          PROVE  Loose(cjob[c])'
      <4>1. cpc[c] \in Cancelling
        BY ONLY <3>5 DEF Cancelling
      <4>2. record[cjob[c]] = "QUEUED"
        BY <3>2, <3>5, <4>1
      <4>3. Loose(cjob[c])
        BY <3>5, <4>2 DEF CancelInv
      <4> QED
        BY <2>4, <4>3
    <3>6. \A c \in Clients : cpc[c] \in Cancelling => "cancel" \in commands'[c]
      BY DEF CancelInv, Steady
    <3>7. running \/ stopping \/ \A c \in Clients : cpc[c] = "idle"
      BY DEF CancelInv
    <3> QED
      BY <3>1, <3>3, <3>4, <3>5, <3>6, <3>7 DEF CancelInv
<1>8. EngineInv'
  <2>1. \A v \in Workers \ {w} : wpc'[v] = wpc[v] /\ wjob[v] # j
    BY <1>1, <1>2 DEF TokenInv, TypeOK
  <2>2. \A v \in Workers \ {w} : wpc[v] \in Past \cup {"write"} =>
          record'[wjob[v]] = record[wjob[v]]
    BY <1>5, <2>1, Whose DEF Past, Busy, WorkerLabel
  <2>3. wpc'[w] # "write" /\ (wpc'[w] \in Past => record'[wjob[w]] \in Moving)
    BY <1>1, <1>5 DEF TokenInv, TypeOK, j
  <2>4. CancelledIsUntouched'
    BY <1>1, <1>4, <1>5 DEF EngineInv, CancelledIsUntouched
  <2>5. \A k \in Jobs : record'[k] \in {"ABSENT", "QUEUED"} =>
          disk[k] \in {"source", "missing"}
    BY <1>4, <1>5 DEF EngineInv
  <2> QED
    <3>1. \A v \in Workers : wpc'[v] = "write" =>
            is_legal_transition(record'[wjob'[v]], wto'[v])
      <4> SUFFICES ASSUME NEW v \in Workers, wpc'[v] = "write"
                   PROVE  is_legal_transition(record'[wjob'[v]], wto'[v])
        OBVIOUS
      <4>1. v # w
        BY <2>3
      <4>2. wpc'[v] = wpc[v] /\ wjob' = wjob /\ wto' = wto
        BY <1>1, <2>1, <4>1
      <4>3. wpc[v] = "write"
        BY <4>2
      <4>4. record'[wjob[v]] = record[wjob[v]]
        BY <2>2, <4>1, <4>3
      <4>5. is_legal_transition(record[wjob[v]], wto[v])
        BY <4>3 DEF EngineInv
      <4> QED
        BY ONLY <4>2, <4>4, <4>5
    <3>2. \A v \in Workers : wpc'[v] \in Past => record'[wjob'[v]] \in Moving
      <4> SUFFICES ASSUME NEW v \in Workers, wpc'[v] \in Past
                   PROVE  record'[wjob[v]] \in Moving
        BY <1>1
      <4>1. CASE v = w
        BY <2>3, <4>1
      <4>2. CASE v # w
        <5>1. wpc'[v] = wpc[v]
          BY <2>1, <4>2
        <5>2. wpc[v] \in Past
          BY ONLY <5>1, wpc'[v] \in Past
        <5>3. record'[wjob[v]] = record[wjob[v]]
          BY <2>2, <4>2, <5>2
        <5>4. record[wjob[v]] \in Moving
          BY <5>2 DEF EngineInv
        <5> QED
          BY ONLY <5>3, <5>4
      <4> QED
        BY <4>1, <4>2
    <3>3. disk' = disk /\ cancelled' = cancelled
      BY <1>1
    <3>4. /\ disk \in [Jobs -> {"source", "staged", "final", "missing"}]
          /\ cancelled \subseteq Jobs
      BY DEF EngineInv
    <3> QED
      BY ONLY <2>4, <2>5, <3>1, <3>2, <3>3, <3>4, Zenon DEF EngineInv
<1>9. \A k \in Jobs : is_terminal(record[k]) => record'[k] = record[k]
  BY <1>4, <1>5 DEF is_terminal
<1> QED
  BY <1>6, <1>7, <1>8, <1>9

(* A worker takes a job, or is done with one.  *)
LEMMA TakeKeeps ==
  ASSUME CommandInv, Steady, NEW w \in Workers, Take(w) \/ Settle(w)
  PROVE  RowInv' /\ CancelInv' /\ EngineInv'
<1> USE DEF CommandInv
<1>1. /\ \/ wpc' = [wpc EXCEPT ![w] = "validate"]
         \/ wpc' = [wpc EXCEPT ![w] = "ready"]
      /\ \A v \in Workers \ {w} : wjob'[v] = wjob[v] /\ wto'[v] = wto[v]
      /\ wto' \in [Workers -> JobState]
      /\ UNCHANGED <<running, stopping, open, requests, record, disk, cpc, cjob,
                     cnew, store_mutex, cancelled>>
  BY DEF Take, Settle, lifecycle, rows, client, history, budget, TokenInv,
         TypeOK, RowInv, JobState
<1>2. \A k \in Jobs : Loose(k) =>
        k \notin waiting' \cup active' /\ \A i \in 1..Len(runnable') : runnable'[i] # k
  <2>1. CASE Take(w)
    <3>1. /\ runnable # <<>> /\ runnable' = Tail(runnable)
          /\ active' = active \cup {Head(runnable)} /\ UNCHANGED waiting
      BY <2>1 DEF Take
    <3>2. /\ Head(runnable) = runnable[1] /\ 1 \in 1..Len(runnable)
          /\ \A i \in 1..Len(runnable') :
               \E m \in 1..Len(runnable) : runnable'[i] = runnable[m]
      BY <3>1, SMT DEF TokenInv, TypeOK
    <3> QED
      BY <3>1, <3>2 DEF Loose, Queued
  <2>2. CASE Settle(w)
    <3>1. wjob[w] \in active
      BY <2>2, Whose DEF Settle, Busy, WorkerLabel
    <3>2. /\ active' \subseteq active /\ waiting' \subseteq waiting \cup {wjob[w]}
          /\ UNCHANGED runnable
      BY <2>2 DEF Settle
    <3> QED
      BY <3>1, <3>2 DEF Loose, Queued
  <2> QED
    BY <2>1, <2>2
<1>3. RowInv'
  BY <1>1 DEF RowInv
<1>4. CancelInv'
  <2>1. \A c \in Clients : cpc[c] \in Cancelling => cjob[c] \in Jobs
    BY Whose
  <2>2. \A c \in Clients :
          /\ cpc[c] \in {"cancelLoad", "cancelCheck", "cancelWrite"}
          /\ open /\ record[cjob[c]] = "QUEUED"
          => /\ cjob[c] \notin waiting' \cup active'
             /\ \A i \in 1..Len(runnable') : runnable'[i] # cjob[c]
    BY <1>2, <2>1 DEF CancelInv, Cancelling
  <2> QED
    BY <1>1, <2>2 DEF CancelInv, Loose, Queued, Steady
<1>5. \A v \in Workers : wpc'[v] \in Past \cup {"write"} =>
        wpc'[v] = wpc[v] /\ v # w
  BY <1>1 DEF TokenInv, TypeOK, Past
<1>6. EngineInv'
  BY <1>1, <1>5 DEF EngineInv, CancelledIsUntouched
<1> QED
  BY <1>3, <1>4, <1>6

(* A step of one client, or of none, that writes no row.  *)
LEMMA CommandKept ==
  ASSUME CommandInv, Steady, NEW c \in Clients,
         running \/ stopping,
         UNCHANGED <<running, stopping, open, record, disk, cancelled, wjob, wto>>,
         \A w \in Workers : wpc'[w] \in {wpc[w], "ready"},
         \A d \in Clients \ {c} :
           /\ cpc'[d] = cpc[d] /\ cjob'[d] = cjob[d] /\ cnew'[d] = cnew[d]
           /\ store_mutex = d => store_mutex' = d,
         \A j \in requests' : record[j] # "ABSENT",
         \A d \in Clients \ {c} :
           /\ cpc[d] \in Cancelling /\ open /\ record[cjob[d]] = "QUEUED"
           /\ Loose(cjob[d])
           => LooseNext(cjob[d]),
         cpc'[c] \in Cancelling => "cancel" \in commands[c],
         cpc'[c] = "publish" => record[cnew'[c]] # "ABSENT",
         cpc'[c] \in {"cancelCheck", "cancelWrite"} =>
           record[cjob'[c]] = "QUEUED" /\ store_mutex' = c /\ open,
         cpc'[c] = "cancelBack" =>
           ~open \/ record[cjob'[c]] # "QUEUED" \/ Alone',
         /\ cpc'[c] \in {"cancelLoad", "cancelCheck", "cancelWrite"}
         /\ open /\ record[cjob'[c]] = "QUEUED"
         => LooseNext(cjob'[c])
  PROVE  RowInv' /\ CancelInv' /\ EngineInv'
<1> USE DEF CommandInv
<1>1. RowInv'
  <2>1. ASSUME NEW d \in Clients, cpc'[d] = "publish"
        PROVE  record[cnew'[d]] # "ABSENT"
    <3>1. CASE d = c
      BY <2>1, <3>1
    <3>2. CASE d # c
      <4>1. cpc'[d] = cpc[d] /\ cnew'[d] = cnew[d]
        BY <3>2
      <4>2. cpc[d] = "publish" => record[cnew[d]] # "ABSENT"
        BY DEF RowInv
      <4> QED
        BY ONLY <2>1, <4>1, <4>2
    <3> QED
      BY <3>1, <3>2
  <2> QED
    BY <2>1 DEF RowInv
<1>2. \A d \in Clients \ {c} :
        /\ cpc'[d] \in {"cancelLoad", "cancelCheck", "cancelWrite"}
        /\ open /\ record[cjob'[d]] = "QUEUED"
        => LooseNext(cjob'[d])
  <2> SUFFICES ASSUME NEW d \in Clients \ {c},
                      cpc'[d] \in {"cancelLoad", "cancelCheck", "cancelWrite"},
                      open, record[cjob'[d]] = "QUEUED"
               PROVE  LooseNext(cjob'[d])
    OBVIOUS
  <2>1. cpc'[d] = cpc[d] /\ cjob'[d] = cjob[d]
    OBVIOUS
  <2>2. /\ cpc[d] \in {"cancelLoad", "cancelCheck", "cancelWrite"}
        /\ record[cjob[d]] = "QUEUED"
    BY ONLY <2>1, cpc'[d] \in {"cancelLoad", "cancelCheck", "cancelWrite"},
            record[cjob'[d]] = "QUEUED"
  <2>3. Loose(cjob[d])
    BY <2>2 DEF CancelInv
  <2>4. cpc[d] \in Cancelling
    BY ONLY <2>2 DEF Cancelling
  <2>5. LooseNext(cjob[d])
    BY <2>2, <2>3, <2>4
  <2> QED
    BY ONLY <2>1, <2>5 DEF LooseNext
<1>3. \A d \in Clients :
        /\ cpc'[d] \in {"cancelLoad", "cancelCheck", "cancelWrite"}
        /\ open /\ record[cjob'[d]] = "QUEUED"
        => /\ cjob'[d] \notin waiting' \cup active'
           /\ \A i \in 1..Len(runnable') : runnable'[i] # cjob'[d]
  BY <1>2 DEF LooseNext
<1>4. \A d \in Clients : cpc'[d] \in {"cancelCheck", "cancelWrite"} =>
        record[cjob'[d]] = "QUEUED" /\ store_mutex' = d /\ open
  <2> SUFFICES ASSUME NEW d \in Clients,
                      cpc'[d] \in {"cancelCheck", "cancelWrite"}
               PROVE  record[cjob'[d]] = "QUEUED" /\ store_mutex' = d /\ open
    OBVIOUS
  <2>1. CASE d = c
    BY <2>1
  <2>2. CASE d # c
    <3>1. /\ cpc'[d] = cpc[d] /\ cjob'[d] = cjob[d]
          /\ store_mutex = d => store_mutex' = d
      BY <2>2
    <3>2. cpc[d] \in {"cancelCheck", "cancelWrite"} =>
            record[cjob[d]] = "QUEUED" /\ store_mutex = d /\ open
      BY DEF CancelInv
    <3> QED
      BY ONLY <3>1, <3>2, cpc'[d] \in {"cancelCheck", "cancelWrite"}
  <2> QED
    BY <2>1, <2>2
<1>5. \A d \in Clients : cpc'[d] = "cancelBack" =>
        ~open \/ record[cjob'[d]] # "QUEUED" \/ Alone'
  <2> SUFFICES ASSUME NEW d \in Clients, cpc'[d] = "cancelBack"
               PROVE  ~open \/ record[cjob'[d]] # "QUEUED" \/ Alone'
    OBVIOUS
  <2>1. CASE d = c
    BY <2>1
  <2>2. CASE d # c
    <3>1. cpc'[d] = cpc[d] /\ cjob'[d] = cjob[d]
      BY <2>2
    <3>2. cpc[d] = "cancelBack" =>
            ~open \/ record[cjob[d]] # "QUEUED" \/ Alone
      BY DEF CancelInv
    <3>3. Alone => Alone'
      BY DEF Steady
    <3> QED
      BY ONLY <3>1, <3>2, <3>3, cpc'[d] = "cancelBack"
  <2> QED
    BY <2>1, <2>2
<1>6. \A d \in Clients : cpc'[d] \in Cancelling => "cancel" \in commands'[d]
  <2> SUFFICES ASSUME NEW d \in Clients, cpc'[d] \in Cancelling
               PROVE  "cancel" \in commands[d]
    BY DEF Steady
  <2>1. CASE d = c
    BY <2>1
  <2>2. CASE d # c
    <3>1. cpc'[d] = cpc[d]
      BY <2>2
    <3>2. cpc[d] \in Cancelling => "cancel" \in commands[d]
      BY DEF CancelInv
    <3> QED
      BY ONLY <3>1, <3>2, cpc'[d] \in Cancelling
  <2> QED
    BY <2>1, <2>2
<1>7. CancelInv'
  <2>1. UNCHANGED open /\ UNCHANGED record /\ (running' \/ stopping')
    OBVIOUS
  <2> QED
    BY ONLY <1>3, <1>4, <1>5, <1>6, <2>1, Zenon DEF CancelInv, Loose, Queued
<1>8. EngineInv'
  BY EngineKept DEF Past
<1> QED
  BY <1>1, <1>7, <1>8

(* start(), shutdown(), the death of the process, and pump().  *)
LEMMA LifecycleKeeps ==
  ASSUME CommandInv, Steady,
         Start \/ Shutdown \/ CloseStore \/ Crash \/ pump
  PROVE  RowInv' /\ CancelInv' /\ EngineInv'
<1> USE DEF CommandInv
<1>1. CASE Start
  <2>1. /\ ~running /\ ~stopping
        /\ wpc' \in {wpc, [w \in Workers |-> "starting"]}
        /\ UNCHANGED <<requests, record, disk, cancelled, wjob, wto, cpc, cnew>>
    BY <1>1 DEF Start, dispatch, rows, client, history
  <2>2. \A c \in Clients : cpc[c] = "idle"
    BY <2>1 DEF CancelInv
  <2>3. RowInv' /\ CancelInv'
    BY <2>1, <2>2 DEF RowInv, CancelInv, Cancelling
  <2>4. EngineInv'
    BY <2>1, EngineKept DEF Past
  <2> QED
    BY <2>3, <2>4
<1>2. CASE Shutdown
  <2>1. /\ stopping' /\ notify_all
        /\ UNCHANGED <<open, requests, waiting, active, runnable, record, disk,
                       cancelled, wjob, wto, cpc, cjob, cnew, store_mutex>>
    BY <1>2 DEF Shutdown, dispatch, rows, client, history, budget
  <2>2. RowInv' /\ CancelInv'
    BY <2>1 DEF RowInv, CancelInv, Loose, Queued, Steady
  <2>3. Woken
    BY <2>1, NotifyWakes DEF TokenInv
  <2>4. EngineInv'
    BY <2>1, <2>3, EngineKept DEF Past, Woken
  <2> QED
    BY <2>2, <2>4
<1>3. CASE CloseStore
  <2>1. /\ store_mutex = NoClient /\ open' = FALSE
        /\ UNCHANGED <<running, stopping, requests, record, disk, cancelled,
                       wpc, wjob, wto, cpc, cjob, cnew, store_mutex>>
    BY <1>3 DEF CloseStore, dispatch, rows, worker, client, history, budget
  <2>2. \A c \in Clients : cpc[c] \notin {"cancelCheck", "cancelWrite"}
    BY <2>1, ManagerAssumption DEF CancelInv
  <2>3. RowInv' /\ CancelInv'
    BY <2>1, <2>2 DEF RowInv, CancelInv, Steady
  <2>4. EngineInv'
    BY <2>1, EngineKept
  <2> QED
    BY <2>3, <2>4
<1>4. CASE Crash
  <2>1. /\ requests' = {} /\ cpc' = [c \in Clients |-> "idle"]
        /\ wpc' = [w \in Workers |-> "none"]
        /\ wto' = [w \in Workers |-> "QUEUED"]
        /\ UNCHANGED <<record, disk, cancelled>>
    BY <1>4 DEF Crash, rows, history
  <2>2. RowInv' /\ CancelInv'
    BY <2>1 DEF RowInv, CancelInv, Cancelling, JobState
  <2>3. EngineInv'
    BY <2>1 DEF EngineInv, CancelledIsUntouched, Past
  <2> QED
    BY <2>2, <2>3
<1>5. CASE pump
  <2>1. PICK order \in UNION {[1..n -> waiting \ paused] :
                                n \in 1..Cardinality(waiting \ paused)} :
          runnable' = runnable \o order /\ waiting' = waiting \ Elements(order)
    BY <1>5 DEF pump
  <2>2. /\ notify_all /\ running
        /\ UNCHANGED <<running, stopping, open, requests, active, record, disk,
                       cancelled, wjob, wto, cpc, cjob, cnew, store_mutex>>
    BY <1>5 DEF pump, lifecycle, rows, client, history, budget
  <2>3. PICK n \in Nat : order \in [1..n -> waiting]
    <3>1. PICK n \in 1..Cardinality(waiting \ paused) :
            order \in [1..n -> waiting \ paused]
      BY <2>1
    <3>2. n \in Nat /\ order \in [1..n -> waiting]
      BY ONLY <3>1
    <3> QED
      BY ONLY <3>2
  <2>4. order \in Seq(Jobs) /\ Len(order) = n
    BY <2>3, Whose, SMT
  <2>5. \A i \in 1..Len(runnable') :
          \/ \E m \in 1..Len(runnable) : runnable'[i] = runnable[m]
          \/ runnable'[i] \in waiting
    <3>1. runnable \in Seq(Jobs)
      BY DEF TokenInv, TypeOK
    <3>2. \A m \in 1..Len(order) : order[m] \in waiting
      BY ONLY <2>3, <2>4
    <3> QED
      BY ONLY <2>1, <2>4, <3>1, <3>2, ConcatElements
  <2>6. \A j \in Jobs : Loose(j) =>
          /\ j \notin waiting' \cup active'
          /\ \A i \in 1..Len(runnable') : runnable'[i] # j
    BY <2>1, <2>2, <2>5 DEF Loose, Queued
  <2>7. RowInv'
    BY <2>2 DEF RowInv
  <2>8. \A c \in Clients : cpc[c] \in Cancelling => cjob[c] \in Jobs
    BY Whose
  <2>9. CancelInv'
    BY <2>2, <2>6, <2>8 DEF CancelInv, Loose, Queued, Cancelling, Steady
  <2>10. Woken
    BY <2>2, NotifyWakes DEF TokenInv
  <2>11. EngineInv'
    BY <2>2, <2>10, EngineKept DEF Past, Woken
  <2> QED
    BY <2>7, <2>9, <2>11
<1> QED
  BY <1>1, <1>2, <1>3, <1>4, <1>5

(* A command that leaves the dispatch sets alone, and returns or goes on.  *)
LEMMA ReturnKeeps ==
  ASSUME CommandInv, Steady, NEW c \in Clients, running \/ stopping,
         CReturn(c),
         UNCHANGED <<running, stopping, open, requests, waiting, active,
                     runnable, record, disk, cancelled, wpc, wjob, wto>>
  PROVE  RowInv' /\ CancelInv' /\ EngineInv'
<1>1. /\ cpc'[c] = "idle"
      /\ \A d \in Clients \ {c} :
           /\ cpc'[d] = cpc[d] /\ cjob'[d] = cjob[d] /\ cnew'[d] = cnew[d]
           /\ store_mutex = d => store_mutex' = d
  BY DEF CReturn, CommandInv, TokenInv, TypeOK
<1>2. \A j : Loose(j) => LooseNext(j)
  BY DEF Loose, LooseNext, Queued
<1>3. \A j \in requests' : record[j] # "ABSENT"
  BY DEF CommandInv, RowInv
<1> QED
  BY <1>1, <1>2, <1>3, CommandKept DEF Cancelling

LEMMA GotoKeeps ==
  ASSUME CommandInv, Steady, NEW c \in Clients, running \/ stopping,
         cpc'[c] \in ClientLabel \ {"publish", "cancelLoad"},
         cpc'[c] \in Cancelling => "cancel" \in commands[c],
         \A d \in Clients \ {c} :
           /\ cpc'[d] = cpc[d] /\ cjob'[d] = cjob[d] /\ cnew'[d] = cnew[d]
           /\ store_mutex = d => store_mutex' = d,
         cpc'[c] \in {"cancelCheck", "cancelWrite"} =>
           /\ record[cjob'[c]] = "QUEUED" /\ store_mutex' = c /\ open
           /\ Loose(cjob'[c]),
         cpc'[c] = "cancelBack" =>
           ~open \/ record[cjob'[c]] # "QUEUED" \/ Alone',
         UNCHANGED <<running, stopping, open, requests, waiting, active,
                     runnable, record, disk, cancelled, wpc, wjob, wto>>
  PROVE  RowInv' /\ CancelInv' /\ EngineInv'
<1>1. \A j : Loose(j) => LooseNext(j)
  BY DEF Loose, LooseNext, Queued
<1>2. \A j \in requests' : record[j] # "ABSENT"
  BY DEF CommandInv, RowInv
<1> QED
  BY <1>1, <1>2, CommandKept

LEMMA ReadKeeps ==
  ASSUME CommandInv, Steady, NEW c \in Clients,
         \/ CancelLoad(c) \/ CancelCheck(c) \/ RetryLoad(c) \/ RetryProbe(c)
         \/ \E j \in Jobs : RetryLookup(c, j) \/ SubmitClaim(c, j)
         \/ RecordIntent(c) /\ CReturn(c) /\ UNCHANGED <<record, disk>>
  PROVE  RowInv' /\ CancelInv' /\ EngineInv'
<1> USE DEF CommandInv
<1> DEFINE Rest == UNCHANGED <<running, stopping, open, requests, waiting, active,
                               runnable, record, disk, cancelled, wpc, wjob, wto>>
<1> DEFINE Others == \A d \in Clients \ {c} :
             /\ cpc'[d] = cpc[d] /\ cjob'[d] = cjob[d] /\ cnew'[d] = cnew[d]
             /\ store_mutex = d => store_mutex' = d
<1>1. /\ cpc[c] # "idle" => running \/ stopping
      /\ cpc[c] \in Cancelling => "cancel" \in commands[c]
  BY DEF CancelInv
<1>2. CASE CancelLoad(c)
  <2>1. Rest /\ cpc[c] = "cancelLoad" /\ store_mutex = NoClient
        /\ store_mutex' = c /\ UNCHANGED <<cjob, cnew>>
    BY <1>2 DEF CancelLoad, CommandStoreFault, CGoto, lifecycle,
       dispatch, rows, worker, history, budget
  <2>2. \/ /\ open /\ record[cjob[c]] = "QUEUED"
           /\ cpc' = [cpc EXCEPT ![c] = "cancelCheck"]
        \/ /\ ~open \/ record[cjob[c]] # "QUEUED" \/ Alone'
           /\ cpc' = [cpc EXCEPT ![c] = "cancelBack"]
    BY <1>2 DEF CancelLoad, CommandStoreFault, CGoto, Steady
  <2>3. Others
    BY <2>1, <2>2, ManagerAssumption DEF TokenInv, TypeOK
  <2>4. \/ /\ open /\ record[cjob[c]] = "QUEUED" /\ cpc'[c] = "cancelCheck"
           /\ Loose(cjob[c])
        \/ /\ ~open \/ record[cjob[c]] # "QUEUED" \/ Alone'
           /\ cpc'[c] = "cancelBack"
    BY <2>1, <2>2 DEF TokenInv, TypeOK, CancelInv
  <2> QED
    BY <1>1, <2>1, <2>3, <2>4, GotoKeeps DEF ClientLabel, Cancelling
<1>3. CASE CancelCheck(c)
  <2>1. Rest /\ cpc[c] = "cancelCheck" /\ UNCHANGED <<store_mutex, cjob, cnew>>
    BY <1>3 DEF CancelCheck, CGoto, lifecycle, dispatch, rows,
       worker, history, budget
  <2>2. /\ record[cjob[c]] = "QUEUED" /\ store_mutex = c /\ open
        /\ Loose(cjob[c])
    BY <2>1 DEF CancelInv
  <2>3. \/ cpc' = [cpc EXCEPT ![c] = "cancelWrite"]
        \/ Alone' /\ cpc' = [cpc EXCEPT ![c] = "cancelBack"]
    BY <1>3, <2>2 DEF CancelCheck, CGoto, is_legal_transition, Steady
  <2>4. /\ Others
        /\ cpc'[c] = "cancelWrite" \/ (Alone' /\ cpc'[c] = "cancelBack")
    BY <2>1, <2>3 DEF TokenInv, TypeOK
  <2> QED
    BY <1>1, <2>1, <2>2, <2>4, GotoKeeps DEF ClientLabel, Cancelling
<1>4. CASE RetryLoad(c)
  <2>1. Rest /\ cpc[c] = "retryLoad" /\ store_mutex = NoClient
    BY <1>4 DEF RetryLoad, CommandStoreFault, lifecycle,
       dispatch, rows, worker, history, budget
  <2>2. CASE CReturn(c)
    BY <1>1, <2>1, <2>2, ReturnKeeps
  <2>3. CASE CGoto(c, "retryProbe")
    <3>1. Others /\ cpc'[c] = "retryProbe"
      BY <2>1, <2>3, ManagerAssumption DEF CGoto, TokenInv, TypeOK
    <3> QED
      BY <1>1, <2>1, <3>1, GotoKeeps DEF ClientLabel, Cancelling
  <2> QED
    BY <1>4, <2>2, <2>3 DEF RetryLoad
<1>5. CASE RetryProbe(c)
  <2>1. Rest /\ cpc[c] = "retryProbe"
    BY <1>5 DEF RetryProbe, lifecycle, rows, worker, history, budget
  <2>2. CASE CReturn(c)
    BY <1>1, <2>1, <2>2, ReturnKeeps
  <2>3. CASE ~CReturn(c)
    <3>1. PICK k \in RetryIds : /\ cnew' = [cnew EXCEPT ![c] = k]
                                /\ cpc' = [cpc EXCEPT ![c] = "record"]
                                /\ UNCHANGED <<cjob, store_mutex>>
      BY <1>5, <2>3 DEF RetryProbe
    <3>2. Others /\ cpc'[c] = "record"
      BY <3>1 DEF TokenInv, TypeOK
    <3> QED
      BY <1>1, <2>1, <3>2, GotoKeeps DEF ClientLabel, Cancelling
  <2> QED
    BY <2>2, <2>3
<1>6. CASE \E j \in Jobs : RetryLookup(c, j) \/ SubmitClaim(c, j)
  <2>1. PICK j \in Jobs : RetryLookup(c, j) \/ SubmitClaim(c, j)
    BY <1>6
  <2>2. Rest /\ running
    BY <2>1 DEF RetryLookup, SubmitClaim, Enter, lifecycle, dispatch,
       rows, worker, history, budget
  <2>3. Others /\ cpc'[c] \in {"retryLoad", "record"}
    BY <2>1 DEF RetryLookup, SubmitClaim, TokenInv, TypeOK
  <2> QED
    BY <2>2, <2>3, GotoKeeps DEF ClientLabel, Cancelling
<1>7. CASE RecordIntent(c) /\ CReturn(c) /\ UNCHANGED <<record, disk>>
  <2>1. Rest /\ cpc[c] = "record"
    BY <1>7 DEF RecordIntent, CommandStoreFault, lifecycle,
       worker, history, budget
  <2> QED
    BY <1>1, <1>7, <2>1, ReturnKeeps
<1> QED
  BY <1>2, <1>3, <1>4, <1>5, <1>6, <1>7

(* pause() and cancel() take a job out of the queue.  *)
LEMMA WithdrawKeeps ==
  ASSUME CommandInv, Steady, NEW c \in Clients, NEW j \in Jobs,
         pause(c, j) \/ CancelClaim(c, j)
  PROVE  RowInv' /\ CancelInv' /\ EngineInv'
<1> USE DEF CommandInv
<1>1. /\ j \in requests \ active /\ running
      /\ runnable' = take_runnable(j) /\ waiting' = waiting \ {j}
      /\ UNCHANGED <<running, stopping, open, requests, active, record, disk,
                     cancelled, wpc, wjob, wto, cnew, store_mutex>>
  BY DEF pause, CancelClaim, Enter, lifecycle, rows, worker, client, history,
         budget
<1>2. \A i \in 1..Len(runnable') :
        /\ runnable'[i] # j
        /\ \E m \in 1..Len(runnable) : runnable'[i] = runnable[m]
  <2>1. TypeOK /\ QueueInv
    BY DEF TokenInv
  <2>2. \A i \in 1..Len(take_runnable(j)) :
          /\ take_runnable(j)[i] # j
          /\ \E m \in 1..Len(runnable) : take_runnable(j)[i] = runnable[m]
    BY <2>1, TakenOut
  <2> QED
    BY <1>1, <2>2
<1>3. \A k : k = j \/ Loose(k) => LooseNext(k)
  BY <1>1, <1>2 DEF Loose, LooseNext, Queued
<1>4. \A k \in requests' : record[k] # "ABSENT"
  BY <1>1 DEF RowInv
<1>5. CASE pause(c, j)
  <2>1. UNCHANGED <<cpc, cjob>> /\ cpc[c] = "idle"
    BY <1>5 DEF pause, client, Enter
  <2> QED
    BY <1>1, <1>3, <1>4, <2>1, CommandKept DEF Cancelling
<1>6. CASE CancelClaim(c, j)
  <2>1. /\ cpc'[c] = "cancelLoad" /\ cjob'[c] = j /\ "cancel" \in commands[c]
        /\ \A d \in Clients \ {c} : cpc'[d] = cpc[d] /\ cjob'[d] = cjob[d]
    BY <1>6 DEF CancelClaim, Enter, TokenInv, TypeOK
  <2> QED
    BY <1>1, <1>3, <1>4, <2>1, CommandKept
<1> QED
  BY <1>5, <1>6

(* A job is put in the queue: a new one, or one whose cancel() was refused.  *)
LEMMA EnqueueKeeps ==
  ASSUME CommandInv, Steady, NEW c \in Clients, PublishJob(c) \/ CancelBack(c)
  PROVE  RowInv' /\ CancelInv' /\ EngineInv'
<1> USE DEF CommandInv
<1>1. /\ CReturn(c) /\ cpc[c] \in {"publish", "cancelBack"}
      /\ UNCHANGED <<running, stopping, open, waiting, active, record, disk,
                     cancelled, wjob, wto>>
  BY DEF PublishJob, CancelBack, lifecycle, rows, history, budget
<1>2. /\ cpc'[c] = "idle" /\ (running \/ stopping)
      /\ \A d \in Clients \ {c} :
           /\ cpc'[d] = cpc[d] /\ cjob'[d] = cjob[d] /\ cnew'[d] = cnew[d]
           /\ store_mutex = d => store_mutex' = d
  BY <1>1 DEF CReturn, TokenInv, TypeOK, CancelInv
<1>3. /\ \A k \in requests' : record[k] # "ABSENT"
      /\ \A w \in Workers : wpc'[w] \in {wpc[w], "ready"}
      /\ \A d \in Clients \ {c} :
           /\ cpc[d] \in Cancelling /\ open /\ record[cjob[d]] = "QUEUED"
           /\ Loose(cjob[d])
           => LooseNext(cjob[d])
  <2>0. \A d \in Clients : cpc[d] \in Cancelling => cjob[d] \in requests
    BY Whose
  <2>1. CASE PublishJob(c)
    <3>1. /\ runnable' = Append(runnable, cnew[c]) /\ notify_one
          /\ requests' = requests \cup {cnew[c]} /\ cpc[c] = "publish"
      BY <2>1 DEF PublishJob, MakeRunnable
    <3>2. cnew[c] \notin requests /\ cnew[c] \in Jobs
      BY <3>1, Whose DEF Creating
    <3>3. Woken
      BY <3>1, NotifyWakes DEF TokenInv
    <3>4. \A i \in 1..Len(runnable') :
            \/ runnable'[i] = cnew[c]
            \/ \E m \in 1..Len(runnable) : runnable'[i] = runnable[m]
      <4>1. runnable \in Seq(Jobs)
        BY DEF TokenInv, TypeOK
      <4> QED
        BY ONLY <3>1, <3>2, <4>1, AppendElements
    <3>5. \A k \in requests : Loose(k) => LooseNext(k)
      BY <1>1, <3>2, <3>4 DEF Loose, LooseNext, Queued
    <3> QED
      BY <2>0, <3>1, <3>3, <3>5 DEF RowInv, Woken
  <2>2. CASE CancelBack(c) /\ was_runnable[c]
    <3>1. /\ runnable' = Append(runnable, cjob[c]) /\ notify_one
          /\ UNCHANGED requests /\ cpc[c] = "cancelBack"
      BY <2>2 DEF CancelBack, MakeRunnable
    <3>2. /\ cjob[c] \in Jobs
          /\ ~open \/ record[cjob[c]] # "QUEUED" \/ Alone
      BY <3>1, Whose DEF Cancelling, CancelInv
    <3>3. Woken
      BY <3>1, NotifyWakes DEF TokenInv
    <3>4. \A i \in 1..Len(runnable') :
            \/ runnable'[i] = cjob[c]
            \/ \E m \in 1..Len(runnable) : runnable'[i] = runnable[m]
      <4>1. runnable \in Seq(Jobs)
        BY DEF TokenInv, TypeOK
      <4> QED
        BY ONLY <3>1, <3>2, <4>1, AppendElements
    <3>5. \A k : k # cjob[c] /\ Loose(k) => LooseNext(k)
      BY <1>1, <3>4 DEF Loose, LooseNext, Queued
    <3>6. Alone => \A d \in Clients \ {c} : cpc[d] \notin Cancelling
      BY <3>1 DEF Alone, Sole, CancelInv, Cancelling
    <3> QED
      BY <3>1, <3>2, <3>3, <3>5, <3>6 DEF RowInv, Woken
  <2>3. CASE CancelBack(c) /\ ~was_runnable[c]
    <3>1. UNCHANGED <<runnable, wpc, requests>>
      BY <2>3 DEF CancelBack
    <3> QED
      BY <1>1, <3>1 DEF Loose, LooseNext, Queued, RowInv
  <2> QED
    BY <2>1, <2>2, <2>3
<1> QED
  BY <1>1, <1>2, <1>3, CommandKept DEF Cancelling

(* A resumed job is in no cancel()'s hands.  *)
LEMMA ResumeKeeps ==
  ASSUME CommandInv, Steady, PausedInv, NEW c \in Clients, NEW j \in Jobs,
         resume(c, j)
  PROVE  RowInv' /\ CancelInv' /\ EngineInv'
<1> USE DEF CommandInv
<1>1. /\ j \in paused /\ runnable' = Append(runnable, j) /\ notify_one
      /\ UNCHANGED <<running, stopping, open, requests, waiting, active, record,
                     disk, cancelled, wjob, wto, cpc, cjob, cnew, store_mutex>>
  BY DEF resume, MakeRunnable, lifecycle, rows, client, history, budget
<1>2. \A i \in 1..Len(runnable') :
        \/ runnable'[i] = j
        \/ \E m \in 1..Len(runnable) : runnable'[i] = runnable[m]
  <2>1. runnable \in Seq(Jobs)
    BY DEF TokenInv, TypeOK
  <2> QED
    BY ONLY <1>1, <2>1, AppendElements
<1>3. \A k : k # j /\ Loose(k) => LooseNext(k)
  BY <1>1, <1>2 DEF Loose, LooseNext, Queued
<1>4. \A d \in Clients : cpc[d] \in Cancelling => cjob[d] # j
  BY <1>1 DEF PausedInv
<1>5. CancelInv'
  <2>1. \A d \in Clients :
          /\ cpc'[d] \in {"cancelLoad", "cancelCheck", "cancelWrite"}
          /\ open' /\ record'[cjob'[d]] = "QUEUED"
          => Loose(cjob[d])'
    BY <1>1, <1>3, <1>4, ZenonT(60)
       DEF CancelInv, Cancelling, Loose, LooseNext, Queued
  <2> QED
    BY <1>1, <2>1 DEF CancelInv, Steady
<1>6. RowInv'
  BY <1>1 DEF RowInv
<1>7. EngineInv'
  <2>1. Woken
    BY <1>1, NotifyWakes DEF TokenInv
  <2> QED
    BY <1>1, <2>1, EngineKept DEF Woken, Past
<1> QED
  BY <1>5, <1>6, <1>7

(* record_intent() creates a row.  *)
LEMMA RecordKeeps ==
  ASSUME CommandInv, Steady, NEW c \in Clients, RecordIntent(c)
  PROVE  /\ RowInv' /\ CancelInv' /\ EngineInv'
         /\ \A j \in Jobs : is_terminal(record[j]) => record'[j] = record[j]
<1> USE DEF CommandInv
<1> DEFINE j == cnew[c]
<1>1. CASE CReturn(c) /\ UNCHANGED <<record, disk>>
  BY <1>1, ReadKeeps
<1>2. CASE ~(CReturn(c) /\ UNCHANGED <<record, disk>>)
  <2>1. /\ cpc[c] = "record" /\ record[j] = "ABSENT"
        /\ record' = [record EXCEPT ![j] = "QUEUED"]
        /\ disk' \in {disk, [disk EXCEPT ![j] = "source"]}
        /\ cpc' = [cpc EXCEPT ![c] = "publish"]
        /\ UNCHANGED <<running, stopping, open, requests, waiting, active,
                       runnable, wpc, wjob, wto, cancelled, cjob, cnew,
                       store_mutex>>
    BY <1>2 DEF RecordIntent, CGoto, lifecycle, worker, history, budget
  <2>2. j \in Jobs /\ j \notin requests
    BY <2>1, Whose DEF Creating
  <2>3. /\ record' \in [Jobs -> RowState] /\ record'[j] = "QUEUED"
        /\ \A k \in Jobs \ {j} : record'[k] = record[k]
    BY <2>1, <2>2 DEF RowInv, RowState, JobState
  <2>4. /\ disk' \in [Jobs -> {"source", "staged", "final", "missing"}]
        /\ \A k \in Jobs \ {j} : disk'[k] = disk[k]
        /\ disk'[j] \in {"source", "missing"}
    BY <2>1, <2>2 DEF EngineInv
  <2>5. /\ cpc'[c] = "publish"
        /\ \A d \in Clients \ {c} : cpc'[d] = cpc[d]
    BY <2>1 DEF TokenInv, TypeOK
  <2> HIDE DEF j
  <2>6. RowInv'
    <3>1. \A d \in Clients \ {c} : cpc[d] = "publish" => cnew[d] \in Jobs
      BY Whose DEF Creating
    <3>2. requests \subseteq Jobs
      BY Whose
    <3> QED
      BY <2>1, <2>3, <2>5, <3>1, <3>2 DEF RowInv, j
  <2>7. CancelInv'
    <3>1. \A d \in Clients : cpc'[d] \in Cancelling =>
            /\ d # c /\ cpc'[d] = cpc[d]
            /\ record'[cjob[d]] = record[cjob[d]]
      BY <2>2, <2>3, <2>5, Whose, ZenonT(30) DEF Cancelling
    <3>2. \A d \in Clients : Loose(cjob[d]) => Loose(cjob[d])'
      BY <2>1 DEF Loose, Queued
    <3>3. running \/ stopping
      BY <2>1 DEF CancelInv
    <3>4. running' \/ stopping'
      BY <2>1, <3>3
    <3>5. \A d \in Clients : cpc'[d] \in {"cancelCheck", "cancelWrite"} =>
            record'[cjob'[d]] = "QUEUED" /\ store_mutex' = d /\ open'
      BY <2>1, <3>1 DEF CancelInv, Cancelling
    <3>6. \A d \in Clients : cpc'[d] = "cancelBack" =>
            ~open' \/ record'[cjob'[d]] # "QUEUED" \/ Alone'
      <4> SUFFICES ASSUME NEW d \in Clients, cpc'[d] = "cancelBack",
                          open', record'[cjob'[d]] = "QUEUED"
                   PROVE  Alone'
        OBVIOUS
      <4>1. cpc'[d] \in Cancelling
        BY DEF Cancelling
      <4>2. cpc'[d] = cpc[d] /\ record'[cjob[d]] = record[cjob[d]]
        BY <3>1, <4>1
      <4>3. cjob' = cjob /\ open' = open
        BY <2>1
      <4>4. cpc[d] = "cancelBack" /\ open /\ record[cjob[d]] = "QUEUED"
        BY ONLY <4>2, <4>3, cpc'[d] = "cancelBack", open',
                record'[cjob'[d]] = "QUEUED"
      <4>5. Alone
        BY <4>4 DEF CancelInv
      <4> QED
        BY <4>5 DEF Steady
    <3>7. \A d \in Clients :
            /\ cpc'[d] \in {"cancelLoad", "cancelCheck", "cancelWrite"}
            /\ open' /\ record'[cjob'[d]] = "QUEUED"
            => Loose(cjob[d])'
      <4> SUFFICES ASSUME NEW d \in Clients,
                          cpc'[d] \in {"cancelLoad", "cancelCheck", "cancelWrite"},
                          open', record'[cjob'[d]] = "QUEUED"
                   PROVE  Loose(cjob[d])'
        OBVIOUS
      <4>1. cpc'[d] \in Cancelling
        BY DEF Cancelling
      <4>2. cpc'[d] = cpc[d] /\ record'[cjob[d]] = record[cjob[d]]
        BY <3>1, <4>1
      <4>3. cjob' = cjob /\ open' = open
        BY <2>1
      <4>4. /\ cpc[d] \in {"cancelLoad", "cancelCheck", "cancelWrite"}
            /\ open /\ record[cjob[d]] = "QUEUED"
        BY ONLY <4>2, <4>3, open', record'[cjob'[d]] = "QUEUED",
                cpc'[d] \in {"cancelLoad", "cancelCheck", "cancelWrite"}
      <4>5. Loose(cjob[d])
        BY <4>4 DEF CancelInv
      <4> QED
        BY <3>2, <4>5
    <3>8. \A d \in Clients : cpc'[d] \in Cancelling =>
            "cancel" \in commands'[d]
      BY <3>1 DEF CancelInv, Steady
    <3> QED
      BY <3>4, <3>5, <3>6, <3>7, <3>8 DEF CancelInv
  <2>8. EngineInv'
    <3>1. \A w \in Workers : wpc[w] \in Past \cup {"write"} =>
            record'[wjob[w]] = record[wjob[w]]
      BY <2>2, <2>3, Whose, ZenonT(30) DEF Past, Busy, WorkerLabel
    <3>2. j \notin cancelled
      BY <2>1 DEF EngineInv, CancelledIsUntouched, j
    <3>3. CancelledIsUntouched'
      BY <2>1, <2>3, <2>4, <3>2 DEF EngineInv, CancelledIsUntouched
    <3>4. \A k \in Jobs : record'[k] \in {"ABSENT", "QUEUED"} =>
            disk'[k] \in {"source", "missing"}
      BY <2>3, <2>4 DEF EngineInv
    <3> QED
      BY <2>1, <2>4, <3>1, <3>3, <3>4, ZenonT(60) DEF EngineInv
  <2>9. \A k \in Jobs : is_terminal(record[k]) => record'[k] = record[k]
    BY <2>1, <2>3 DEF is_terminal, j
  <2> QED
    BY <2>6, <2>7, <2>8, <2>9
<1> QED
  BY <1>1, <1>2

(* The UPDATE of a cancel(): the row still is QUEUED.  *)
LEMMA CancelKeeps ==
  ASSUME CommandInv, Steady, NEW c \in Clients, CancelWrite(c)
  PROVE  /\ RowInv' /\ CancelInv' /\ EngineInv'
         /\ \A j \in Jobs : is_terminal(record[j]) => record'[j] = record[j]
<1> USE DEF CommandInv
<1> DEFINE j == cjob[c]
<1>1. /\ cpc[c] = "cancelWrite" /\ CReturn(c)
      /\ record' = [record EXCEPT ![j] = "FAILED"]
      /\ cancelled' = cancelled \cup {j}
      /\ UNCHANGED <<running, stopping, open, requests, waiting, active,
                     runnable, wpc, wjob, wto, disk>>
  BY DEF CancelWrite, lifecycle, dispatch, worker, budget
<1>2. /\ record[j] = "QUEUED" /\ store_mutex = c /\ open /\ Loose(j)
      /\ (running \/ stopping)
  BY <1>1 DEF CancelInv
<1>3. j \in Jobs /\ j \in requests
  BY <1>1, Whose DEF Cancelling
<1>4. /\ record' \in [Jobs -> RowState] /\ record'[j] = "FAILED"
      /\ \A k \in Jobs \ {j} : record'[k] = record[k]
  BY <1>1, <1>3 DEF RowInv, RowState, JobState
<1>5. /\ cpc'[c] = "idle"
      /\ \A d \in Clients \ {c} :
           cpc'[d] = cpc[d] /\ cjob'[d] = cjob[d] /\ cnew'[d] = cnew[d]
  BY <1>1 DEF CReturn, TokenInv, TypeOK
<1> HIDE DEF j
<1>6. RowInv'
  <2>1. \A d \in Clients : cpc[d] = "publish" => cnew[d] \in Jobs \ {j}
    BY <1>3, Whose DEF Creating
  <2>2. requests \subseteq Jobs
    BY Whose
  <2> QED
    <3>1. wto' \in [Workers -> JobState]
      BY <1>1 DEF RowInv
    <3>2. \A k \in requests' : record'[k] # "ABSENT"
      BY <1>1, <1>4, <2>2 DEF RowInv
    <3>3. ASSUME NEW d \in Clients, cpc'[d] = "publish"
          PROVE  record'[cnew'[d]] # "ABSENT"
      <4>1. d # c
        BY <1>5, <3>3
      <4>2. cpc'[d] = cpc[d] /\ cnew'[d] = cnew[d]
        BY <1>5, <4>1
      <4>3. cpc[d] = "publish"
        BY ONLY <3>3, <4>2
      <4>4. cnew[d] \in Jobs \ {j} /\ record[cnew[d]] # "ABSENT"
        BY <2>1, <4>3 DEF RowInv
      <4> QED
        BY ONLY <1>4, <4>2, <4>4
    <3> QED
      BY ONLY <1>4, <3>1, <3>2, <3>3, Zenon DEF RowInv
<1>7. CancelInv'
  <2>1. \A d \in Clients \ {c} : cpc[d] \notin {"cancelCheck", "cancelWrite"}
    BY <1>2 DEF CancelInv
  <2>2. \A d \in Clients \ {c} : cpc[d] \in Cancelling =>
          \/ record'[cjob[d]] = record[cjob[d]]
          \/ record'[cjob[d]] = "FAILED"
    BY <1>4, Whose
  <2>3. \A d \in Clients \ {c} : Loose(cjob[d]) => LooseNext(cjob[d])
    BY <1>1 DEF Loose, LooseNext, Queued
  <2>4. \A d \in Clients :
          /\ cpc'[d] \in {"cancelLoad", "cancelCheck", "cancelWrite"}
          /\ open /\ record'[cjob'[d]] = "QUEUED"
          => LooseNext(cjob'[d])
    <3> SUFFICES ASSUME NEW d \in Clients,
                        cpc'[d] \in {"cancelLoad", "cancelCheck", "cancelWrite"},
                        open, record'[cjob'[d]] = "QUEUED"
                 PROVE  LooseNext(cjob'[d])
      OBVIOUS
    <3>1. d # c
      BY <1>5
    <3>2. cpc'[d] = cpc[d] /\ cjob'[d] = cjob[d]
      BY <1>5, <3>1
    <3>3. /\ cpc[d] \in {"cancelLoad", "cancelCheck", "cancelWrite"}
          /\ record'[cjob[d]] = "QUEUED"
      BY ONLY <3>2, cpc'[d] \in {"cancelLoad", "cancelCheck", "cancelWrite"},
              record'[cjob'[d]] = "QUEUED"
    <3>4. cpc[d] \in Cancelling
      BY ONLY <3>3 DEF Cancelling
    <3>5. record[cjob[d]] = "QUEUED"
      BY <2>2, <3>1, <3>3, <3>4
    <3>6. Loose(cjob[d])
      BY <3>3, <3>5 DEF CancelInv
    <3>7. LooseNext(cjob[d])
      BY <2>3, <3>1, <3>6
    <3> QED
      BY ONLY <3>2, <3>7 DEF LooseNext
  <2>5. \A d \in Clients : cpc'[d] = "cancelBack" =>
          ~open \/ record'[cjob'[d]] # "QUEUED" \/ Alone'
    <3> SUFFICES ASSUME NEW d \in Clients, cpc'[d] = "cancelBack",
                        open, record'[cjob'[d]] = "QUEUED"
                 PROVE  Alone'
      OBVIOUS
    <3>1. d # c
      BY <1>5
    <3>2. cpc'[d] = cpc[d] /\ cjob'[d] = cjob[d]
      BY <1>5, <3>1
    <3>3. cpc[d] = "cancelBack" /\ record'[cjob[d]] = "QUEUED"
      BY ONLY <3>2, cpc'[d] = "cancelBack", record'[cjob'[d]] = "QUEUED"
    <3>4. cpc[d] \in Cancelling
      BY ONLY <3>3 DEF Cancelling
    <3>5. record[cjob[d]] = "QUEUED"
      BY <2>2, <3>1, <3>3, <3>4
    <3>6. Alone
      BY <3>3, <3>5 DEF CancelInv
    <3> QED
      BY <3>6 DEF Steady
  <2>6. \A d \in Clients : cpc'[d] \in Cancelling => "cancel" \in commands'[d]
    <3> SUFFICES ASSUME NEW d \in Clients, cpc'[d] \in Cancelling
                 PROVE  "cancel" \in commands[d]
      BY DEF Steady
    <3>1. d # c
      BY <1>5 DEF Cancelling
    <3>2. cpc'[d] = cpc[d]
      BY <1>5, <3>1
    <3>3. cpc[d] \in Cancelling
      BY ONLY <3>2, cpc'[d] \in Cancelling
    <3> QED
      BY <3>3 DEF CancelInv
  <2> QED
    BY <1>1, <1>2, <1>5, <2>1, <2>4, <2>5, <2>6, ZenonT(30) DEF CancelInv, Loose,
       LooseNext, Queued
<1>8. EngineInv'
  <2>1. \A w \in Workers : wpc[w] \in Past \cup {"write"} =>
          record'[wjob[w]] = record[wjob[w]]
    BY <1>2, <1>4, Whose DEF Past, Busy, WorkerLabel, Loose
  <2>2. CancelledIsUntouched'
    BY <1>1, <1>2, <1>3, <1>4 DEF EngineInv, CancelledIsUntouched
  <2>3. \A k \in Jobs : record'[k] \in {"ABSENT", "QUEUED"} =>
          disk[k] \in {"source", "missing"}
    BY <1>4 DEF EngineInv
  <2> QED
    BY <1>1, <1>3, <2>1, <2>2, <2>3, ZenonT(30) DEF EngineInv
<1>9. \A k \in Jobs : is_terminal(record[k]) => record'[k] = record[k]
  BY <1>2, <1>4 DEF is_terminal
<1> QED
  BY <1>6, <1>7, <1>8, <1>9

(* Every step keeps the invariant, and every terminal row.  *)
LEMMA NextCommand ==
  ASSUME NoResume \/ Separate, CommandInv, [Next]_vars, Calm'
  PROVE  /\ CommandInv'
         /\ \A j \in Jobs : is_terminal(record[j]) => record'[j] = record[j]
<1>0. TokenInv' /\ (Separate => PausedInv')
  BY NextDispatch DEF CommandInv, DispatchInv
<1> SUFFICES /\ RowInv' /\ CancelInv' /\ EngineInv'
             /\ \A j \in Jobs : is_terminal(record[j]) => record'[j] = record[j]
  BY <1>0 DEF CommandInv
<1> Steady
  BY CalmStep DEF CommandInv, TokenInv, TypeOK
<1>1. CASE Start \/ Shutdown \/ CloseStore \/ Crash \/ pump
  <2>1. UNCHANGED record
    BY <1>1 DEF Start, Shutdown, CloseStore, Crash, pump, rows
  <2> QED
    BY <1>1, <2>1, LifecycleKeeps
<1>2. CASE \E w \in Workers : WorkerStep(w) \/ SpuriousWakeup(w)
  <2>1. PICK w \in Workers : WorkerStep(w) \/ SpuriousWakeup(w)
    BY <1>2
  <2>2. CASE Take(w) \/ Settle(w)
    <3>1. UNCHANGED record
      BY <2>2 DEF Take, Settle, rows
    <3> QED
      BY <2>2, <3>1, TakeKeeps
  <2>3. CASE Write(w)
    BY <2>3, WriteKeeps
  <2>4. CASE ~Take(w) /\ ~Settle(w) /\ ~Write(w)
    <3>1. Quiet(w)
      BY <2>1, <2>4, WorkerQuiet DEF WorkerStep
    <3> QED
      BY <3>1, QuietKeeps DEF Quiet
  <2> QED
    BY <2>2, <2>3, <2>4
<1>3. CASE \E c \in Clients : CommandStep(c) \/ \E j \in Jobs : Command(c, j)
  <2>1. PICK c \in Clients : CommandStep(c) \/ \E j \in Jobs : Command(c, j)
    BY <1>3
  <2>2. CASE RecordIntent(c)
    BY <2>2, RecordKeeps
  <2>3. CASE CancelWrite(c)
    BY <2>3, CancelKeeps
  <2>4. CASE PublishJob(c) \/ CancelBack(c)
    BY <2>4, EnqueueKeeps DEF PublishJob, CancelBack, rows
  <2>5. CASE \E j \in Jobs : pause(c, j) \/ CancelClaim(c, j)
    BY <2>5, WithdrawKeeps DEF pause, CancelClaim, rows
  <2>6. CASE \/ CancelLoad(c) \/ CancelCheck(c) \/ RetryLoad(c) \/ RetryProbe(c)
             \/ \E j \in Jobs : RetryLookup(c, j) \/ SubmitClaim(c, j)
    <3>1. UNCHANGED record
      BY <2>6 DEF CancelLoad, CancelCheck, RetryLoad, RetryProbe,
         RetryLookup, SubmitClaim, rows
    <3> QED
      BY <2>6, <3>1, ReadKeeps
  <2>7. CASE \E j \in Jobs : resume(c, j)
    <3>1. Separate
      BY <2>7 DEF resume, Enter, NoResume, CommandInv, TokenInv, TypeOK
    <3> QED
      BY <2>7, <3>1, ResumeKeeps DEF resume, rows, CommandInv
  <2> QED
    BY <2>1, <2>2, <2>3, <2>4, <2>5, <2>6, <2>7 DEF CommandStep,
       Command
<1>4. CASE UNCHANGED vars
  BY <1>4, ZenonT(30) DEF vars, lifecycle, dispatch, rows, worker, client,
     history, budget, CommandInv, RowInv, CancelInv, EngineInv,
     CancelledIsUntouched, Loose, Queued, Steady
<1> QED
  BY <1>1, <1>2, <1>3, <1>4 DEF Next

(* The failed store calls are counted.  *)
Counted == storeFaults \in Nat

LEMMA FaultsCounted == Spec => []Counted
<1>1. Init => Counted
  BY SMT DEF Init, Counted
<1>2. Counted /\ [Next]_vars => Counted'
  BY CalmStep DEF Counted
<1> QED
  BY <1>1, <1>2, PTL DEF Spec

(* Each update_state(), of a worker or of cancel(), writes over the row that *)
(* it read, and a refused cancel() leaves no other one in danger (store.cpp, *)
(* update_state; manager.cpp, cancel): as long as no store call fails, or    *)
(* only one client cancels.                                                  *)
THEOREM CommandInvAlways ==
  (NoResume \/ Separate) => (Spec => [](Calm => CommandInv))
<1> SUFFICES ASSUME NoResume \/ Separate
             PROVE  Spec => [](Calm => CommandInv)
  OBVIOUS
<1>1. Counted /\ (Calm => CommandInv) /\ [Next]_vars => (Calm => CommandInv)'
  <2> SUFFICES ASSUME Counted, Calm => CommandInv, [Next]_vars, Calm'
               PROVE  CommandInv'
    OBVIOUS
  <2>1. Calm
    BY CalmStep DEF Counted
  <2> QED
    BY <2>1, NextCommand
<1> QED
  BY <1>1, InitCommand, FaultsCounted, PTL DEF Spec

(* A job whose cancel() returned Ok is FAILED for good and its file is never *)
(* moved, with any number of clients and workers, while no store call fails  *)
(* or only one client cancels.                                               *)
THEOREM CancelledIsUntouchedAlways ==
  (NoResume \/ Separate) => (Spec => [](Calm => CancelledIsUntouched))
<1> SUFFICES ASSUME NoResume \/ Separate
             PROVE  Spec => [](Calm => CancelledIsUntouched)
  OBVIOUS
<1>1. CommandInv => CancelledIsUntouched
  BY DEF CommandInv, EngineInv
<1> QED
  BY <1>1, CommandInvAlways, PTL

(* No row ever leaves DONE or FAILED, although the question whether it may   *)
(* and the answer are two statements, and store calls may fail between them. *)
THEOREM TerminalIsFinalAlways ==
  (NoResume \/ Separate) => (Spec /\ []Calm => TerminalIsFinal)
<1> SUFFICES ASSUME NoResume \/ Separate
             PROVE  Spec /\ []Calm => TerminalIsFinal
  OBVIOUS
<1>1. CommandInv /\ Calm' /\ [Next]_vars =>
        [\A j \in Jobs : is_terminal(record[j]) => record'[j] = record[j]]_vars
  BY NextCommand
<1> QED
  BY <1>1, CommandInvAlways, PTL DEF Spec, TerminalIsFinal
=============================================================================
