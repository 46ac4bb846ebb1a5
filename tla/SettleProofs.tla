---------------------------- MODULE SettleProofs ----------------------------
(***************************************************************************)
(* Proofs about what becomes of an accepted job in JobManager: its row and *)
(* its file advance in turn, as MoveContract says; nothing that is still   *)
(* to be moved is dropped; FAILED is recorded only for a file that did not *)
(* move; and shutdown() leaves nothing in the queue.                       *)
(***************************************************************************)
EXTENDS ManagerProofs

(* Zenon is the default; a leaf that it does not find says SMT.  *)
USE Zenon

Recording == {"check", "write"}

(* What a worker at pc, with the state to to record, knows of its job's row  *)
(* and file.  A store call that fails may end a run with any row; works says *)
(* that none has.                                                            *)
StageAt(works, pc, to, row, at) ==
  /\ pc \in Recording => to # "QUEUED"
  /\ pc = "commit" => row = "RENAMING"
  /\ pc = "finish" \/ (pc \in Recording /\ to = "TRANSFERRING") =>
       row = "RENAMING" /\ at = "staged"
  /\ pc = "publish" => row = "TRANSFERRING" /\ at = "staged"
  /\ pc \in Recording /\ to = "DONE" => row = "TRANSFERRING" /\ at = "final"
  /\ works /\ pc = "settle" => row \in {"TRANSFERRING", "DONE", "FAILED"}

(* The row never runs ahead of the file.  *)
RowAt(row, at) ==
  /\ row = "TRANSFERRING" => at \in {"staged", "final"}
  /\ row = "DONE" => at = "final"

StageInv(works) ==
  /\ \A w \in Workers :
       StageAt(works, wpc[w], wto[w], record[wjob[w]], disk[wjob[w]])
  /\ \A j \in Jobs : RowAt(record[j], disk[j])

-----------------------------------------------------------------------------
(* A worker inside the engine.  *)

(* A step of w that concerns its own job and no other.  *)
Inside(works, w) ==
  /\ UNCHANGED wjob
  /\ \A v \in Workers \ {w} : wpc'[v] = wpc[v] /\ wto'[v] = wto[v]
  /\ \A k \in Jobs \ {wjob[w]} : record'[k] = record[k] /\ disk'[k] = disk[k]
  /\ StageAt(works, wpc'[w], wto'[w], record'[wjob[w]], disk'[wjob[w]])
  /\ RowAt(record'[wjob[w]], disk'[wjob[w]])

LEMMA InsideStage ==
  ASSUME NEW works \in BOOLEAN, TokenInv, StageInv(works),
         NEW w \in Workers, wpc[w] \in Busy, Inside(works, w)
  PROVE  StageInv(works)'
<1>1. \A v \in Workers \ {w} : wpc[v] \in Busy =>
        wjob[v] \in Jobs \ {wjob[w]}
  BY Whose
<1>2. \A v \in Workers :
        StageAt(works, wpc'[v], wto'[v], record'[wjob'[v]], disk'[wjob'[v]])
  <2> SUFFICES ASSUME NEW v \in Workers
               PROVE  StageAt(works, wpc'[v], wto'[v], record'[wjob[v]], disk'[wjob[v]])
    BY DEF Inside
  <2>1. CASE v = w
    BY <2>1 DEF Inside
  <2>2. CASE v # w /\ wpc[v] \in Busy
    <3>1. /\ wpc'[v] = wpc[v] /\ wto'[v] = wto[v]
          /\ record'[wjob[v]] = record[wjob[v]] /\ disk'[wjob[v]] = disk[wjob[v]]
      BY <1>1, <2>2 DEF Inside
    <3> QED
      BY <3>1 DEF StageInv
  <2>3. CASE v # w /\ wpc[v] \notin Busy
    <3>1. wpc'[v] = wpc[v] /\ wpc[v] \in WorkerLabel \ Busy
      BY <2>3 DEF Inside, TokenInv, TypeOK
    <3> QED
      BY <3>1 DEF StageAt, Recording, Busy, WorkerLabel
  <2> QED
    BY <2>1, <2>2, <2>3
<1>3. \A j \in Jobs : RowAt(record'[j], disk'[j])
  BY DEF Inside, StageInv
<1> QED
  BY <1>2, <1>3 DEF StageInv

LEMMA PlaceKept == UNCHANGED disk => UNCHANGED Place
BY DEF Place

LEMMA PlaceMoved ==
  ASSUME NEW j \in Jobs, NEW at \in {"staged", "final"},
         disk' = [disk EXCEPT ![j] = at],
         disk \in [Jobs -> {"source", "staged", "final", "missing"}]
  PROVE  Place' = [Place EXCEPT ![j] = at]
BY DEF Place

(* The steps before and at the commit point.  *)
LEMMA EarlyInside ==
  ASSUME NEW works \in BOOLEAN, works => ~StoreFault,
         CommandInv, StageInv(works), NEW w \in Workers,
         Validate(w) \/ Commit(w) \/ HandleFailure(w) \/ FailPermanently(w)
  PROVE  Inside(works, w) /\ wpc[w] \in Busy
         /\ [Contract!Next]_<<record, Place>>
<1> DEFINE j == wjob[w]
<1>1. /\ wpc \in [Workers -> WorkerLabel] /\ wto \in [Workers -> JobState]
      /\ disk \in [Jobs -> {"source", "staged", "final", "missing"}]
  BY DEF CommandInv, TokenInv, TypeOK, RowInv, EngineInv
<1>2. wpc[w] \in Busy
  BY DEF Validate, Commit, HandleFailure, FailPermanently, Busy, WorkerLabel
<1>3. /\ j \in Jobs /\ record[j] # "ABSENT"
  BY <1>2, Whose DEF CommandInv, RowInv
<1>4. /\ StageAt(works, wpc[w], wto[w], record[j], disk[j])
      /\ RowAt(record[j], disk[j])
  BY <1>3 DEF StageInv
<1>5. CASE Validate(w)
  <2>1. /\ UNCHANGED <<wjob, record, disk>>
        /\ \A v \in Workers \ {w} : wpc'[v] = wpc[v] /\ wto'[v] = wto[v]
    BY <1>1, <1>5 DEF Validate, WGoto, WRecord, rows
  <2>2. \/ wpc'[w] = "check" /\ wto'[w] = "RENAMING"
        \/ /\ wpc'[w] = "commit" /\ disk[j] = "source"
           /\ record[j] \in {"RENAMING", "TRANSFERRING"}
        \/ wpc'[w] = "settle" /\ record[j] = "DONE"
        \/ wpc'[w] = "reject"
    BY <1>1, <1>5 DEF Validate, WGoto, WRecord
  <2>3. StageAt(works, wpc'[w], wto'[w], record[j], disk[j])
    BY <1>4, <2>2 DEF StageAt, RowAt, Recording
  <2> QED
    BY <1>2, <1>4, <2>1, <2>3, PlaceKept DEF Inside
<1>6. CASE Commit(w)
  <2>1. /\ UNCHANGED <<wjob, wto, record>> /\ wpc[w] = "commit"
        /\ \A v \in Workers \ {w} : wpc'[v] = wpc[v]
    BY <1>1, <1>6 DEF Commit, WGoto, rows
  <2>2. \/ wpc'[w] = "abort" /\ UNCHANGED disk
        \/ /\ wpc'[w] = "finish" /\ disk[j] = "source"
           /\ disk' = [disk EXCEPT ![j] = "staged"]
    BY <1>1, <1>6 DEF Commit, WGoto
  <2>3. CASE wpc'[w] = "abort" /\ UNCHANGED disk
    <3>1. StageAt(works, wpc'[w], wto'[w], record[j], disk[j])
      BY <2>3 DEF StageAt, Recording
    <3> QED
      BY <1>2, <1>4, <2>1, <2>3, <3>1, PlaceKept DEF Inside
  <2>4. CASE /\ wpc'[w] = "finish" /\ disk[j] = "source"
             /\ disk' = [disk EXCEPT ![j] = "staged"]
    <3>1. record[j] = "RENAMING" /\ disk'[j] = "staged"
      BY <1>1, <1>3, <1>4, <2>1, <2>4 DEF StageAt
    <3>2. /\ StageAt(works, wpc'[w], wto'[w], record[j], disk'[j])
          /\ RowAt(record[j], disk'[j])
          /\ \A k \in Jobs \ {j} : disk'[k] = disk[k]
      BY <1>1, <2>4, <3>1 DEF StageAt, RowAt, Recording
    <3>3. Place' = [Place EXCEPT ![j] = "staged"] /\ Place[j] = "source"
      BY <1>1, <1>3, <2>4, PlaceMoved DEF Place
    <3>4. Contract!Commit(j)
      BY <2>1, <3>1, <3>3 DEF Contract!Commit, Contract!Move
    <3> QED
      BY <1>2, <1>3, <2>1, <3>2, <3>4 DEF Inside, Contract!Next
  <2> QED
    BY <2>2, <2>3, <2>4
<1>7. CASE HandleFailure(w)
  <2>1. /\ UNCHANGED <<wjob, wto, record, disk>>
        /\ \A v \in Workers \ {w} : wpc'[v] = wpc[v]
        /\ \/ wpc'[w] \in {"reschedule", "reject"}
           \/ wpc'[w] = "settle" /\ StoreFault
    BY <1>1, <1>7 DEF HandleFailure, WGoto
  <2>2. StageAt(works, wpc'[w], wto'[w], record[j], disk[j])
    BY <2>1 DEF StageAt, Recording
  <2> QED
    BY <1>2, <1>4, <2>1, <2>2, PlaceKept DEF Inside
<1>8. CASE FailPermanently(w)
  <2>1. /\ UNCHANGED <<wjob, record, disk>>
        /\ \A v \in Workers \ {w} : wpc'[v] = wpc[v] /\ wto'[v] = wto[v]
        /\ \/ wpc'[w] = "check" /\ wto'[w] = "FAILED"
           \/ wpc'[w] = "settle" /\ (record[j] = "FAILED" \/ StoreFault)
    BY <1>1, <1>8 DEF FailPermanently, WGoto, WRecord
  <2>2. StageAt(works, wpc'[w], wto'[w], record[j], disk[j])
    BY <2>1 DEF StageAt, Recording
  <2> QED
    BY <1>2, <1>4, <2>1, <2>2, PlaceKept DEF Inside
<1> QED
  BY <1>5, <1>6, <1>7, <1>8

(* The steps past it, and the two statements of update_state().  *)
LEMMA LateInside ==
  ASSUME NEW works \in BOOLEAN, works => ~StoreFault,
         CommandInv, StageInv(works), NEW w \in Workers,
         Finish(w) \/ Publish(w) \/ Check(w) \/ Write(w)
  PROVE  Inside(works, w) /\ wpc[w] \in Busy
         /\ [Contract!Next]_<<record, Place>>
<1> DEFINE j == wjob[w]
<1>1. /\ wpc \in [Workers -> WorkerLabel] /\ wto \in [Workers -> JobState]
      /\ disk \in [Jobs -> {"source", "staged", "final", "missing"}]
      /\ record \in [Jobs -> RowState]
  BY DEF CommandInv, TokenInv, TypeOK, RowInv, EngineInv
<1>2. wpc[w] \in Busy
  BY DEF Finish, Publish, Check, Write, Busy, WorkerLabel
<1>3. /\ j \in Jobs /\ record[j] # "ABSENT"
  BY <1>2, Whose DEF CommandInv, RowInv
<1>4. /\ StageAt(works, wpc[w], wto[w], record[j], disk[j])
      /\ RowAt(record[j], disk[j])
  BY <1>3 DEF StageInv
<1>5. CASE Finish(w)
  <2>1. record[j] = "RENAMING" /\ disk[j] = "staged"
    BY <1>4, <1>5 DEF Finish, StageAt
  <2>2. /\ UNCHANGED <<wjob, record, disk>>
        /\ \A v \in Workers \ {w} : wpc'[v] = wpc[v] /\ wto'[v] = wto[v]
        /\ \/ wpc'[w] = "check" /\ wto'[w] = "TRANSFERRING"
           \/ wpc'[w] = "settle" /\ StoreFault
    BY <1>1, <1>5, <2>1 DEF Finish, Halt, WGoto, WRecord, rows
  <2>3. StageAt(works, wpc'[w], wto'[w], record[j], disk[j])
    BY <2>1, <2>2 DEF StageAt, Recording
  <2> QED
    BY <1>2, <1>4, <2>2, <2>3, PlaceKept DEF Inside
<1>6. CASE Publish(w)
  <2>1. record[j] = "TRANSFERRING" /\ disk[j] = "staged"
    BY <1>4, <1>6 DEF Publish, StageAt
  <2>2. /\ UNCHANGED <<wjob, record>>
        /\ \A v \in Workers \ {w} : wpc'[v] = wpc[v] /\ wto'[v] = wto[v]
        /\ \/ wpc'[w] = "settle" /\ UNCHANGED disk
           \/ /\ wpc'[w] = "check" /\ wto'[w] = "DONE"
              /\ disk' = [disk EXCEPT ![j] = "final"]
    BY <1>1, <1>6 DEF Publish, WRecord, WGoto, Halt, rows
  <2>3. CASE wpc'[w] = "settle" /\ UNCHANGED disk
    <3>1. StageAt(works, wpc'[w], wto'[w], record[j], disk[j])
      BY <2>1, <2>3 DEF StageAt, Recording
    <3> QED
      BY <1>2, <1>4, <2>2, <2>3, <3>1, PlaceKept DEF Inside
  <2>4. CASE /\ wpc'[w] = "check" /\ wto'[w] = "DONE"
             /\ disk' = [disk EXCEPT ![j] = "final"]
    <3>1. disk'[j] = "final" /\ \A k \in Jobs \ {j} : disk'[k] = disk[k]
      BY <1>1, <1>3, <2>4
    <3>2. /\ StageAt(works, wpc'[w], wto'[w], record[j], disk'[j])
          /\ RowAt(record[j], disk'[j])
      BY <2>1, <2>4, <3>1 DEF StageAt, RowAt, Recording
    <3>3. Place' = [Place EXCEPT ![j] = "final"] /\ Place[j] = "staged"
      BY <1>1, <1>3, <2>1, <2>4, PlaceMoved DEF Place
    <3>4. Contract!Publish(j)
      BY <2>1, <2>2, <3>3 DEF Contract!Publish, Contract!Move
    <3> QED
      BY <1>2, <1>3, <2>2, <3>1, <3>2, <3>4 DEF Inside, Contract!Next
  <2> QED
    BY <2>2, <2>3, <2>4
<1>7. CASE Check(w)
  <2>1. /\ UNCHANGED <<wjob, wto, record, disk>> /\ wpc[w] = "check"
        /\ \A v \in Workers \ {w} : wpc'[v] = wpc[v]
    BY <1>1, <1>7 DEF Check, WGoto, Halt, rows
  <2>2. wto[w] \in {"RENAMING", "TRANSFERRING", "DONE", "FAILED"}
    BY <1>1, <1>4, <2>1 DEF StageAt, Recording, JobState
  <2>3. \/ wpc'[w] = "write"
        \/ wpc'[w] = "abort"
        \/ /\ wpc'[w] = "settle"
           /\ ~is_legal_transition(record[j], wto[w]) \/ StoreFault
           /\ wto[w] # "RENAMING"
    BY <1>1, <1>7, <2>2 DEF Check, WGoto, Halt
  <2>4. works /\ wpc'[w] = "settle" =>
          record[j] \in {"TRANSFERRING", "DONE", "FAILED"}
    <3>1. wto[w] = "TRANSFERRING" => record[j] = "RENAMING"
      BY <1>4, <2>1 DEF StageAt, Recording
    <3>2. wto[w] = "DONE" => record[j] = "TRANSFERRING"
      BY <1>4, <2>1 DEF StageAt, Recording
    <3> QED
      BY <1>1, <1>3, <2>2, <2>3, <3>1, <3>2
      DEF is_legal_transition, RowState, JobState
  <2>5. StageAt(works, wpc'[w], wto[w], record[j], disk[j])
    BY <1>4, <2>1, <2>3, <2>4 DEF StageAt, Recording
  <2> QED
    BY <1>2, <1>4, <2>1, <2>5, PlaceKept DEF Inside
<1>8. CASE Write(w)
  <2>1. /\ UNCHANGED <<wjob, wto, disk>> /\ wpc[w] = "write"
        /\ \A v \in Workers \ {w} : wpc'[v] = wpc[v]
        /\ record' = [record EXCEPT ![j] = wto[w]]
        /\ wpc'[w] = CASE wto[w] = "RENAMING"     -> "commit"
                       [] wto[w] = "TRANSFERRING" -> "publish"
                       [] OTHER                   -> "settle"
    BY <1>1, <1>8 DEF Write, WGoto
  <2>2. /\ record'[j] = wto[w]
        /\ \A k \in Jobs \ {j} : record'[k] = record[k]
    BY <1>1, <1>3, <2>1
  <2>3. is_legal_transition(record[j], wto[w])
    BY <2>1 DEF CommandInv, EngineInv
  <2>4. /\ wto[w] = "TRANSFERRING" => record[j] = "RENAMING" /\ disk[j] = "staged"
        /\ wto[w] = "DONE" => record[j] = "TRANSFERRING" /\ disk[j] = "final"
        /\ wto[w] \in {"RENAMING", "TRANSFERRING", "DONE", "FAILED"}
    BY <1>1, <1>4, <2>1 DEF StageAt, Recording, JobState
  <2>5. StageAt(works, wpc'[w], wto[w], record'[j], disk[j]) /\ RowAt(record'[j], disk[j])
    BY <2>1, <2>2, <2>4 DEF StageAt, RowAt, Recording
  <2>6. UNCHANGED Place /\ Place[j] = IF disk[j] = "missing" THEN "source"
                                      ELSE disk[j]
    BY <1>3, <2>1 DEF Place
  <2>7. Contract!Begin(j) \/ Contract!Moved(j) \/ Contract!Done(j)
        \/ Contract!Fail(j)
    <3>1. CASE wto[w] = "RENAMING"
      <4>1. record[j] = "QUEUED" /\ disk[j] \in {"source", "missing"}
        BY <1>3, <2>3, <3>1 DEF is_legal_transition, CommandInv, EngineInv
      <4> QED
        BY <2>1, <2>6, <3>1, <4>1 DEF Contract!Begin, Contract!Record
    <3>2. CASE wto[w] = "TRANSFERRING"
      BY <2>1, <2>4, <2>6, <3>2 DEF Contract!Moved, Contract!Record
    <3>3. CASE wto[w] = "DONE"
      BY <2>1, <2>4, <2>6, <3>3 DEF Contract!Done, Contract!Record
    <3>4. CASE wto[w] = "FAILED"
      BY <2>1, <2>3, <2>6, <3>4
      DEF is_legal_transition, Contract!Fail, Contract!Record
    <3> QED
      BY <2>4, <3>1, <3>2, <3>3, <3>4
  <2> QED
    BY <1>2, <1>3, <2>1, <2>2, <2>5, <2>7 DEF Inside, Contract!Next
<1> QED
  BY <1>5, <1>6, <1>7, <1>8

-----------------------------------------------------------------------------
(* Everything else.  *)

(* Steps that touch no row and no file, and take no worker further into the  *)
(* engine than its door.                                                     *)
LEMMA OutsideStage ==
  ASSUME NEW works \in BOOLEAN, StageInv(works),
         UNCHANGED <<record, disk>>,
         \A v \in Workers :
           \/ wpc'[v] \in {"none", "starting", "ready", "asleep", "validate"}
           \/ wpc'[v] = wpc[v] /\ wto'[v] = wto[v] /\ wjob'[v] = wjob[v]
  PROVE  StageInv(works)'
<1>1. \A v \in Workers :
        StageAt(works, wpc'[v], wto'[v], record[wjob'[v]], disk[wjob'[v]])
  <2> SUFFICES ASSUME NEW v \in Workers
               PROVE  StageAt(works, wpc'[v], wto'[v], record[wjob'[v]],
                              disk[wjob'[v]])
    OBVIOUS
  <2>1. CASE wpc'[v] \in {"none", "starting", "ready", "asleep", "validate"}
    BY <2>1 DEF StageAt, Recording
  <2>2. CASE wpc'[v] = wpc[v] /\ wto'[v] = wto[v] /\ wjob'[v] = wjob[v]
    BY <2>2 DEF StageInv
  <2> QED
    BY <2>1, <2>2
<1> QED
  BY <1>1 DEF StageInv

LEMMA OutsideSteps ==
  ASSUME NEW works \in BOOLEAN, CommandInv, StageInv(works),
         \/ Start \/ Shutdown \/ CloseStore \/ Crash \/ pump
         \/ \E w \in Workers : \/ OpenWorker(w) \/ Sleep(w) \/ Exit(w)
                               \/ SpuriousWakeup(w) \/ Take(w) \/ Settle(w)
         \/ \E c \in Clients :
              \/ PublishJob(c) \/ CancelLoad(c) \/ CancelCheck(c)
              \/ CancelBack(c) \/ RetryLoad(c) \/ RetryProbe(c)
              \/ \E j \in Jobs : Command(c, j)
         \/ UNCHANGED vars
  PROVE  StageInv(works)' /\ UNCHANGED <<record, disk>>
<1> DEFINE Far == \A v \in Workers :
                    \/ wpc'[v] \in {"none", "starting", "ready", "asleep",
                                    "validate"}
                    \/ wpc'[v] = wpc[v] /\ wto'[v] = wto[v] /\ wjob'[v] = wjob[v]
           Rest == UNCHANGED <<record, disk>>
<1>0. /\ wpc \in [Workers -> WorkerLabel] /\ wto \in [Workers -> JobState]
      /\ wjob \in [Workers -> Jobs \cup {NoJob}]
  BY DEF CommandInv, TokenInv, TypeOK, RowInv
<1>a. UNCHANGED <<wjob, wto>> /\ Woken => Far
  BY DEF Woken
<1>b. (notify_one \/ notify_all \/ UNCHANGED wpc) => Woken
  BY NotifyWakes DEF CommandInv, TokenInv
<1>1. CASE Start
  BY <1>1, OutsideStage DEF Start, rows
<1>2. CASE Shutdown \/ CloseStore \/ pump
  <2>1. Rest /\ UNCHANGED <<wjob, wto>> /\ (notify_all \/ UNCHANGED wpc)
    BY <1>2 DEF Shutdown, CloseStore, pump, rows, worker
  <2> QED
    BY <1>a, <1>b, <2>1, OutsideStage
<1>3. CASE Crash
  BY <1>3, OutsideStage DEF Crash, rows
<1>4. CASE \E w \in Workers : \/ OpenWorker(w) \/ Sleep(w) \/ Exit(w)
                              \/ SpuriousWakeup(w)
  BY <1>0, <1>4, OutsideStage
  DEF OpenWorker, Sleep, Exit, SpuriousWakeup, WGoto, rows
<1>5. CASE \E w \in Workers : Take(w) \/ Settle(w)
  BY <1>0, <1>5, OutsideStage, ZenonT(60) DEF Take, Settle, rows
<1>6. CASE \E c \in Clients :
             \/ PublishJob(c) \/ CancelLoad(c) \/ CancelCheck(c)
             \/ CancelBack(c) \/ RetryLoad(c) \/ RetryProbe(c)
             \/ \E j \in Jobs : Command(c, j)
  <2>1. PICK c \in Clients :
             \/ PublishJob(c) \/ CancelLoad(c) \/ CancelCheck(c)
             \/ CancelBack(c) \/ RetryLoad(c) \/ RetryProbe(c)
             \/ \E j \in Jobs : Command(c, j)
    BY <1>6
  <2>2. CASE PublishJob(c) \/ CancelBack(c)
    <3>1. Rest /\ UNCHANGED <<wjob, wto>> /\ (notify_one \/ UNCHANGED wpc)
      BY <2>2 DEF PublishJob, CancelBack, MakeRunnable, rows
    <3> QED
      BY <1>a, <1>b, <3>1, OutsideStage
  <2>3. CASE \/ CancelLoad(c) \/ CancelCheck(c)
             \/ RetryLoad(c) \/ RetryProbe(c)
    <3>1. Rest /\ UNCHANGED <<wjob, wto, wpc>>
      BY <2>3 DEF CancelLoad, CancelCheck, RetryLoad, RetryProbe, rows, worker
    <3> QED
      BY <3>1, OutsideStage
  <2>4. CASE \E j \in Jobs : Command(c, j)
    <3>1. Rest /\ UNCHANGED <<wjob, wto>> /\ (notify_one \/ UNCHANGED wpc)
      BY <2>4 DEF Command, SubmitClaim, pause, resume, CancelClaim,
         RetryLookup, MakeRunnable, rows, worker
    <3> QED
      BY <1>a, <1>b, <3>1, OutsideStage
  <2> QED
    BY <2>1, <2>2, <2>3, <2>4
<1>7. CASE UNCHANGED vars
  BY <1>7, OutsideStage DEF vars, rows, worker
<1> QED
  BY <1>1, <1>2, <1>3, <1>4, <1>5, <1>6, <1>7

(* A command writes a row only while no worker has the job.  *)
LEMMA RowStage ==
  ASSUME NEW works \in BOOLEAN, CommandInv, StageInv(works),
         NEW k \in Jobs, k \notin active,
         UNCHANGED <<wpc, wto, wjob>>,
         \A i \in Jobs \ {k} : record'[i] = record[i] /\ disk'[i] = disk[i],
         RowAt(record'[k], disk'[k])
  PROVE  StageInv(works)'
<1>1. \A v \in Workers :
        StageAt(works, wpc[v], wto[v], record'[wjob[v]], disk'[wjob[v]])
  <2> SUFFICES ASSUME NEW v \in Workers
               PROVE  StageAt(works, wpc[v], wto[v], record'[wjob[v]], disk'[wjob[v]])
    OBVIOUS
  <2>1. CASE wpc[v] \in Busy
    <3>1. wjob[v] \in Jobs /\ wjob[v] # k
      BY <2>1, Whose DEF CommandInv
    <3> QED
      BY <3>1 DEF StageInv
  <2>2. CASE wpc[v] \notin Busy
    BY <2>2 DEF StageAt, Recording, Busy, WorkerLabel
  <2> QED
    BY <2>1, <2>2
<1>2. \A i \in Jobs : RowAt(record'[i], disk'[i])
  BY DEF StageInv
<1> QED
  BY <1>1, <1>2 DEF StageInv

LEMMA CommandStage ==
  ASSUME NEW works \in BOOLEAN, CommandInv, StageInv(works),
         NEW c \in Clients,
         RecordIntent(c) \/ CancelWrite(c)
  PROVE  StageInv(works)' /\ [Contract!Next]_<<record, Place>>
<1>0. /\ disk \in [Jobs -> {"source", "staged", "final", "missing"}]
      /\ record \in [Jobs -> RowState]
  BY DEF CommandInv, RowInv, EngineInv
<1>1. CASE RecordIntent(c) /\ UNCHANGED <<record, disk>>
  <2>1. UNCHANGED <<wpc, wto, wjob>>
    BY <1>1 DEF RecordIntent, worker
  <2> QED
    BY <1>1, <2>1, OutsideStage, PlaceKept
<1>2. CASE RecordIntent(c) /\ ~UNCHANGED <<record, disk>>
  <2> DEFINE j == cnew[c]
  <2>1. /\ cpc[c] \in Creating /\ UNCHANGED <<wpc, wto, wjob>>
        /\ record[j] = "ABSENT" /\ record' = [record EXCEPT ![j] = "QUEUED"]
        /\ disk' = disk \/ disk' = [disk EXCEPT ![j] = "source"]
    BY <1>2 DEF RecordIntent, Creating, worker
  <2>2. j \in Jobs /\ j \notin active
    BY <2>1, Whose DEF CommandInv, TokenInv, PoolInv
  <2>3. disk[j] \in {"source", "missing"}
    BY <2>1, <2>2 DEF CommandInv, EngineInv
  <2>4. /\ record'[j] = "QUEUED"
        /\ \A i \in Jobs \ {j} : record'[i] = record[i] /\ disk'[i] = disk[i]
        /\ disk'[j] \in {"source", "missing"}
    BY <1>0, <2>1, <2>2, <2>3
  <2>5. StageInv(works)'
    <3>1. RowAt(record'[j], disk'[j])
      BY <2>4 DEF RowAt
    <3> HIDE DEF j
    <3> QED
      BY <2>1, <2>2, <2>4, <3>1, RowStage
  <2>6. UNCHANGED Place /\ Place[j] = "source"
    BY <2>2, <2>3, <2>4 DEF Place
  <2>7. Contract!Submit(j)
    BY <2>1, <2>6 DEF Contract!Submit, Contract!Record
  <2> QED
    BY <2>2, <2>5, <2>7 DEF Contract!Next
<1>3. CASE CancelWrite(c)
  <2> DEFINE j == cjob[c]
  <2>1. /\ cpc[c] = "cancelWrite" /\ UNCHANGED <<disk, wpc, wto, wjob>>
        /\ record' = [record EXCEPT ![j] = "FAILED"]
    BY <1>3 DEF CancelWrite, worker
  <2>2. j \in Jobs
    BY <2>1, Whose DEF CommandInv, Cancelling
  <2>3. record[j] = "QUEUED" /\ j \notin active
    BY <2>1 DEF CommandInv, CancelInv, Loose
  <2>4. /\ record'[j] = "FAILED"
        /\ \A i \in Jobs \ {j} : record'[i] = record[i]
    BY <1>0, <2>1, <2>2
  <2>5. StageInv(works)'
    <3>1. RowAt(record'[j], disk'[j])
      BY <2>4 DEF RowAt
    <3> HIDE DEF j
    <3> QED
      BY <2>1, <2>2, <2>3, <2>4, <3>1, RowStage
  <2>6. Contract!Fail(j)
    BY <2>1, <2>3, PlaceKept DEF Contract!Fail, Contract!Record
  <2> QED
    BY <2>2, <2>5, <2>6 DEF Contract!Next
<1> QED
  BY <1>1, <1>2, <1>3

(* Every step keeps the stages and is a step of the contract or none.  *)
LEMMA NextStage ==
  ASSUME NEW works \in BOOLEAN, works => ~StoreFault,
         CommandInv, StageInv(works), [Next]_vars
  PROVE  StageInv(works)' /\ [Contract!Next]_<<record, Place>>
<1>1. CASE \/ Start \/ Shutdown \/ CloseStore \/ Crash \/ pump
           \/ UNCHANGED vars
  BY <1>1, OutsideSteps, PlaceKept
<1>2. CASE \E w \in Workers : WorkerStep(w) \/ SpuriousWakeup(w)
  <2>1. PICK w \in Workers : WorkerStep(w) \/ SpuriousWakeup(w)
    BY <1>2
  <2>2. CASE Validate(w) \/ Commit(w) \/ HandleFailure(w) \/ FailPermanently(w)
    BY <2>2, EarlyInside, InsideStage DEF CommandInv
  <2>3. CASE Finish(w) \/ Publish(w) \/ Check(w) \/ Write(w)
    BY <2>3, LateInside, InsideStage DEF CommandInv
  <2>4. CASE \/ OpenWorker(w) \/ Sleep(w) \/ Exit(w)
             \/ SpuriousWakeup(w) \/ Take(w) \/ Settle(w)
    BY <2>4, OutsideSteps, PlaceKept
  <2> QED
    BY <2>1, <2>2, <2>3, <2>4 DEF WorkerStep
<1>3. CASE \E c \in Clients : CommandStep(c) \/ \E j \in Jobs : Command(c, j)
  <2>1. PICK c \in Clients : CommandStep(c) \/ \E j \in Jobs : Command(c, j)
    BY <1>3
  <2>2. CASE RecordIntent(c) \/ CancelWrite(c)
    BY <2>2, CommandStage
  <2>3. CASE \/ PublishJob(c) \/ CancelLoad(c) \/ CancelCheck(c)
             \/ CancelBack(c) \/ RetryLoad(c) \/ RetryProbe(c)
             \/ \E j \in Jobs : Command(c, j)
    BY <2>3, OutsideSteps, PlaceKept
  <2> QED
    BY <2>1, <2>2, <2>3 DEF CommandStep
<1> QED
  BY <1>1, <1>2, <1>3 DEF Next

LEMMA InitStage ==
  ASSUME NEW works \in BOOLEAN
  PROVE  Init => StageInv(works)
BY ZenonT(60) DEF Init, StageInv, StageAt, RowAt, Recording

(* Under the pool, the commands, failing moves, failing store calls and      *)
(* crashes the rows and the files of all jobs keep the contract of the       *)
(* engine (MoveContract), for any number of jobs, workers and clients, while *)
(* no store call fails or only one client cancels.                           *)
THEOREM ManagerImplementsContract ==
  (NoResume \/ Separate) => (Spec /\ []Calm => ImplementsContract)
<1> SUFFICES ASSUME NoResume \/ Separate
             PROVE  Spec /\ []Calm => ImplementsContract
  OBVIOUS
<1> DEFINE Stage == StageInv(FALSE)
<1>1. Init => Contract!Init
  BY SMT DEF Init, Place, Contract!Init
<1>2. Init => Stage
  BY InitStage
<1>3. CommandInv /\ Stage /\ [Next]_vars =>
        Stage' /\ [Contract!Next]_<<record, Place>>
  BY NextStage
<1> HIDE DEF Stage
<1> QED
  BY <1>1, <1>2, <1>3, CommandInvAlways, PTL
  DEF Spec, ImplementsContract, Contract!Spec

-----------------------------------------------------------------------------
(* shutdown().  A worker leaves the pool only when it finds the queue empty, *)
(* and from then on no command is there to fill it.                          *)

DrainInv ==
  /\ wpc \in [Workers -> WorkerLabel] /\ cpc \in [Clients -> ClientLabel]
  /\ storeFaults = 0
  /\ running => open /\ ~stopping /\ \A w \in Workers : wpc[w] # "none"
  /\ stopping => \A c \in Clients : cpc[c] = "idle"
  /\ running \/ stopping \/ \A c \in Clients : cpc[c] = "idle"
  /\ stopping /\ ~open => \A w \in Workers : wpc[w] = "none"
  /\ stopping /\ (\E w \in Workers : wpc[w] = "none") => runnable = <<>>

LEMMA InitDrain == Init => DrainInv
BY SMT DEF Init, DrainInv, WorkerLabel, ClientLabel

LEMMA WorkerDrain ==
  ASSUME ~StoreFault, DrainInv, NEW w \in Workers,
         WorkerStep(w) \/ SpuriousWakeup(w)
  PROVE  DrainInv'
<1> DEFINE Goes == /\ wpc[w] # "none"
                   /\ \E label \in WorkerLabel \ {"none"} :
                        wpc' = [wpc EXCEPT ![w] = label]
                   /\ UNCHANGED <<running, stopping, open, cpc, storeFaults>>
                   /\ runnable' = runnable \/ runnable # <<>>
<1>1. ASSUME Goes PROVE DrainInv'
  <2>1. \A v \in Workers : wpc'[v] = "none" <=> wpc[v] = "none"
    BY <1>1 DEF DrainInv
  <2> QED
    BY <1>1, <2>1 DEF DrainInv
<1>2. CASE Exit(w)
  BY <1>2 DEF Exit, WGoto, lifecycle, dispatch, client, budget, DrainInv,
     WorkerLabel
<1> USE DEF WGoto, WRecord, Halt, lifecycle, dispatch, client, budget, FsFault,
        WorkerLabel
<1>3. CASE OpenWorker(w)
  BY <1>1, <1>3 DEF OpenWorker
<1>4. CASE Sleep(w) \/ SpuriousWakeup(w)
  BY <1>1, <1>4 DEF Sleep, SpuriousWakeup
<1>5. CASE Take(w)
  BY <1>1, <1>5 DEF Take
<1>6. CASE Settle(w)
  BY <1>1, <1>6 DEF Settle
<1>7. CASE Validate(w)
  BY <1>1, <1>7 DEF Validate
<1>8. CASE Commit(w)
  BY <1>1, <1>8 DEF Commit
<1>9. CASE Finish(w)
  BY <1>1, <1>9 DEF Finish
<1>10. CASE Publish(w)
  BY <1>1, <1>10 DEF Publish
<1>11. CASE Check(w)
  BY <1>1, <1>11 DEF Check
<1>12. CASE Write(w)
  BY <1>1, <1>12 DEF Write
<1>13. CASE HandleFailure(w)
  BY <1>1, <1>13 DEF HandleFailure
<1>14. CASE FailPermanently(w)
  BY <1>1, <1>14 DEF FailPermanently
<1> QED
  BY <1>2, <1>3, <1>4, <1>5, <1>6, <1>7, <1>8, <1>9, <1>10, <1>11, <1>12, <1>13,
     <1>14 DEF WorkerStep

(* Sleepers are woken or left alone.  *)
LEMMA WakesNoOther ==
  ASSUME wpc \in [Workers -> WorkerLabel],
         notify_one \/ notify_all \/ UNCHANGED wpc
  PROVE  /\ wpc' \in [Workers -> WorkerLabel]
         /\ \A w \in Workers : wpc'[w] = "none" <=> wpc[w] = "none"
BY SMT DEF notify_one, notify_all, WorkerLabel

LEMMA ClientDrain ==
  ASSUME ~StoreFault, DrainInv, NEW c \in Clients,
         CommandStep(c) \/ \E j \in Jobs : Command(c, j)
  PROVE  DrainInv'
<1>1. running /\ ~stopping /\ open
  <2>1. cpc[c] # "idle" \/ running
    BY DEF CommandStep, Command, RecordIntent, PublishJob, CancelLoad,
       CancelCheck, CancelWrite, CancelBack, RetryLoad, RetryProbe,
       SubmitClaim, pause, resume, CancelClaim, RetryLookup, Enter
  <2> QED
    BY <2>1 DEF DrainInv
<1>2. UNCHANGED <<running, stopping, open, storeFaults>>
  BY <1>1 DEF CommandStep, Command, RecordIntent, PublishJob, CancelLoad,
     CancelCheck, CancelWrite, CancelBack, RetryLoad, RetryProbe,
     SubmitClaim, pause, resume, CancelClaim, RetryLookup, lifecycle, budget,
     CommandStoreFault
<1>3. notify_one \/ UNCHANGED wpc
  BY DEF CommandStep, Command, RecordIntent, PublishJob, CancelLoad,
     CancelCheck, CancelWrite, CancelBack, RetryLoad, RetryProbe,
     SubmitClaim, pause, resume, CancelClaim, RetryLookup, MakeRunnable, worker
<1>4. cpc' \in [Clients -> ClientLabel]
  <2>1. \/ UNCHANGED cpc
        \/ \E label \in ClientLabel : cpc' = [cpc EXCEPT ![c] = label]
    <3> USE DEF CReturn, CGoto, ClientLabel, client
    <3>1. CASE RecordIntent(c)
      BY <3>1 DEF RecordIntent
    <3>2. CASE PublishJob(c) \/ CancelWrite(c) \/ CancelBack(c)
      BY <3>2 DEF PublishJob, CancelWrite, CancelBack
    <3>3. CASE CancelLoad(c)
      BY <3>3 DEF CancelLoad
    <3>4. CASE CancelCheck(c)
      BY <3>4 DEF CancelCheck
    <3>5. CASE RetryLoad(c) \/ RetryProbe(c)
      BY <3>5 DEF RetryLoad, RetryProbe
    <3>6. CASE \E j \in Jobs : Command(c, j)
      BY <3>6 DEF Command, SubmitClaim, pause, resume, CancelClaim, RetryLookup
    <3> QED
      BY <3>1, <3>2, <3>3, <3>4, <3>5, <3>6 DEF CommandStep
  <2> QED
    BY <2>1 DEF DrainInv
<1>5. /\ wpc' \in [Workers -> WorkerLabel]
      /\ \A w \in Workers : wpc'[w] = "none" <=> wpc[w] = "none"
  BY <1>3, WakesNoOther DEF DrainInv
<1> QED
  BY <1>1, <1>2, <1>4, <1>5 DEF DrainInv

LEMMA LifecycleDrain ==
  ASSUME ~StoreFault, DrainedFirst, DrainInv,
         Start \/ Shutdown \/ CloseStore \/ Crash \/ pump
  PROVE  DrainInv'
<1>1. CASE Start
  BY <1>1 DEF Start, DrainInv, dispatch, client, budget, WorkerLabel
<1>2. CASE Shutdown
  <2>1. /\ wpc' \in [Workers -> WorkerLabel]
        /\ \A w \in Workers : wpc'[w] = "none" <=> wpc[w] = "none"
    BY <1>2, WakesNoOther DEF Shutdown, DrainInv
  <2> QED
    BY <1>2, <2>1 DEF Shutdown, DrainInv, client, budget
<1>3. CASE CloseStore
  BY <1>3 DEF CloseStore, DrainInv, dispatch, worker, client, budget
<1>4. CASE Crash
  BY <1>4 DEF Crash, DrainInv, WorkerLabel, ClientLabel
<1>5. CASE pump
  <2>1. /\ wpc' \in [Workers -> WorkerLabel]
        /\ \A w \in Workers : wpc'[w] = "none" <=> wpc[w] = "none"
    BY <1>5, WakesNoOther DEF pump, DrainInv
  <2> QED
    BY <1>5, <2>1 DEF pump, DrainInv, lifecycle, client, budget
<1> QED
  BY <1>1, <1>2, <1>3, <1>4, <1>5

LEMMA NextDrain ==
  ASSUME ~StoreFault, DrainedFirst, DrainInv, [Next]_vars
  PROVE  DrainInv'
<1>1. CASE UNCHANGED vars
  BY <1>1 DEF vars, lifecycle, dispatch, worker, client, budget, DrainInv
<1> QED
  BY <1>1, LifecycleDrain, WorkerDrain, ClientDrain DEF Next

(* Once shutdown() has returned the queue is empty, with any pool and        *)
(* whatever the commands were, given that no store call has failed, so that  *)
(* every worker got its connection, and that no command was in progress when *)
(* it was called.                                                            *)
THEOREM StoppedIsDrainedAlways ==
  DrainedFirst => (Spec => [](StoreWorks => StoppedIsDrained))
<1> SUFFICES ASSUME DrainedFirst
             PROVE  Spec => [](StoreWorks => StoppedIsDrained)
  OBVIOUS
<1>1. Counted /\ (StoreWorks => DrainInv) /\ [Next]_vars =>
        (StoreWorks => DrainInv)'
  BY CalmStep, NextDrain DEF Counted
<1>2. DrainInv => StoppedIsDrained
  BY ManagerAssumption DEF DrainInv, StoppedIsDrained
<1> QED
  BY <1>1, <1>2, InitDrain, FaultsCounted, PTL DEF Spec

-----------------------------------------------------------------------------
(* Ownership.  *)

(* The jobs whose rows say rows are owned.  *)
OwnedRows(rowset) ==
  \A j \in requests : record[j] \in rowset => Owned(j)

(* Owned, place by place.  *)
LEMMA OwnedIs ==
  ASSUME NEW j
  PROVE  /\ Owned(j) <=> \/ Queued(j) \/ j \in waiting \/ j \in paused
                         \/ j \in active
                         \/ \E c \in Clients : cjob[c] = j
                                               /\ cpc[c] \in Cancelling
         /\ Owned(j)' <=> \/ \E i \in 1..Len(runnable') : runnable'[i] = j
                          \/ j \in waiting' \/ j \in paused' \/ j \in active'
                          \/ \E c \in Clients : cjob'[c] = j
                                                /\ cpc'[c] \in Cancelling
<1>1. Elements(runnable) = {runnable[i] : i \in 1..Len(runnable)}
      /\ Elements(runnable') = {runnable'[i] : i \in 1..Len(runnable')}
  BY DEF Elements
<1> QED
  BY <1>1, SMT DEF Owned, Queued, Cancelling, Elements

(* A step that lets go of no job, or only of one whose row is another.  *)
LEMMA OwnedKept ==
  ASSUME NEW rowset, OwnedRows(rowset),
         \A j \in requests' : record'[j] \in rowset =>
           \/ j \in requests /\ record[j] \in rowset /\ (Owned(j) => Owned(j)')
           \/ Owned(j)'
  PROVE  OwnedRows(rowset)'
BY DEF OwnedRows

LEMMA WorkerOwned ==
  ASSUME NEW rowset \in SUBSET {"QUEUED", "RENAMING"},
         CommandInv, StageInv(TRUE), OwnedRows(rowset), NEW w \in Workers,
         WorkerStep(w) \/ SpuriousWakeup(w)
  PROVE  OwnedRows(rowset)'
<1> USE DEF CommandInv
<1>1. CASE Take(w)
  <2>1. /\ runnable # <<>> /\ runnable' = Tail(runnable)
        /\ active' = active \cup {Head(runnable)}
        /\ UNCHANGED <<requests, record, waiting, paused, cpc, cjob>>
    BY <1>1 DEF Take, client, rows
  <2>2. \A m \in 1..Len(runnable) :
          \/ runnable[m] = Head(runnable)
          \/ \E i \in 1..Len(runnable') : runnable'[i] = runnable[m]
    <3>1. /\ runnable \in Seq(Jobs) /\ Len(runnable) \in Nat
          /\ Head(runnable) = runnable[1] /\ Len(runnable') = Len(runnable) - 1
          /\ \A i \in 1..Len(runnable') : runnable'[i] = runnable[i + 1]
      BY <2>1, SMT DEF TokenInv, TypeOK
    <3> SUFFICES ASSUME NEW m \in 1..Len(runnable), m # 1
                 PROVE  \E i \in 1..Len(runnable') : runnable'[i] = runnable[m]
      BY <3>1
    <3>2. m - 1 \in 1..Len(runnable') /\ (m - 1) + 1 = m
      BY <3>1, SMT
    <3> QED
      BY <3>1, <3>2
  <2>3. \A j : Owned(j) => Owned(j)'
    <3> SUFFICES ASSUME NEW j, Owned(j) PROVE Owned(j)'
      OBVIOUS
    <3> QED
      BY <2>1, <2>2, OwnedIs, SMT DEF Queued
  <2> QED
    BY <2>1, <2>3, OwnedKept
<1>2. CASE Settle(w)
  <2>1. /\ active' = active \ {wjob[w]}
        /\ waiting' = IF wpc[w] = "reschedule" THEN waiting \cup {wjob[w]}
                      ELSE waiting
        /\ wpc[w] \in {"settle", "reschedule"}
        /\ UNCHANGED <<requests, record, runnable, paused, cpc, cjob>>
    BY <1>2 DEF Settle, client, rows
  <2>2. wpc[w] = "settle" => record[wjob[w]] \notin rowset
    <3>1. wpc[w] = "settle" =>
            record[wjob[w]] \in {"TRANSFERRING", "DONE", "FAILED"}
      BY DEF StageInv, StageAt
    <3> QED
      BY <3>1
  <2>3. \A j : Owned(j) /\ record[j] \in rowset => Owned(j)'
    <3> SUFFICES ASSUME NEW j, Owned(j), record[j] \in rowset PROVE Owned(j)'
      OBVIOUS
    <3> QED
      BY <2>1, <2>2, OwnedIs, SMT DEF Queued
  <2> QED
    BY <2>1, <2>3, OwnedKept
<1>3. CASE ~Take(w) /\ ~Settle(w)
  <2>1. UNCHANGED <<dispatch, client>>
    BY <1>3, WorkerMoves DEF WorkerStep, Moves
  <2>2. \A j : Owned(j) => Owned(j)'
    BY <2>1, OwnedIs DEF dispatch, client, Queued
  <2>3. CASE Write(w)
    <3>1. wpc[w] \in Busy /\ record' = [record EXCEPT ![wjob[w]] = wto[w]]
      BY <2>3 DEF Write, Busy, WorkerLabel
    <3>2. wjob[w] \in active
      BY <3>1, Whose
    <3>3. \A j : j = wjob[w] => Owned(j)'
      BY <2>1, <3>2, OwnedIs DEF dispatch
    <3>4. \A j \in requests : j # wjob[w] => record'[j] = record[j]
      BY <3>1, Whose DEF RowInv
    <3> QED
      BY <2>1, <2>2, <3>3, <3>4, OwnedKept DEF dispatch
  <2>4. CASE ~Write(w)
    <3>1. UNCHANGED record
      BY <1>3, <2>4 DEF WorkerStep, OpenWorker, Sleep, Exit, SpuriousWakeup,
         Validate, Commit, Finish, Publish, Check, HandleFailure,
         FailPermanently, rows
    <3> QED
      BY <2>1, <2>2, <3>1, OwnedKept DEF dispatch
  <2> QED
    BY <2>3, <2>4
<1> QED
  BY <1>1, <1>2, <1>3

(* start(), shutdown(), a crash, which forgets every job, and pump().  *)
LEMMA LifecycleOwned ==
  ASSUME NEW rowset, TokenInv, OwnedRows(rowset),
         Start \/ Shutdown \/ CloseStore \/ Crash \/ pump
  PROVE  OwnedRows(rowset)'
<1>1. CASE Start \/ Shutdown \/ CloseStore
  <2>1. UNCHANGED <<dispatch, client, record>>
    BY <1>1 DEF Start, Shutdown, CloseStore, rows
  <2>2. \A j : Owned(j) => Owned(j)'
    BY <2>1, OwnedIs DEF dispatch, client, Queued
  <2> QED
    BY <2>1, <2>2, OwnedKept DEF dispatch
<1>2. CASE Crash
  BY <1>2 DEF Crash, OwnedRows
<1>3. CASE pump
  <2>1. PICK order \in UNION {[1..n -> waiting \ paused] :
                                n \in 1..Cardinality(waiting \ paused)} :
          /\ runnable' = runnable \o order
          /\ waiting' = waiting \ Elements(order)
    BY <1>3 DEF pump
  <2>2. UNCHANGED <<requests, record, paused, active, cpc, cjob>>
    BY <1>3 DEF pump, client, rows
  <2>3. PICK n \in 1..Cardinality(waiting \ paused) :
          order \in [1..n -> waiting \ paused]
    BY <2>1
  <2>4. order \in Seq(Jobs) /\ runnable \in Seq(Jobs)
    <3>1. waiting \subseteq Jobs
      BY Whose
    <3> QED
      BY <2>3, <3>1, SMT DEF TokenInv, TypeOK
  <2>5. /\ \A m \in 1..Len(runnable) :
             \E i \in 1..Len(runnable') : runnable'[i] = runnable[m]
        /\ \A m \in 1..Len(order) :
             \E i \in 1..Len(runnable') : runnable'[i] = order[m]
    <3>1. ASSUME NEW m \in 1..Len(runnable)
          PROVE  m \in 1..Len(runnable') /\ runnable'[m] = runnable[m]
      BY <2>1, <2>4, SMT
    <3>2. ASSUME NEW m \in 1..Len(order)
          PROVE  /\ Len(runnable) + m \in 1..Len(runnable')
                 /\ runnable'[Len(runnable) + m] = order[m]
      BY <2>1, <2>4, SMT
    <3> QED
      BY <3>1, <3>2
  <2>6. \A j : Owned(j) => Owned(j)'
    <3> SUFFICES ASSUME NEW j, Owned(j) PROVE Owned(j)'
      OBVIOUS
    <3>1. j \in waiting => j \in waiting' \/ \E m \in 1..Len(order) : order[m] = j
      BY <2>1 DEF Elements
    <3> QED
      BY <2>2, <2>5, <3>1, OwnedIs, SMTT(30) DEF Queued
  <2> QED
    BY <2>2, <2>6, OwnedKept
<1> QED
  BY <1>1, <1>2, <1>3

(* take_runnable() leaves the other jobs in the queue.  *)
LEMMA TakenKeeps ==
  ASSUME TypeOK, QueueInv, NEW j \in Jobs, NEW k, k # j, Queued(k)
  PROVE  \E i \in 1..Len(take_runnable(j)) : take_runnable(j)[i] = k
<1>1. CASE j \notin Elements(runnable)
  BY <1>1 DEF take_runnable, Queued
<1>2. CASE j \in Elements(runnable)
  <2>1. PICK n \in 1..Len(runnable) :
          runnable[n] = j /\ take_runnable(j) = Without(runnable, n)
    BY <1>2, TakenAt
  <2>2. PICK m \in 1..Len(runnable) : runnable[m] = k
    BY DEF Queued
  <2>3. m # n /\ runnable \in Seq(Jobs)
    BY <2>1, <2>2 DEF TypeOK
  <2>4. \E i \in 1..Len(Without(runnable, n)) : Without(runnable, n)[i] = k
    BY <2>2, <2>3, EraseKeeps
  <2> QED
    BY <2>1, <2>4
<1> QED
  BY <1>1, <1>2

(* A step that adds a job to the queue.  *)
LEMMA EnqueueOwns ==
  ASSUME TokenInv, NEW j \in Jobs, runnable' = Append(runnable, j)
  PROVE  /\ \E i \in 1..Len(runnable') : runnable'[i] = j
         /\ \A k : Queued(k) => \E i \in 1..Len(runnable') : runnable'[i] = k
<1>1. runnable \in Seq(Jobs)
  BY DEF TokenInv, TypeOK
<1>2. /\ Len(runnable) \in Nat /\ Len(runnable') = Len(runnable) + 1
      /\ runnable'[Len(runnable) + 1] = j
      /\ \A m \in 1..Len(runnable) : runnable'[m] = runnable[m]
  BY <1>1, SMT
<1>3. /\ Len(runnable) + 1 \in 1..Len(runnable')
      /\ \A m \in 1..Len(runnable) : m \in 1..Len(runnable')
  BY <1>2, SMT
<1> QED
  BY <1>2, <1>3 DEF Queued

LEMMA ClientOwned ==
  ASSUME NEW rowset \in SUBSET {"QUEUED", "RENAMING"},
         CommandInv, OwnedRows(rowset), NEW c \in Clients,
         cpc[c] = "cancelBack" => record[cjob[c]] \notin rowset,
         CommandStep(c) \/ \E j \in Jobs : Command(c, j)
  PROVE  OwnedRows(rowset)'
<1> USE DEF CommandInv
<1>0. CReturn(c) => \A d \in Clients \ {c} : cpc'[d] = cpc[d] /\ cjob'[d] = cjob[d]
  BY DEF CReturn, TokenInv, TypeOK
<1>1. CASE PublishJob(c)
  <2>1. /\ runnable' = Append(runnable, cnew[c]) /\ cpc[c] \in Creating
        /\ requests' = requests \cup {cnew[c]} /\ cpc[c] \notin Cancelling
        /\ UNCHANGED <<record, waiting, paused, active>>
        /\ \A d \in Clients \ {c} : cpc'[d] = cpc[d] /\ cjob'[d] = cjob[d]
    BY <1>0, <1>1 DEF PublishJob, MakeRunnable, Creating, Cancelling, rows
  <2>2. cnew[c] \in Jobs
    BY <2>1, Whose
  <2>3. /\ \E i \in 1..Len(runnable') : runnable'[i] = cnew[c]
        /\ \A k : Queued(k) => \E i \in 1..Len(runnable') : runnable'[i] = k
    BY <2>1, <2>2, EnqueueOwns
  <2>4. \A j : Owned(j) \/ j = cnew[c] => Owned(j)'
    <3> SUFFICES ASSUME NEW j, Owned(j) \/ j = cnew[c] PROVE Owned(j)'
      OBVIOUS
    <3> QED
      BY <2>1, <2>3, OwnedIs, SMT
  <2> QED
    BY <2>1, <2>4, OwnedKept
<1>2. CASE CancelBack(c)
  <2>1. /\ cpc[c] = "cancelBack" /\ UNCHANGED <<requests, record, waiting, paused,
                                                active>>
        /\ IF was_runnable[c] THEN runnable' = Append(runnable, cjob[c])
           ELSE runnable' = runnable
        /\ \A d \in Clients \ {c} : cpc'[d] = cpc[d] /\ cjob'[d] = cjob[d]
    BY <1>0, <1>2 DEF CancelBack, MakeRunnable, rows
  <2>2. cjob[c] \in Jobs
    BY <2>1, Whose DEF Cancelling
  <2>3. \A k : Queued(k) => \E i \in 1..Len(runnable') : runnable'[i] = k
    BY <2>1, <2>2, EnqueueOwns DEF Queued
  <2>4. \A j : Owned(j) /\ record[j] \in rowset => Owned(j)'
    <3> SUFFICES ASSUME NEW j, Owned(j), record[j] \in rowset PROVE Owned(j)'
      OBVIOUS
    <3>1. j # cjob[c]
      BY <2>1
    <3> QED
      BY <2>1, <2>3, <3>1, OwnedIs, SMT
  <2> QED
    BY <2>1, <2>4, OwnedKept
<1>3. CASE CancelWrite(c)
  <2>1. /\ cpc[c] = "cancelWrite"
        /\ UNCHANGED <<requests, runnable, waiting, paused, active>>
        /\ record' = [record EXCEPT ![cjob[c]] = "FAILED"]
        /\ \A d \in Clients \ {c} : cpc'[d] = cpc[d] /\ cjob'[d] = cjob[d]
    BY <1>0, <1>3 DEF CancelWrite, dispatch
  <2>2. cjob[c] \in Jobs
    BY <2>1, Whose DEF Cancelling
  <2>3. /\ record'[cjob[c]] = "FAILED" /\ "FAILED" \notin rowset
        /\ \A j \in requests \ {cjob[c]} : record'[j] = record[j]
    <3>1. requests \subseteq Jobs
      BY Whose
    <3> QED
      BY <2>1, <2>2, <3>1, SMT DEF RowInv
  <2>4. \A j : Owned(j) /\ j # cjob[c] => Owned(j)'
    <3> SUFFICES ASSUME NEW j, Owned(j), j # cjob[c] PROVE Owned(j)'
      OBVIOUS
    <3> QED
      BY <2>1, OwnedIs, SMT DEF Queued
  <2> QED
    BY <2>1, <2>3, <2>4, OwnedKept
<1>4. CASE \E j \in Jobs : pause(c, j)
  <2>1. PICK j \in Jobs : pause(c, j)
    BY <1>4
  <2>2. /\ runnable' = take_runnable(j) /\ waiting' = waiting \ {j}
        /\ paused' = paused \cup {j}
        /\ UNCHANGED <<requests, record, active, cpc, cjob>>
    BY <2>1 DEF pause, rows, client
  <2>3. \A k : k # j /\ Queued(k) => \E i \in 1..Len(runnable') : runnable'[i] = k
    <3>1. TypeOK /\ QueueInv
      BY DEF TokenInv
    <3>2. ASSUME NEW k, k # j, Queued(k)
          PROVE  \E i \in 1..Len(take_runnable(j)) : take_runnable(j)[i] = k
      BY <3>1, <3>2, TakenKeeps
    <3> HIDE DEF CommandInv
    <3> QED
      BY <2>2, <3>2
  <2>4. \A k : Owned(k) => Owned(k)'
    <3> SUFFICES ASSUME NEW k, Owned(k) PROVE Owned(k)'
      OBVIOUS
    <3> QED
      BY <2>2, <2>3, OwnedIs, SMT
  <2> QED
    BY <2>2, <2>4, OwnedKept
<1>5. CASE \E j \in Jobs : CancelClaim(c, j)
  <2>1. PICK j \in Jobs : CancelClaim(c, j)
    BY <1>5
  <2>2. /\ runnable' = take_runnable(j) /\ waiting' = waiting \ {j}
        /\ paused' = paused \ {j} /\ cpc[c] = "idle"
        /\ UNCHANGED <<requests, record, active>>
        /\ cpc'[c] = "cancelLoad" /\ cjob'[c] = j
        /\ \A d \in Clients \ {c} : cpc'[d] = cpc[d] /\ cjob'[d] = cjob[d]
    BY <2>1 DEF CancelClaim, Enter, rows, TokenInv, TypeOK
  <2>3. \A k : k # j /\ Queued(k) => \E i \in 1..Len(runnable') : runnable'[i] = k
    <3>1. TypeOK /\ QueueInv
      BY DEF TokenInv
    <3>2. ASSUME NEW k, k # j, Queued(k)
          PROVE  \E i \in 1..Len(take_runnable(j)) : take_runnable(j)[i] = k
      BY <3>1, <3>2, TakenKeeps
    <3> HIDE DEF CommandInv
    <3> QED
      BY <2>2, <3>2, ZenonT(60)
  <2>4. \A k : Owned(k) => Owned(k)'
    <3> SUFFICES ASSUME NEW k, Owned(k) PROVE Owned(k)'
      OBVIOUS
    <3> QED
      BY <2>2, <2>3, OwnedIs, SMT DEF Cancelling
  <2> QED
    BY <2>2, <2>4, OwnedKept
<1>6. CASE \E j \in Jobs : resume(c, j)
  <2>1. PICK j \in Jobs : resume(c, j)
    BY <1>6
  <2>2. /\ runnable' = Append(runnable, j) /\ paused' = paused \ {j}
        /\ UNCHANGED <<requests, record, waiting, active, cpc, cjob>>
    BY <2>1 DEF resume, MakeRunnable, rows, client
  <2>3. /\ \E i \in 1..Len(runnable') : runnable'[i] = j
        /\ \A k : Queued(k) => \E i \in 1..Len(runnable') : runnable'[i] = k
    BY <2>2, EnqueueOwns
  <2>4. \A k : Owned(k) => Owned(k)'
    <3> SUFFICES ASSUME NEW k, Owned(k) PROVE Owned(k)'
      OBVIOUS
    <3> QED
      BY <2>2, <2>3, OwnedIs, SMT
  <2> QED
    BY <2>2, <2>4, OwnedKept
<1>7. CASE \/ RecordIntent(c) \/ CancelLoad(c) \/ CancelCheck(c)
           \/ RetryLoad(c) \/ RetryProbe(c)
           \/ \E j \in Jobs : SubmitClaim(c, j) \/ RetryLookup(c, j)
  <2>1. UNCHANGED <<requests, runnable, waiting, paused, active>>
    BY <1>7 DEF RecordIntent, CancelLoad, CancelCheck, RetryLoad, RetryProbe,
       SubmitClaim, RetryLookup, dispatch
  <2>2. \A j \in requests : record'[j] = record[j]
    <3>1. CASE RecordIntent(c)
      <4>1. cnew[c] \in Jobs /\ cnew[c] \notin requests /\ requests \subseteq Jobs
        BY <3>1, Whose DEF RecordIntent, Creating
      <4> QED
        BY <3>1, <4>1 DEF RecordIntent, RowInv
    <3>2. CASE ~RecordIntent(c)
      BY <1>7, <3>2 DEF CancelLoad, CancelCheck, RetryLoad, RetryProbe,
         SubmitClaim, RetryLookup, rows
    <3> QED
      BY <3>1, <3>2
  <2>3. \A d \in Clients : cpc[d] \in Cancelling =>
          cpc'[d] \in Cancelling /\ cjob'[d] = cjob[d]
    <3>1. CASE CancelLoad(c) \/ CancelCheck(c)
      BY <3>1 DEF CancelLoad, CancelCheck, CGoto, TokenInv, TypeOK, Cancelling
    <3>2. CASE ~(CancelLoad(c) \/ CancelCheck(c))
      <4>1. cpc[c] \notin Cancelling
        BY <1>7, <3>2 DEF RecordIntent, RetryLoad, RetryProbe, SubmitClaim,
           RetryLookup, Enter, Cancelling
      <4>2. \A d \in Clients \ {c} : cpc'[d] = cpc[d] /\ cjob'[d] = cjob[d]
        BY <1>0, <1>7, <3>2 DEF RecordIntent, RetryLoad, RetryProbe,
           SubmitClaim, RetryLookup, CGoto, TokenInv, TypeOK
      <4> QED
        BY <4>1, <4>2
    <3> QED
      BY <3>1, <3>2
  <2>4. \A j : Owned(j) => Owned(j)'
    <3> SUFFICES ASSUME NEW j, Owned(j) PROVE Owned(j)'
      OBVIOUS
    <3> QED
      BY <2>1, <2>3, OwnedIs, SMT DEF Queued
  <2> QED
    BY <2>1, <2>2, <2>4, OwnedKept
<1> QED
  BY <1>1, <1>2, <1>3, <1>4, <1>5, <1>6, <1>7 DEF CommandStep, Command

LEMMA NextOwned ==
  ASSUME NEW rowset \in SUBSET {"QUEUED", "RENAMING"},
         CommandInv, StageInv(TRUE), OwnedRows(rowset), [Next]_vars,
         \A c \in Clients : cpc[c] = "cancelBack" =>
           record[cjob[c]] \notin rowset
  PROVE  OwnedRows(rowset)'
<1>1. CASE UNCHANGED vars
  <2>1. UNCHANGED <<dispatch, cpc, cjob, record>>
    BY <1>1 DEF vars, rows, client
  <2>2. \A j : Owned(j) => Owned(j)'
    BY <2>1, OwnedIs DEF dispatch, Queued
  <2> QED
    BY <2>1, <2>2, OwnedKept DEF dispatch
<1>2. TokenInv
  BY DEF CommandInv
<1> QED
  BY <1>1, <1>2, LifecycleOwned, WorkerOwned, ClientOwned DEF Next

(* QueuedIsOwned, with any pool and whatever the commands were: no command   *)
(* drops a queued job, given that no command was in progress when shutdown() *)
(* was called.  A refused cancel() then found another row.                   *)
THEOREM QueuedIsOwnedAlways ==
  (NoResume \/ Separate) /\ DrainedFirst => (Spec => []QueuedIsOwned)
<1> SUFFICES ASSUME NoResume \/ Separate, DrainedFirst
             PROVE  Spec => []QueuedIsOwned
  OBVIOUS
<1> DEFINE Inv == StageInv(TRUE) /\ DrainInv /\ OwnedRows({"QUEUED"})
<1>1. Init => Inv
  BY InitStage, InitDrain DEF Init, OwnedRows
<1>2. /\ Counted /\ (Calm => CommandInv)
      /\ (StoreWorks => Inv) /\ [Next]_vars
      => (StoreWorks => Inv)'
  <2> SUFFICES ASSUME Counted, Calm => CommandInv,
                      StoreWorks => Inv, [Next]_vars, StoreWorks'
               PROVE  Inv'
    OBVIOUS
  <2>1. StoreWorks /\ ~StoreFault
    BY CalmStep DEF Counted
  <2>2. CommandInv /\ Inv
    BY <2>1 DEF Calm
  <2>3. ASSUME NEW c \in Clients, cpc[c] = "cancelBack"
        PROVE  record[cjob[c]] \notin {"QUEUED"}
    <3>1. open
      BY <2>2, <2>3 DEF DrainInv
    <3> QED
      BY <2>1, <2>2, <2>3, <3>1 DEF CommandInv, CancelInv, Alone
  <2>4. {"QUEUED"} \in SUBSET {"QUEUED", "RENAMING"}
    OBVIOUS
  <2>5. OwnedRows({"QUEUED"})'
    BY <2>2, <2>3, <2>4, NextOwned
  <2>6. StageInv(TRUE)'
    BY <2>1, <2>2, NextStage
  <2> QED
    BY <2>1, <2>2, <2>5, <2>6, NextDrain
<1>3. (StoreWorks => Inv) => QueuedIsOwned
  BY DEF QueuedIsOwned, OwnedRows, StoreWorks
<1> HIDE DEF Inv
<1> QED
  BY <1>1, <1>2, <1>3, FaultsCounted, CommandInvAlways, PTL DEF Spec

(* Without cancel() this holds of shutdown() at any time, and of a job whose *)
(* file a worker is about to move: a move given up goes to backoff, and only *)
(* one past its commit point leaves the worker with no row to show for it,   *)
(* as long as no store call has failed.                                      *)
NoCancel == \A menu \in Menus : \A c \in Clients : "cancel" \notin menu[c]

THEOREM NothingStrandedAlways ==
  NoCancel => (Spec => [](StoreWorks => NothingStranded))
<1> SUFFICES ASSUME NoCancel PROVE Spec => [](StoreWorks => NothingStranded)
  OBVIOUS
<1>0. Separate
  BY DEF NoCancel, Separate
<1> DEFINE Inv == StageInv(TRUE) /\ OwnedRows({"QUEUED", "RENAMING"})
<1>1. Init => Inv
  BY InitStage DEF Init, OwnedRows
<1>2. /\ Counted /\ (Calm => CommandInv)
      /\ (StoreWorks => Inv) /\ [Next]_vars
      => (StoreWorks => Inv)'
  <2> SUFFICES ASSUME Counted, Calm => CommandInv,
                      StoreWorks => Inv, [Next]_vars, StoreWorks'
               PROVE  Inv'
    OBVIOUS
  <2>1. StoreWorks /\ ~StoreFault
    BY CalmStep DEF Counted
  <2>2. CommandInv /\ Inv
    BY <2>1 DEF Calm
  <2>3. \A c \in Clients : cpc[c] # "cancelBack"
    BY <2>2 DEF CommandInv, CancelInv, Cancelling, NoCancel, TokenInv, TypeOK
  <2>4. {"QUEUED", "RENAMING"} \in SUBSET {"QUEUED", "RENAMING"}
    OBVIOUS
  <2>5. OwnedRows({"QUEUED", "RENAMING"})'
    BY <2>2, <2>3, <2>4, NextOwned
  <2>6. StageInv(TRUE)'
    BY <2>1, <2>2, NextStage
  <2> QED
    BY <2>5, <2>6
<1>3. Inv => NothingStranded
  BY DEF NothingStranded, OwnedRows
<1> HIDE DEF Inv
<1> QED
  BY <1>0, <1>1, <1>2, <1>3, FaultsCounted, CommandInvAlways, PTL DEF Spec

-----------------------------------------------------------------------------
(* FAILED is pre-commit.  Nobody who could still have FAILED recorded, or    *)
(* hand the job to one who could, holds a job whose file has moved: only     *)
(* resume() puts such a job back in the queue.                               *)

Before(at) == at \in {"source", "missing"}

(* A worker at pc, with the state to to record, may yet record FAILED.  *)
MayFail(pc, to) ==
  \/ pc \in {"validate", "commit", "abort", "reject", "reschedule"}
  \/ pc \in Recording /\ to \in {"RENAMING", "FAILED"}

Early(j) ==
  \/ Queued(j) \/ j \in waiting
  \/ \E c \in Clients : /\ cpc[c] \in Cancelling /\ was_runnable[c]
                        /\ cjob[c] = j
  \/ \E c \in Clients : cpc[c] = "publish" /\ cnew[c] = j
  \/ \E w \in Workers : MayFail(wpc[w], wto[w]) /\ wjob[w] = j
  \/ record[j] = "FAILED"

Unresumed == \A c \in Clients : "resume" \notin commands[c]

PreInv == Unresumed => \A j \in Jobs : Early(j) => Before(disk[j])

LEMMA InitPre == Init => PreInv
BY DEF Init, PreInv, Before

LEMMA PreKept ==
  ASSUME PreInv, UNCHANGED commands,
         Unresumed => \A j \in Jobs : Early(j)' =>
           Before(disk'[j]) \/ (Early(j) /\ disk'[j] = disk[j])
  PROVE  PreInv'
BY DEF PreInv, Unresumed

(* A step of the pool that concerns w's job, which is then no longer early,  *)
(* or was and has not been touched.                                          *)
LEMMA InsidePre ==
  ASSUME NEW works \in BOOLEAN, TokenInv, PreInv, NEW w \in Workers, wpc[w] \in Busy, Inside(works, w),
         UNCHANGED <<runnable, waiting, client>>,
         \/ /\ disk' = disk /\ MayFail(wpc'[w], wto'[w])
            /\ MayFail(wpc[w], wto[w])
         \/ ~MayFail(wpc'[w], wto'[w]) /\ record'[wjob[w]] # "FAILED"
         \/ disk' = disk /\ ~MayFail(wpc'[w], wto'[w])
            /\ (record[wjob[w]] = "FAILED" \/ MayFail(wpc[w], wto[w]))
  PROVE  PreInv'
<1> DEFINE j == wjob[w]
<1>1. /\ j \in Jobs /\ j \in active /\ j \in requests
      /\ \A v \in Workers : wjob[v] = j => v = w
  BY Whose
<1>2. /\ ~Queued(j) /\ j \notin waiting
      /\ ~\E c \in Clients : cpc[c] \in Cancelling /\ was_runnable[c]
                             /\ cjob[c] = j
      /\ ~\E c \in Clients : cpc[c] = "publish" /\ cnew[c] = j
  <2>1. ~Queued(j) /\ j \notin waiting
    BY <1>1 DEF TokenInv, QueueInv, Queued
  <2>2. ~\E c \in Clients : cpc[c] \in Cancelling /\ was_runnable[c]
                            /\ cjob[c] = j
    BY <1>1 DEF TokenInv, HeldInv
  <2>3. ~\E c \in Clients : cpc[c] = "publish" /\ cnew[c] = j
    BY <1>1, Whose DEF Creating
  <2> QED
    BY <2>1, <2>2, <2>3
<1> HIDE DEF j
<1>3. ASSUME NEW k \in Jobs, k # j, Early(k)'
      PROVE  Early(k) /\ disk'[k] = disk[k]
  <2>1. /\ UNCHANGED <<wjob, runnable, waiting, cpc, cjob, cnew, was_runnable>>
        /\ record'[k] = record[k] /\ disk'[k] = disk[k]
        /\ \A v \in Workers : wjob[v] = k => wpc'[v] = wpc[v] /\ wto'[v] = wto[v]
    BY <1>3 DEF Inside, client, j
  <2> QED
    BY <1>3, <2>1 DEF Early, Queued
<1>4. ASSUME NEW k \in Jobs, k = j, Early(k)'
      PROVE  Early(k) /\ disk'[k] = disk[k]
  <2>1. UNCHANGED <<wjob, runnable, waiting, cpc, cjob, cnew, was_runnable>>
    BY DEF Inside, client
  <2>2. MayFail(wpc'[w], wto'[w]) \/ record'[k] = "FAILED"
    BY <1>1, <1>2, <1>4, <2>1 DEF Early, Queued
  <2>3. disk' = disk /\ (MayFail(wpc[w], wto[w]) \/ record[k] = "FAILED")
    BY <1>4, <2>2 DEF j
  <2> QED
    BY <1>4, <2>3 DEF Early, j
<1> QED
  BY <1>3, <1>4, PreKept DEF client

LEMMA EnginePre ==
  ASSUME CommandInv, StageInv(FALSE), PreInv, NEW w \in Workers,
         \/ Validate(w) \/ Commit(w) \/ HandleFailure(w) \/ FailPermanently(w)
         \/ Finish(w) \/ Publish(w) \/ Check(w) \/ Write(w)
  PROVE  PreInv'
<1> DEFINE j == wjob[w]
<1>1. Inside(FALSE, w) /\ wpc[w] \in Busy
  BY EarlyInside, LateInside
<1>2. /\ TokenInv /\ wpc \in [Workers -> WorkerLabel]
      /\ wto \in [Workers -> JobState] /\ wto[w] \in JobState
      /\ record \in [Jobs -> RowState] /\ j \in Jobs
  BY <1>1, Whose DEF CommandInv, TokenInv, TypeOK, RowInv
<1>3. UNCHANGED <<runnable, waiting, client>>
  BY DEF Validate, Commit, HandleFailure, FailPermanently, Finish, Publish,
     Check, Write, dispatch
<1>4. StageAt(FALSE, wpc[w], wto[w], record[j], disk[j])
  BY DEF StageInv
<1>5. CASE \/ Validate(w) \/ HandleFailure(w) \/ FailPermanently(w)
           \/ Commit(w) /\ disk' = disk
  <2>1. disk' = disk /\ MayFail(wpc[w], wto[w])
    BY <1>5 DEF Validate, HandleFailure, FailPermanently, Commit, MayFail
  <2> QED
    BY <1>1, <1>2, <1>3, <2>1, InsidePre
<1>6. CASE Commit(w) /\ disk' # disk
  <2>1. wpc'[w] = "finish" /\ record' = record /\ record[j] = "RENAMING"
    BY <1>2, <1>4, <1>6 DEF Commit, WGoto, StageAt, rows
  <2>2. ~MayFail(wpc'[w], wto'[w]) /\ record'[j] # "FAILED"
    BY <2>1 DEF MayFail, Recording
  <2> QED
    BY <1>1, <1>2, <1>3, <2>2, InsidePre
<1>7. CASE Finish(w)
  <2>1. record' = record /\ record[j] = "RENAMING"
    BY <1>4, <1>7 DEF Finish, StageAt, rows
  <2>2. \/ wpc'[w] = "check" /\ wto'[w] = "TRANSFERRING"
        \/ wpc'[w] = "settle"
    BY <1>2, <1>7, <2>1 DEF Finish, WRecord, Halt, WGoto
  <2>3. ~MayFail(wpc'[w], wto'[w]) /\ record'[j] # "FAILED"
    BY <2>1, <2>2 DEF MayFail, Recording
  <2> QED
    BY <1>1, <1>2, <1>3, <2>3, InsidePre
<1>8. CASE Publish(w)
  <2>1. record' = record /\ record[j] = "TRANSFERRING"
    BY <1>4, <1>8 DEF Publish, StageAt, rows
  <2>2. \/ wpc'[w] = "check" /\ wto'[w] = "DONE"
        \/ wpc'[w] = "settle"
    BY <1>2, <1>8 DEF Publish, WRecord, Halt, WGoto
  <2>3. ~MayFail(wpc'[w], wto'[w]) /\ record'[j] # "FAILED"
    BY <2>1, <2>2 DEF MayFail, Recording
  <2> QED
    BY <1>1, <1>2, <1>3, <2>3, InsidePre
<1>9. CASE (Check(w) \/ Write(w)) /\ wto[w] \in {"RENAMING", "FAILED"}
  <2>1. disk' = disk /\ MayFail(wpc[w], wto[w])
    BY <1>9 DEF Check, Write, MayFail, Recording
  <2> QED
    BY <1>1, <1>2, <1>3, <2>1, InsidePre
<1>10. CASE (Check(w) \/ Write(w)) /\ wto[w] \in {"TRANSFERRING", "DONE"}
  <2>1. record'[j] # "FAILED"
    BY <1>2, <1>4, <1>10 DEF Check, Write, StageAt, Recording, rows
  <2>2. /\ wto' = wto
        /\ wpc'[w] \in {"write", "settle", "publish"}
    BY <1>2, <1>10 DEF Check, Write, WGoto, Halt
  <2>3. ~MayFail(wpc'[w], wto'[w])
    BY <1>10, <2>2 DEF MayFail
  <2> QED
    BY <1>1, <1>2, <1>3, <2>1, <2>3, InsidePre
<1>11. (Check(w) \/ Write(w)) => wto[w] # "QUEUED"
  BY <1>4 DEF Check, Write, StageAt, Recording
<1> QED
  BY <1>2, <1>5, <1>6, <1>7, <1>8, <1>9, <1>10, <1>11 DEF JobState

(* A notified worker is not one that may fail a job.  *)
LEMMA WakesNoFailure ==
  ASSUME wpc \in [Workers -> WorkerLabel],
         notify_one \/ notify_all \/ UNCHANGED wpc
  PROVE  \A w \in Workers :
           MayFail(wpc'[w], wto[w]) => MayFail(wpc[w], wto[w])
<1>1. \A w \in Workers : wpc'[w] = wpc[w] \/ wpc'[w] = "ready"
  BY SMT DEF notify_one, notify_all
<1> QED
  BY <1>1 DEF MayFail, Recording

LEMMA PoolPre ==
  ASSUME CommandInv, PreInv, NEW w \in Workers,
         \/ OpenWorker(w) \/ Sleep(w) \/ Exit(w) \/ SpuriousWakeup(w)
         \/ Take(w) \/ Settle(w)
  PROVE  PreInv'
<1>1. /\ wpc \in [Workers -> WorkerLabel] /\ runnable \in Seq(Jobs)
      /\ wjob \in [Workers -> Jobs \cup {NoJob}] /\ wto \in [Workers -> JobState]
  BY DEF CommandInv, TokenInv, TypeOK, RowInv
<1>2. UNCHANGED <<record, disk, client>>
  BY DEF OpenWorker, Sleep, Exit, SpuriousWakeup, Take, Settle, rows
<1>3. UNCHANGED <<commands, cpc, cjob, cnew, was_runnable>>
  BY <1>2 DEF client
<1>4. CASE OpenWorker(w) \/ Sleep(w) \/ Exit(w) \/ SpuriousWakeup(w)
  <2>1. /\ UNCHANGED <<runnable, waiting, wjob, wto>>
        /\ wpc'[w] \in {"ready", "asleep", "none"}
        /\ \A v \in Workers \ {w} : wpc'[v] = wpc[v]
    BY <1>1, <1>4 DEF OpenWorker, Sleep, Exit, SpuriousWakeup, WGoto, dispatch
  <2>2. ~MayFail(wpc'[w], wto'[w])
    BY <2>1 DEF MayFail, Recording
  <2>3. ASSUME NEW j \in Jobs, Early(j)' PROVE Early(j)
    BY <1>2, <1>3, <2>1, <2>2, <2>3 DEF Early, Queued
  <2> QED
    BY <1>2, <1>3, <2>3, PreKept
<1>5. CASE Take(w)
  <2>1. /\ UNCHANGED <<waiting, wto>> /\ runnable # <<>>
        /\ runnable' = Tail(runnable) /\ wjob'[w] = Head(runnable)
        /\ \A v \in Workers \ {w} : wpc'[v] = wpc[v] /\ wjob'[v] = wjob[v]
    BY <1>1, <1>5 DEF Take
  <2>2. /\ Queued(Head(runnable))
        /\ \A i \in 1..Len(runnable') : Queued(runnable'[i])
    <3>1. /\ Len(runnable) \in Nat /\ 1 \in 1..Len(runnable)
          /\ Head(runnable) = runnable[1]
          /\ \A i \in 1..Len(runnable') : /\ i + 1 \in 1..Len(runnable)
                                          /\ runnable'[i] = runnable[i + 1]
      BY <1>1, <2>1, SMT
    <3> QED
      BY <3>1 DEF Queued
  <2>3. ASSUME NEW j \in Jobs, Early(j)' PROVE Early(j)
    <3>1. Queued(j)' => Queued(j)
      BY <2>2 DEF Queued
    <3>2. ASSUME NEW v \in Workers, MayFail(wpc'[v], wto'[v]), wjob'[v] = j
          PROVE  Early(j)
      <4>1. CASE v = w
        <5>1. j = Head(runnable)
          BY <2>1, <3>2, <4>1
        <5> QED
          BY <2>2, <5>1 DEF Early
      <4>2. CASE v # w
        <5>1. wpc'[v] = wpc[v] /\ wjob'[v] = wjob[v] /\ wto' = wto
          BY <2>1, <4>2
        <5>2. MayFail(wpc[v], wto[v]) /\ wjob[v] = j
          BY ONLY <3>2, <5>1
        <5> QED
          BY <5>2 DEF Early
      <4> QED
        BY <4>1, <4>2
    <3> QED
      BY <1>2, <1>3, <2>1, <2>3, <3>1, <3>2 DEF Early
  <2> QED
    BY <1>2, <1>3, <2>3, PreKept
<1>6. CASE Settle(w)
  <2>1. /\ runnable' = runnable /\ wjob'[w] = NoJob
        /\ waiting' = IF wpc[w] = "reschedule" THEN waiting \cup {wjob[w]}
                      ELSE waiting
        /\ \A v \in Workers \ {w} :
             wpc'[v] = wpc[v] /\ wjob'[v] = wjob[v] /\ wto'[v] = wto[v]
    BY <1>1, <1>6 DEF Settle
  <2>2. \A j \in waiting' \ waiting : j = wjob[w] /\ MayFail(wpc[w], wto[w])
    BY <2>1 DEF MayFail
  <2>3. ASSUME NEW j \in Jobs, Early(j)' PROVE Early(j)
    <3>1. j # NoJob
      BY ManagerAssumption
    <3> QED
      BY <1>2, <1>3, <2>1, <2>2, <2>3, <3>1 DEF Early, Queued
  <2> QED
    BY <1>2, <1>3, <2>3, PreKept
<1> QED
  BY <1>4, <1>5, <1>6

LEMMA LifecyclePre ==
  ASSUME CommandInv, PreInv, Start \/ Shutdown \/ CloseStore \/ Crash \/ pump
  PROVE  PreInv'
<1>1. wpc \in [Workers -> WorkerLabel] /\ runnable \in Seq(Jobs)
  BY DEF CommandInv, TokenInv, TypeOK
<1>2. CASE Start \/ Shutdown \/ CloseStore
  <2>1. /\ UNCHANGED <<record, disk, commands, cpc, cjob, cnew, was_runnable>>
        /\ UNCHANGED <<runnable, waiting, wjob, wto>>
    BY <1>2 DEF Start, Shutdown, CloseStore, rows, client, dispatch, worker
  <2>2. \A w \in Workers : MayFail(wpc'[w], wto[w]) => MayFail(wpc[w], wto[w])
    <3>1. CASE Start
      <4>1. \A w \in Workers : wpc'[w] = "starting" \/ wpc'[w] = wpc[w]
        BY <3>1 DEF Start
      <4> QED
        BY <4>1 DEF MayFail, Recording
    <3>2. CASE Shutdown \/ CloseStore
      BY <1>1, <3>2, WakesNoFailure DEF Shutdown, CloseStore, worker
    <3> QED
      BY <1>2, <3>1, <3>2
  <2>3. ASSUME NEW j \in Jobs, Early(j)' PROVE Early(j)
    BY <2>1, <2>2, <2>3 DEF Early, Queued
  <2> QED
    BY <2>1, <2>3, PreKept
<1>3. CASE Crash
  <2>1. /\ UNCHANGED <<record, disk, commands>>
        /\ runnable' = <<>> /\ waiting' = {}
        /\ \A c \in Clients : cpc'[c] = "idle"
        /\ \A w \in Workers : wpc'[w] = "none"
    BY <1>3 DEF Crash, rows
  <2>2. /\ \A j : ~Queued(j)'
        /\ \A c \in Clients : cpc'[c] \notin Cancelling \cup {"publish"}
        /\ \A w \in Workers : ~MayFail(wpc'[w], wto'[w])
    <3>1. \A j : ~Queued(j)'
      BY <2>1, SMT DEF Queued
    <3> QED
      BY <2>1, <3>1 DEF MayFail, Recording, Cancelling
  <2>3. ASSUME NEW j \in Jobs, Early(j)' PROVE Early(j)
    BY <2>1, <2>2, <2>3 DEF Early
  <2> QED
    BY <2>1, <2>3, PreKept
<1>4. CASE pump
  <2>1. PICK order \in UNION {[1..n -> waiting \ paused] :
                                n \in 1..Cardinality(waiting \ paused)} :
          runnable' = runnable \o order /\ waiting' = waiting \ Elements(order)
    BY <1>4 DEF pump
  <2>2. /\ UNCHANGED <<record, disk, commands, cpc, cjob, cnew, was_runnable>>
        /\ UNCHANGED <<wjob, wto>> /\ notify_all
    BY <1>4 DEF pump, rows, client
  <2>3. \A i \in 1..Len(runnable') :
          Queued(runnable'[i]) \/ runnable'[i] \in waiting
    <3>1. PICK n \in 1..Cardinality(waiting \ paused) :
            order \in [1..n -> waiting \ paused]
      BY <2>1
    <3>2. order \in Seq(waiting)
      BY <3>1, SMT
    <3>3. \A i \in 1..Len(runnable') :
            \/ i \in 1..Len(runnable) /\ runnable'[i] = runnable[i]
            \/ runnable'[i] \in waiting
      BY <1>1, <2>1, <3>2, SMT
    <3> QED
      BY <3>3 DEF Queued
  <2>4. \A w \in Workers : MayFail(wpc'[w], wto[w]) => MayFail(wpc[w], wto[w])
    BY <1>1, <2>2, WakesNoFailure
  <2>5. ASSUME NEW j \in Jobs, Early(j)' PROVE Early(j)
    BY <2>1, <2>2, <2>3, <2>4, <2>5 DEF Early, Queued
  <2> QED
    BY <2>2, <2>5, PreKept
<1> QED
  BY <1>2, <1>3, <1>4

(* What a step that adds a job to the queue finds there.  *)
LEMMA QueueGrows ==
  ASSUME TokenInv, NEW j \in Jobs, runnable' = Append(runnable, j)
  PROVE  \A i \in 1..Len(runnable') : runnable'[i] = j \/ Queued(runnable'[i])
<1>1. runnable \in Seq(Jobs)
  BY DEF TokenInv, TypeOK
<1>2. \A i \in 1..Len(runnable') :
        \/ runnable'[i] = j
        \/ i \in 1..Len(runnable) /\ runnable'[i] = runnable[i]
  BY <1>1, SMT
<1> QED
  BY <1>2 DEF Queued

(* A command hands on only jobs that were early, except that it may create   *)
(* one or fail one, whose file has not moved.                                *)
(* A job that is early after a step of one client was so before, if the step *)
(* makes none early by the queue, by that client or by its row.              *)
LEMMA EarlyKept ==
  ASSUME NEW c \in Clients, NEW j, Early(j)',
         Queued(j)' => Early(j), waiting' \subseteq waiting,
         \A d \in Clients \ {c} :
           /\ cpc'[d] = cpc[d] /\ cjob'[d] = cjob[d]
           /\ cnew'[d] = cnew[d] /\ was_runnable'[d] = was_runnable[d],
         /\ cpc'[c] \in Cancelling /\ was_runnable'[c] /\ cjob'[c] = j
         => Early(j),
         cpc'[c] # "publish",
         wjob' = wjob,
         \A w \in Workers :
           MayFail(wpc'[w], wto'[w]) => MayFail(wpc[w], wto[w]),
         record'[j] = "FAILED" => record[j] = "FAILED"
  PROVE  Early(j)
<1>1. CASE Queued(j)' \/ j \in waiting' \/ record'[j] = "FAILED"
  BY <1>1 DEF Early
<1>2. ASSUME NEW d \in Clients, cpc'[d] \in Cancelling, was_runnable'[d],
             cjob'[d] = j
      PROVE  Early(j)
  <2>1. CASE d = c
    BY <1>2, <2>1
  <2>2. CASE d # c
    <3>1. /\ cpc'[d] = cpc[d] /\ cjob'[d] = cjob[d]
          /\ was_runnable'[d] = was_runnable[d]
      BY <2>2
    <3>2. cpc[d] \in Cancelling /\ was_runnable[d] /\ cjob[d] = j
      BY ONLY <1>2, <3>1, Zenon
    <3> QED
      BY <3>2 DEF Early
  <2> QED
    BY <2>1, <2>2
<1>3. ASSUME NEW d \in Clients, cpc'[d] = "publish", cnew'[d] = j
      PROVE  Early(j)
  <2>1. cpc'[d] = cpc[d] /\ cnew'[d] = cnew[d]
    BY <1>3
  <2>2. cpc[d] = "publish" /\ cnew[d] = j
    BY ONLY <1>3, <2>1, Zenon
  <2> QED
    BY <2>2 DEF Early
<1>4. ASSUME NEW w \in Workers, MayFail(wpc'[w], wto'[w]), wjob'[w] = j
      PROVE  Early(j)
  <2>1. MayFail(wpc[w], wto[w]) /\ wjob[w] = j
    BY <1>4
  <2> QED
    BY <2>1 DEF Early
<1> QED
  BY <1>1, <1>2, <1>3, <1>4 DEF Early

LEMMA ClientPre ==
  ASSUME CommandInv, PreInv, NEW c \in Clients,
         CommandStep(c) \/ \E j \in Jobs : Command(c, j)
  PROVE  PreInv'
<1> DEFINE Others == \A d \in Clients \ {c} :
             /\ cpc'[d] = cpc[d] /\ cjob'[d] = cjob[d]
             /\ cnew'[d] = cnew[d] /\ was_runnable'[d] = was_runnable[d]
<1>1. /\ wpc \in [Workers -> WorkerLabel] /\ TokenInv
      /\ cpc \in [Clients -> ClientLabel]
      /\ cjob \in [Clients -> Jobs \cup {NoJob}]
      /\ cnew \in [Clients -> Jobs \cup {NoJob}]
      /\ was_runnable \in [Clients -> BOOLEAN]
  BY DEF CommandInv, TokenInv, TypeOK
<1>2. /\ CReturn(c) => Others /\ cpc'[c] = "idle" /\ UNCHANGED commands
      /\ \A label : CGoto(c, label) =>
           /\ Others /\ cpc'[c] = label
           /\ UNCHANGED <<cjob, cnew, was_runnable, commands>>
  BY <1>1 DEF CReturn, CGoto
<1>3. "idle" \notin Cancelling \cup {"publish"}
  BY DEF Cancelling
<1>4. CASE PublishJob(c)
  <2>1. /\ runnable' = Append(runnable, cnew[c]) /\ cpc[c] = "publish"
        /\ UNCHANGED <<waiting, record, disk, wjob, wto, commands>>
        /\ Others /\ cpc'[c] = "idle" /\ notify_one
    BY <1>2, <1>4 DEF PublishJob, MakeRunnable, rows
  <2>2. cnew[c] \in Jobs
    BY <1>1, <2>1, Whose DEF Creating
  <2>3. \A i \in 1..Len(runnable') :
          runnable'[i] = cnew[c] \/ Queued(runnable'[i])
    BY <1>1, <2>1, <2>2, QueueGrows
  <2>4. \A w \in Workers : MayFail(wpc'[w], wto[w]) => MayFail(wpc[w], wto[w])
    BY <1>1, <2>1, WakesNoFailure
  <2> HIDE DEF Others
  <2>5. ASSUME NEW j \in Jobs, Early(j)' PROVE Early(j)
    <3>1. Queued(j)' => Early(j)
      BY <2>1, <2>3 DEF Early, Queued
    <3> QED
      BY <1>3, <2>1, <2>4, <2>5, <3>1, EarlyKept DEF Others
  <2> QED
    BY <2>1, <2>5, PreKept
<1>5. CASE CancelBack(c)
  <2>1. /\ UNCHANGED <<waiting, record, disk, wjob, wto, commands>>
        /\ cpc[c] = "cancelBack" /\ Others /\ cpc'[c] = "idle"
        /\ IF was_runnable[c] THEN runnable' = Append(runnable, cjob[c])
           ELSE runnable' = runnable
        /\ notify_one \/ UNCHANGED wpc
    BY <1>2, <1>5 DEF CancelBack, MakeRunnable, rows
  <2>2. cpc[c] \in Cancelling /\ cjob[c] \in Jobs
    BY <1>1, <2>1, Whose DEF Cancelling
  <2>3. \A i \in 1..Len(runnable') :
          (runnable'[i] = cjob[c] /\ was_runnable[c]) \/ Queued(runnable'[i])
    <3>1. CASE was_runnable[c]
      BY <1>1, <2>1, <2>2, <3>1, QueueGrows
    <3>2. CASE ~was_runnable[c]
      BY <2>1, <3>2 DEF Queued
    <3> QED
      BY <3>1, <3>2
  <2>4. \A w \in Workers : MayFail(wpc'[w], wto[w]) => MayFail(wpc[w], wto[w])
    BY <1>1, <2>1, WakesNoFailure
  <2> HIDE DEF Others
  <2>5. ASSUME NEW j \in Jobs, Early(j)' PROVE Early(j)
    <3>1. Queued(j)' => Early(j)
      BY <2>2, <2>3 DEF Early, Queued
    <3> QED
      BY <1>3, <2>1, <2>4, <2>5, <3>1, EarlyKept DEF Others
  <2> QED
    BY <2>1, <2>5, PreKept
<1>6. CASE CancelWrite(c)
  <2>1. /\ cpc[c] = "cancelWrite" /\ Others /\ cpc'[c] = "idle"
        /\ UNCHANGED <<runnable, waiting, disk, wpc, wjob, wto, commands>>
        /\ \A j \in Jobs : record'[j] = "FAILED" =>
             j = cjob[c] \/ record[j] = "FAILED"
    BY <1>2, <1>6 DEF CancelWrite, dispatch, worker, CommandInv, RowInv
  <2>2. cjob[c] \in Jobs /\ Before(disk[cjob[c]])
    BY <1>1, <2>1, Whose DEF Cancelling, CommandInv, CancelInv, EngineInv, Before
  <2> HIDE DEF Others
  <2>3. ASSUME NEW j \in Jobs, Early(j)' PROVE Before(disk'[j]) \/ Early(j)
    <3>1. CASE j = cjob[c]
      BY <2>1, <2>2, <3>1
    <3>2. CASE j # cjob[c]
      <4>1. Queued(j)' => Early(j)
        BY <2>1 DEF Early, Queued
      <4>2. record'[j] = "FAILED" => record[j] = "FAILED"
        BY <2>1, <3>2
      <4> QED
        BY <1>3, <2>1, <2>3, <4>1, <4>2, EarlyKept DEF Others
    <3> QED
      BY <3>1, <3>2
  <2> QED
    BY <2>1, <2>3, PreKept
<1>7. CASE RecordIntent(c)
  <2>1. /\ cpc[c] = "record"
        /\ UNCHANGED <<runnable, waiting, wpc, wjob, wto, commands>>
    BY <1>2, <1>7 DEF RecordIntent, worker
  <2>2. cnew[c] \in Jobs
    BY <1>1, <2>1, Whose DEF Creating
  <2>3. CASE CReturn(c) /\ UNCHANGED <<record, disk>>
    <3>1. Others /\ cpc'[c] = "idle"
      BY <1>2, <2>3
    <3> HIDE DEF Others
    <3>2. ASSUME NEW j \in Jobs, Early(j)' PROVE Early(j)
      BY <1>3, <2>1, <2>3, <3>1, <3>2, ZenonT(60) DEF Early, Queued, Others
    <3> QED
      BY <2>1, <2>3, <3>2, PreKept
  <2>4. CASE ~(CReturn(c) /\ UNCHANGED <<record, disk>>)
    <3>1. /\ record[cnew[c]] = "ABSENT" /\ Others /\ cpc'[c] = "publish"
          /\ UNCHANGED <<cjob, cnew, was_runnable>>
          /\ record' = [record EXCEPT ![cnew[c]] = "QUEUED"]
          /\ disk' = disk \/ disk' = [disk EXCEPT ![cnew[c]] = "source"]
      BY <1>2, <1>7, <2>4 DEF RecordIntent
    <3>2. Before(disk[cnew[c]])
      BY <2>2, <3>1 DEF CommandInv, EngineInv, Before
    <3>3. /\ Before(disk'[cnew[c]])
          /\ \A j \in Jobs \ {cnew[c]} : /\ disk'[j] = disk[j]
                                         /\ record'[j] = record[j]
      BY <2>2, <3>1, <3>2 DEF CommandInv, EngineInv, RowInv, Before
    <3>4. "publish" \notin Cancelling
      BY DEF Cancelling
    <3> HIDE DEF Others
    <3>5. ASSUME NEW j \in Jobs, Early(j)', j # cnew[c] PROVE Early(j)
      BY <2>1, <3>1, <3>3, <3>4, <3>5, ZenonT(60) DEF Early, Queued, Others
    <3> QED
      BY <2>1, <3>3, <3>5, PreKept
  <2> QED
    BY <2>3, <2>4
<1>8. CASE \E j \in Jobs : pause(c, j)
  <2>1. PICK j \in Jobs : pause(c, j)
    BY <1>8
  <2>2. /\ runnable' = take_runnable(j) /\ waiting' = waiting \ {j}
        /\ UNCHANGED <<record, disk, wpc, wjob, wto, commands>>
        /\ UNCHANGED <<cpc, cjob, cnew, was_runnable>>
    BY <2>1 DEF pause, rows, client, worker
  <2>3. \A i \in 1..Len(runnable') : Queued(runnable'[i])
    BY <1>1, <2>2, TakenOut, ZenonT(60) DEF TokenInv, Queued
  <2>4. ASSUME NEW k \in Jobs, Early(k)' PROVE Early(k)
    BY <2>2, <2>3, <2>4, ZenonT(60) DEF Early, Queued
  <2> QED
    BY <2>2, <2>4, PreKept
<1>9. CASE \E j \in Jobs : CancelClaim(c, j)
  <2>1. PICK j \in Jobs : CancelClaim(c, j)
    BY <1>9
  <2>2. /\ runnable' = take_runnable(j) /\ waiting' = waiting \ {j}
        /\ UNCHANGED <<record, disk, wpc, wjob, wto, commands, cnew>>
        /\ Others /\ cpc'[c] = "cancelLoad" /\ cjob'[c] = j
        /\ was_runnable'[c] => Queued(j)
    BY <1>1, <2>1 DEF CancelClaim, rows, worker, Elements, Queued
  <2>3. \A i \in 1..Len(runnable') : Queued(runnable'[i])
    BY <1>1, <2>2, TakenOut, ZenonT(60) DEF TokenInv, Queued
  <2> HIDE DEF Others
  <2>4. ASSUME NEW k \in Jobs, Early(k)' PROVE Early(k)
    <3>1. Queued(k)' => Early(k)
      BY <2>3 DEF Early, Queued
    <3>2. was_runnable'[c] /\ cjob'[c] = k => Early(k)
      BY <2>2 DEF Early
    <3> QED
      BY <2>2, <2>4, <3>1, <3>2, EarlyKept DEF Others
  <2> QED
    BY <2>2, <2>4, PreKept
<1>10. CASE \E j \in Jobs : resume(c, j)
  <2>1. ~Unresumed /\ UNCHANGED commands
    BY <1>10 DEF resume, Enter, Unresumed, client
  <2> QED
    BY <2>1, PreKept
<1>11. CASE CancelLoad(c) \/ CancelCheck(c)
  <2>1. /\ UNCHANGED <<runnable, waiting, record, disk, wpc, wjob, wto>>
        /\ cpc[c] \in Cancelling /\ Others /\ cpc'[c] \in Cancelling
        /\ UNCHANGED <<cjob, cnew, was_runnable, commands>>
    BY <1>2, <1>11 DEF CancelLoad, CancelCheck, Cancelling, dispatch, rows,
       worker
  <2>2. "publish" \notin Cancelling
    BY DEF Cancelling
  <2> HIDE DEF Others
  <2>3. ASSUME NEW j \in Jobs, Early(j)' PROVE Early(j)
    BY <2>1, <2>2, <2>3 DEF Early, Queued, Others
  <2> QED
    BY <2>1, <2>3, PreKept
<1>12. CASE \/ RetryLoad(c) \/ RetryProbe(c)
            \/ \E j \in Jobs : SubmitClaim(c, j) \/ RetryLookup(c, j)
  <2>1. /\ UNCHANGED <<runnable, waiting, record, disk, wpc, wjob, wto>>
        /\ UNCHANGED commands
    BY <1>2, <1>12 DEF RetryLoad, RetryProbe, SubmitClaim, RetryLookup,
       dispatch, rows, worker
  <2>2. Others /\ cpc'[c] \in {"idle", "record", "retryLoad", "retryProbe"}
    <3>1. CASE RetryLoad(c)
      BY <1>2, <3>1 DEF RetryLoad
    <3>2. CASE RetryProbe(c)
      BY <1>1, <1>2, <3>2, ZenonT(60) DEF RetryProbe
    <3>3. CASE \E j \in Jobs : SubmitClaim(c, j)
      BY <1>1, <3>3 DEF SubmitClaim
    <3>4. CASE \E j \in Jobs : RetryLookup(c, j)
      BY <1>1, <3>4 DEF RetryLookup
    <3> QED
      BY <1>12, <3>1, <3>2, <3>3, <3>4
  <2>3. cpc'[c] \notin Cancelling \cup {"publish"}
    BY <2>2 DEF Cancelling
  <2> HIDE DEF Others
  <2>4. ASSUME NEW j \in Jobs, Early(j)' PROVE Early(j)
    BY <2>1, <2>2, <2>3, <2>4 DEF Early, Queued, Others
  <2> QED
    BY <2>1, <2>4, PreKept
<1> QED
  BY <1>4, <1>5, <1>6, <1>7, <1>8, <1>9, <1>10, <1>11, <1>12
  DEF CommandStep, Command

LEMMA NextPre ==
  ASSUME CommandInv, StageInv(FALSE), PreInv, [Next]_vars
  PROVE  PreInv'
<1>1. CASE UNCHANGED vars
  <2>1. /\ UNCHANGED <<runnable, waiting, record, disk, wpc, wjob, wto>>
        /\ UNCHANGED <<cpc, cjob, cnew, was_runnable, commands>>
    BY <1>1 DEF vars, dispatch, rows, worker, client
  <2>2. ASSUME NEW j \in Jobs, Early(j)' PROVE Early(j)
    BY <2>1, <2>2 DEF Early, Queued
  <2> QED
    BY <2>1, <2>2, PreKept
<1>2. CASE \E w \in Workers : WorkerStep(w) \/ SpuriousWakeup(w)
  BY <1>2, EnginePre, PoolPre DEF WorkerStep
<1> QED
  BY <1>1, <1>2, LifecyclePre, ClientPre DEF Next

(* FailedIsPreCommit, with any pool, any number of clients and any menus     *)
(* under which a job is run by one worker at a time, while no store call     *)
(* fails or only one client cancels.                                         *)
THEOREM FailedIsPreCommitAlways ==
  (NoResume \/ Separate) => (Spec => [](Calm => FailedIsPreCommit))
<1> SUFFICES ASSUME NoResume \/ Separate
             PROVE  Spec => [](Calm => FailedIsPreCommit)
  OBVIOUS
<1> DEFINE Inv == StageInv(FALSE) /\ PreInv
<1>1. Init => Inv
  BY InitStage, InitPre
<1>2. /\ Counted /\ (Calm => CommandInv)
      /\ (Calm => Inv) /\ [Next]_vars
      => (Calm => Inv)'
  <2> SUFFICES ASSUME Counted, Calm => CommandInv, Calm => Inv,
                      [Next]_vars, Calm'
               PROVE  Inv'
    OBVIOUS
  <2>1. CommandInv /\ Inv
    BY CalmStep DEF Counted
  <2>2. StageInv(FALSE)'
    BY <2>1, NextStage
  <2> QED
    BY <2>1, <2>2, NextPre
<1>3. Inv => FailedIsPreCommit
  BY DEF PreInv, FailedIsPreCommit, Early, Before, Unresumed
<1> HIDE DEF Inv
<1> QED
  BY <1>1, <1>2, <1>3, FaultsCounted, CommandInvAlways, PTL DEF Spec
=============================================================================
