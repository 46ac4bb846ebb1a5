--------------------------- MODULE ServiceProofs ---------------------------
(***************************************************************************)
(* Proofs about Service: the order in which start() takes things and       *)
(* stop() gives them back.  The inductive invariant says, for each place   *)
(* of the main thread, what the process holds there.                       *)
(***************************************************************************)
EXTENDS Service, TLAPS

(* Zenon is the default; a leaf that it does not find says SMT.  *)
USE Zenon

(* The places between a successful flock() and the release of the lock, those *)
(* where the store is open, where the pool runs, and where handlers exist.    *)
Up     == {"ready", "test", "suspend", "asleep", "stopping", "joinWatchdog",
           "joinHandlers"}
Pool   == Up \cup {"listen", "unwind"}
Opened == Pool \cup {"version", "create", "spawn", "unwindJoin", "joinWorkers"}
Locked == Opened \cup {"subscribe", "open", "release"}
Told   == {"test", "suspend", "asleep", "stopping"}

(* The Boolean variables, by process.  *)
Flags ==
  /\ storeOpen \in [Procs -> BOOLEAN] /\ dispatch \in [Procs -> BOOLEAN]
  /\ subscribed \in [Procs -> BOOLEAN] /\ busy \in [Procs -> BOOLEAN]
  /\ watchdog \in [Procs -> BOOLEAN] /\ watchdog_stop \in [Procs -> BOOLEAN]
  /\ watched \in [Procs -> BOOLEAN]

(* The descriptor and the flock.  *)
LockInv ==
  \A p \in Procs :
    /\ fd[p] = IF pc[p] \in Locked \cup {"flock"} THEN lockFile ELSE 0
    /\ pc[p] \in Locked \cup {"flock"} => lockFile # 0
    /\ \A i \in Inodes : holder[i] = p <=> pc[p] \in Locked /\ i = lockFile

(* The store, the subscription and the pool.  *)
StoreInv ==
  \A p \in Procs :
    /\ storeOpen[p] <=> pc[p] \in Opened
    /\ subscribed[p] <=> pc[p] \in Locked \ {"subscribe"}
    /\ dispatch[p] <=> pc[p] \in Pool \cup {"unwindJoin"}
    /\ manager[p] = "running" <=> pc[p] \in Pool
    /\ manager[p] = "none" <=> pc[p] \notin Opened \cup {"open"}
    /\ pc[p] \in Pool \cup {"spawn"} => db.version = 1

(* The threads that serve and move.  *)
ThreadInv ==
  \A p \in Procs :
    /\ server[p] = "accepting" <=> pc[p] \in Up \ {"joinHandlers"}
    /\ server[p] = "draining" <=> pc[p] = "joinHandlers"
    /\ hpc[p] # "none" => pc[p] \in Up
    /\ busy[p] => pc[p] \in Pool \cup {"unwindJoin", "joinWorkers"}

(* The watchdog, and what the service manager was told.  *)
NoticeInv ==
  \A p \in Procs :
    /\ told[p] = "READY" <=> pc[p] \in Told
    /\ watchdog[p] => watched[p] /\ pc[p] \in Told \cup {"joinWatchdog"}
    /\ pc[p] \in Told /\ watched[p] => watchdog[p] /\ ~watchdog_stop[p]

ServiceInv == TypeOK /\ Flags /\ LockInv /\ StoreInv /\ ThreadInv /\ NoticeInv

-----------------------------------------------------------------------------

(* What one process, or another program on its behalf, may do.  *)
Step(p) ==
  \/ Launch(p) \/ Crash(p) \/ Signal(p) \/ StartAgain(p)
  \/ MainStep(p) \/ WatchdogExit(p)
  \/ TakeConnection(p) \/ HandlerStep(p)
  \/ BeginMove(p) \/ EndMove(p)

(* Initially no process is up and nothing is held.  *)
LEMMA InitInv == Init => ServiceInv
<1> SUFFICES ASSUME Init PROVE ServiceInv
  OBVIOUS
<1>1. TypeOK
  <2>1. db = [file |-> db.file, version |-> db.version, next |-> db.next]
    BY DEF Init
  <2>2. rows = [i \in Ids |-> rows[i]]
    BY DEF Init
  <2> QED
    BY <2>1, <2>2, ServiceAssumption DEF Init, TypeOK, Place
<1>2. Flags
  BY DEF Init, Flags
<1>3. LockInv
  BY <1>1, ServiceAssumption, SMT DEF Init, TypeOK, LockInv, Locked, Opened,
     Pool, Up
<1>4. StoreInv
  BY DEF Init, StoreInv, Locked, Opened, Pool, Up
<1>5. ThreadInv
  BY DEF Init, ThreadInv, Pool, Up
<1>6. NoticeInv
  BY DEF Init, NoticeInv, Told
<1> QED
  BY <1>1, <1>2, <1>3, <1>4, <1>5, <1>6 DEF ServiceInv

(* Every step keeps the shape of the variables.  *)
LEMMA ShapeStep ==
  ASSUME TypeOK, NEW p \in Procs, Step(p)
  PROVE  TypeOK'
<1> USE ServiceAssumption DEF Goto, TypeOK, Place, lock, signal, object,
    threads, notice, durable, budget
<1>1. CASE Launch(p) \/ StartAgain(p) \/ InstallHandlers(p) \/ BlockSignals(p)
           \/ TestFlag(p) \/ Suspend(p)
  BY <1>1, SMT DEF Launch, StartAgain, InstallHandlers, BlockSignals,
     TestFlag, Suspend
<1>2. CASE Crash(p) \/ Exit(p)
  <2>1. Gone(p)
    BY <1>2 DEF Crash, Exit
  <2> QED
    BY <2>1 DEF Gone, CloseLock
<1>3. CASE Signal(p)
  <2>1. CASE pc[p] = "load" /\ Gone(p)
    BY <2>1 DEF Gone, CloseLock
  <2>2. CASE pc[p] # "load"
    BY <1>3, <2>2, SMT DEF Signal
  <2> QED
    BY <1>3, <2>1, <2>2 DEF Signal
<1>4. CASE OpenLockFile(p)
  BY <1>4, SMT DEF OpenLockFile, Fault
<1>5. CASE Flock(p)
  BY <1>5, SMT DEF Flock, CloseLock
<1>6. CASE Subscribe(p)
  BY <1>6, SMT DEF Subscribe, release, CloseLock
<1>7. CASE OpenStore(p)
  <2>1. (db = [file |-> db.file, version |-> db.version, next |-> db.next])'
    BY <1>7 DEF OpenStore
  <2> QED
    BY <1>7, <2>1, SMT DEF OpenStore, Abandon, release, CloseLock, Fault
<1>8. CASE ReadVersion(p)
  BY <1>8, SMT DEF ReadVersion, Abandon, release, CloseLock, Fault
<1>9. CASE CreateSchema(p)
  BY <1>9, SMT DEF CreateSchema, Abandon, release, CloseLock, Fault
<1>10. CASE SpawnWorkers(p)
  BY <1>10 DEF SpawnWorkers
<1>11. CASE Listen(p)
  BY <1>11, SMT DEF Listen, Fault
<1>12. CASE Unwind(p)
  BY <1>12 DEF Unwind
<1>13. CASE UnwindJoin(p)
  BY <1>13 DEF UnwindJoin, Abandon, release, CloseLock
<1>14. CASE Ready(p)
  BY <1>14 DEF Ready
<1>15. CASE StopNotify(p)
  BY <1>15 DEF StopNotify
<1>16. CASE StopServer(p)
  BY <1>16 DEF StopServer
<1>17. CASE JoinHandlers(p)
  BY <1>17 DEF JoinHandlers
<1>18. CASE JoinWorkers(p)
  BY <1>18 DEF JoinWorkers
<1>19. CASE Release(p)
  BY <1>19 DEF Release, release, CloseLock
<1>20. CASE WatchdogExit(p)
  BY <1>20 DEF WatchdogExit
<1>21. CASE TakeConnection(p) \/ Dispatch(p) \/ HandlerExit(p)
  BY <1>21, SMT DEF TakeConnection, Dispatch, HandlerExit, HGoto
<1>22. CASE NextSequence(p) \/ RecordIntent(p)
  BY <1>22, SMT DEF NextSequence, RecordIntent, Fault, HGoto
<1>23. CASE BeginMove(p) \/ EndMove(p)
  BY <1>23, SMT DEF BeginMove, EndMove
<1> QED
  BY <1>1, <1>2, <1>3, <1>4, <1>5, <1>6, <1>7, <1>8, <1>9, <1>10, <1>11,
     <1>12, <1>13, <1>14, <1>15, <1>16, <1>17, <1>18, <1>19, <1>20, <1>21,
     <1>22, <1>23 DEF Step, MainStep, HandlerStep

(* Every step keeps the Boolean variables Boolean.  *)
LEMMA FlagsStep ==
  ASSUME Flags, NEW p \in Procs, Step(p)
  PROVE  Flags'
<1> USE ServiceAssumption DEF Goto, Flags, lock, signal, object, threads,
    notice, durable, budget
<1>1. CASE Launch(p) \/ StartAgain(p) \/ InstallHandlers(p) \/ BlockSignals(p)
           \/ TestFlag(p) \/ Suspend(p)
  BY <1>1 DEF Launch, StartAgain, InstallHandlers, BlockSignals, TestFlag,
    Suspend
<1>2. CASE Crash(p) \/ Exit(p)
  <2>1. Gone(p)
    BY <1>2 DEF Crash, Exit
  <2> QED
    BY <2>1 DEF Gone, CloseLock
<1>3. CASE Signal(p)
  BY <1>3, ZenonT(30) DEF Signal, Gone, CloseLock
<1>4. CASE OpenLockFile(p)
  BY <1>4 DEF OpenLockFile, Fault
<1>5. CASE Flock(p)
  BY <1>5 DEF Flock, CloseLock
<1>6. CASE Subscribe(p)
  BY <1>6 DEF Subscribe, release, CloseLock
<1>7. CASE OpenStore(p)
  BY <1>7 DEF OpenStore, Abandon, release, CloseLock, Fault
<1>8. CASE ReadVersion(p)
  BY <1>8, ZenonT(30) DEF ReadVersion, Abandon, release, CloseLock, Fault
<1>9. CASE CreateSchema(p)
  BY <1>9, ZenonT(30) DEF CreateSchema, Abandon, release, CloseLock, Fault
<1>10. CASE SpawnWorkers(p)
  BY <1>10 DEF SpawnWorkers
<1>11. CASE Listen(p)
  BY <1>11 DEF Listen, Fault
<1>12. CASE Unwind(p)
  BY <1>12 DEF Unwind
<1>13. CASE UnwindJoin(p)
  BY <1>13 DEF UnwindJoin, Abandon, release, CloseLock
<1>14. CASE Ready(p)
  BY <1>14 DEF Ready
<1>15. CASE StopNotify(p)
  BY <1>15 DEF StopNotify
<1>16. CASE StopServer(p)
  BY <1>16 DEF StopServer
<1>17. CASE JoinHandlers(p)
  BY <1>17 DEF JoinHandlers
<1>18. CASE JoinWorkers(p)
  BY <1>18 DEF JoinWorkers
<1>19. CASE Release(p)
  BY <1>19 DEF Release, release, CloseLock
<1>20. CASE WatchdogExit(p)
  BY <1>20 DEF WatchdogExit
<1>21. CASE TakeConnection(p) \/ Dispatch(p) \/ HandlerExit(p)
  BY <1>21 DEF TakeConnection, Dispatch, HandlerExit, HGoto
<1>22. CASE NextSequence(p) \/ RecordIntent(p)
  BY <1>22 DEF NextSequence, RecordIntent, Fault, HGoto
<1>23. CASE BeginMove(p) \/ EndMove(p)
  BY <1>23 DEF BeginMove, EndMove
<1> QED
  BY <1>1, <1>2, <1>3, <1>4, <1>5, <1>6, <1>7, <1>8, <1>9, <1>10, <1>11,
     <1>12, <1>13, <1>14, <1>15, <1>16, <1>17, <1>18, <1>19, <1>20, <1>21,
     <1>22, <1>23 DEF Step, MainStep, HandlerStep

(* Every step keeps the account of the lock.  *)
LEMMA LockStep ==
  ASSUME TypeOK, LockInv, NEW p \in Procs, Step(p)
  PROVE  LockInv'
<1> USE ServiceAssumption DEF Goto, TypeOK, LockInv, Locked, Opened, Pool, Up,
    lock, signal, object, threads, notice, durable, budget
<1>1. CASE Launch(p) \/ StartAgain(p) \/ InstallHandlers(p) \/ BlockSignals(p)
           \/ TestFlag(p) \/ Suspend(p)
  <2>1. CASE Launch(p)
    BY <2>1, SMT DEF Launch
  <2>2. CASE StartAgain(p)
    BY <2>2, SMT DEF StartAgain
  <2>3. CASE InstallHandlers(p) \/ BlockSignals(p)
    BY <2>3, SMT DEF InstallHandlers, BlockSignals
  <2>4. CASE TestFlag(p)
    BY <2>4, SMT DEF TestFlag
  <2>5. CASE Suspend(p) /\ pending[p]
    BY <2>5, SMT DEF Suspend
  <2>6. CASE Suspend(p) /\ ~pending[p]
    BY <2>6, SMT DEF Suspend
  <2> QED
    BY <1>1, <2>1, <2>2, <2>3, <2>4, <2>5, <2>6
<1>2. CASE Crash(p) \/ Exit(p)
  <2>1. Gone(p)
    BY <1>2 DEF Crash, Exit
  <2> QED
    BY <2>1, SMT DEF Gone, CloseLock
<1>3. CASE Signal(p)
  <2>1. CASE pc[p] = "load" /\ Gone(p)
    BY <2>1, SMT DEF Gone, CloseLock
  <2>2. CASE pc[p] # "load"
    BY <1>3, <2>2, SMT DEF Signal
  <2> QED
    BY <1>3, <2>1, <2>2 DEF Signal
<1>4. CASE OpenLockFile(p)
  BY <1>4, SMT DEF OpenLockFile, Fault
<1>5. CASE Flock(p)
  BY <1>5, SMT DEF Flock, CloseLock
<1>6. CASE Subscribe(p)
  BY <1>6, SMT DEF Subscribe, release, CloseLock
<1>7. CASE OpenStore(p)
  BY <1>7, SMT DEF OpenStore, Abandon, release, CloseLock, Fault
<1>8. CASE ReadVersion(p)
  BY <1>8, SMT DEF ReadVersion, Abandon, release, CloseLock, Fault
<1>9. CASE CreateSchema(p)
  BY <1>9, SMT DEF CreateSchema, Abandon, release, CloseLock, Fault
<1>10. CASE SpawnWorkers(p)
  BY <1>10, SMT DEF SpawnWorkers
<1>11. CASE Listen(p)
  BY <1>11, SMT DEF Listen, Fault
<1>12. CASE Unwind(p)
  BY <1>12, SMT DEF Unwind
<1>13. CASE UnwindJoin(p)
  BY <1>13, SMT DEF UnwindJoin, Abandon, release, CloseLock
<1>14. CASE Ready(p)
  BY <1>14, SMT DEF Ready
<1>15. CASE StopNotify(p)
  BY <1>15, SMT DEF StopNotify
<1>16. CASE StopServer(p)
  BY <1>16, SMT DEF StopServer
<1>17. CASE JoinHandlers(p)
  BY <1>17, SMT DEF JoinHandlers
<1>18. CASE JoinWorkers(p)
  BY <1>18, SMT DEF JoinWorkers
<1>19. CASE Release(p)
  BY <1>19, SMT DEF Release, release, CloseLock
<1>20. CASE WatchdogExit(p)
  BY <1>20, SMT DEF WatchdogExit
<1>21. CASE TakeConnection(p) \/ Dispatch(p) \/ HandlerExit(p)
  BY <1>21, SMT DEF TakeConnection, Dispatch, HandlerExit, HGoto
<1>22. CASE NextSequence(p) \/ RecordIntent(p)
  BY <1>22, SMT DEF NextSequence, RecordIntent, Fault, HGoto
<1>23. CASE BeginMove(p) \/ EndMove(p)
  BY <1>23, SMT DEF BeginMove, EndMove
<1> QED
  BY <1>1, <1>2, <1>3, <1>4, <1>5, <1>6, <1>7, <1>8, <1>9, <1>10, <1>11,
     <1>12, <1>13, <1>14, <1>15, <1>16, <1>17, <1>18, <1>19, <1>20, <1>21,
     <1>22, <1>23 DEF Step, MainStep, HandlerStep

(* What a process that is gone leaves: nothing of its own, and everything of *)
(* the others.                                                               *)
LEMMA GoneIs ==
  ASSUME TypeOK, Flags, NEW p \in Procs, Gone(p)
  PROVE  /\ pc'[p] = "down" /\ manager'[p] = "none" /\ server'[p] = "closed"
         /\ hpc'[p] = "none" /\ ~busy'[p]
         /\ ~storeOpen'[p] /\ ~subscribed'[p] /\ ~dispatch'[p]
         /\ db' = db
         /\ \A q \in Procs \ {p} :
              /\ pc'[q] = pc[q] /\ manager'[q] = manager[q]
              /\ server'[q] = server[q] /\ hpc'[q] = hpc[q]
              /\ busy'[q] = busy[q] /\ storeOpen'[q] = storeOpen[q]
              /\ subscribed'[q] = subscribed[q] /\ dispatch'[q] = dispatch[q]
<1>1. /\ pc'[p] = "down" /\ manager'[p] = "none" /\ server'[p] = "closed"
      /\ hpc'[p] = "none" /\ db' = db
      /\ \A q \in Procs \ {p} :
           /\ pc'[q] = pc[q] /\ manager'[q] = manager[q]
           /\ server'[q] = server[q] /\ hpc'[q] = hpc[q]
  BY SMT DEF TypeOK, Gone, Goto, durable
<1>2. /\ ~busy'[p] /\ ~storeOpen'[p] /\ ~subscribed'[p] /\ ~dispatch'[p]
      /\ \A q \in Procs \ {p} :
           /\ busy'[q] = busy[q] /\ storeOpen'[q] = storeOpen[q]
           /\ subscribed'[q] = subscribed[q] /\ dispatch'[q] = dispatch[q]
  BY SMT DEF Flags, Gone
<1> QED
  BY <1>1, <1>2

(* Every step keeps the account of the store and the pool.  *)
LEMMA StoreStep ==
  ASSUME TypeOK, Flags, StoreInv, NEW p \in Procs, Step(p)
  PROVE  StoreInv'
<1>g. Gone(p) => StoreInv'
  <2> SUFFICES ASSUME Gone(p) PROVE StoreInv'
    OBVIOUS
  <2>1. "down" \notin Locked \cup {"unwindJoin", "spawn", "open"}
    BY DEF Locked, Opened, Pool, Up
  <2> QED
    BY <2>1, GoneIs, SMT DEF StoreInv, Locked, Opened
<1> USE ServiceAssumption DEF Goto, TypeOK, Flags, StoreInv, Locked, Opened,
    Pool, Up, lock, signal, object, threads, notice, durable, budget
<1>1. CASE Launch(p) \/ StartAgain(p) \/ InstallHandlers(p) \/ BlockSignals(p)
           \/ TestFlag(p) \/ Suspend(p)
  <2>1. CASE Launch(p)
    BY <2>1, SMT DEF Launch
  <2>2. CASE StartAgain(p)
    BY <2>2, SMT DEF StartAgain
  <2>3. CASE InstallHandlers(p) \/ BlockSignals(p)
    BY <2>3, SMT DEF InstallHandlers, BlockSignals
  <2>4. CASE TestFlag(p)
    BY <2>4, SMT DEF TestFlag
  <2>5. CASE Suspend(p) /\ pending[p]
    BY <2>5, SMT DEF Suspend
  <2>6. CASE Suspend(p) /\ ~pending[p]
    BY <2>6, SMT DEF Suspend
  <2> QED
    BY <1>1, <2>1, <2>2, <2>3, <2>4, <2>5, <2>6
<1>2. CASE Crash(p) \/ Exit(p)
  <2>1. Gone(p)
    BY <1>2 DEF Crash, Exit
  <2> QED
    BY <1>g, <2>1
<1>3. CASE Signal(p)
  <2>1. CASE pc[p] = "load" /\ Gone(p)
    BY <1>g, <2>1
  <2>2. CASE pc[p] # "load"
    BY <1>3, <2>2, SMTT(30) DEF Signal
  <2> QED
    BY <1>3, <2>1, <2>2 DEF Signal
<1>4. CASE OpenLockFile(p)
  BY <1>4, SMT DEF OpenLockFile, Fault
<1>5. CASE Flock(p)
  BY <1>5, SMT DEF Flock, CloseLock
<1>6. CASE Subscribe(p)
  BY <1>6, SMT DEF Subscribe, release, CloseLock
<1>7. CASE OpenStore(p)
  BY <1>7, SMT DEF OpenStore, Abandon, release, CloseLock, Fault
<1>8. CASE ReadVersion(p)
  BY <1>8, SMT DEF ReadVersion, Abandon, release, CloseLock, Fault
<1>9. CASE CreateSchema(p)
  BY <1>9, SMT DEF CreateSchema, Abandon, release, CloseLock, Fault
<1>10. CASE SpawnWorkers(p)
  BY <1>10, SMT DEF SpawnWorkers
<1>11. CASE Listen(p)
  BY <1>11, SMT DEF Listen, Fault
<1>12. CASE Unwind(p)
  BY <1>12, SMT DEF Unwind
<1>13. CASE UnwindJoin(p)
  BY <1>13, SMT DEF UnwindJoin, Abandon, release, CloseLock
<1>14. CASE Ready(p)
  BY <1>14, SMT DEF Ready
<1>15. CASE StopNotify(p)
  BY <1>15, SMT DEF StopNotify
<1>16. CASE StopServer(p)
  BY <1>16, SMT DEF StopServer
<1>17. CASE JoinHandlers(p)
  BY <1>17, SMT DEF JoinHandlers
<1>18. CASE JoinWorkers(p)
  BY <1>18, SMT DEF JoinWorkers
<1>19. CASE Release(p)
  BY <1>19, SMT DEF Release, release, CloseLock
<1>20. CASE WatchdogExit(p)
  BY <1>20 DEF WatchdogExit
<1>21. CASE TakeConnection(p) \/ Dispatch(p) \/ HandlerExit(p)
  BY <1>21, SMT DEF TakeConnection, Dispatch, HandlerExit, HGoto
<1>22. CASE NextSequence(p) \/ RecordIntent(p)
  BY <1>22, SMT DEF NextSequence, RecordIntent, Fault, HGoto
<1>23. CASE BeginMove(p) \/ EndMove(p)
  BY <1>23, SMT DEF BeginMove, EndMove
<1> QED
  BY <1>1, <1>2, <1>3, <1>4, <1>5, <1>6, <1>7, <1>8, <1>9, <1>10, <1>11,
     <1>12, <1>13, <1>14, <1>15, <1>16, <1>17, <1>18, <1>19, <1>20, <1>21,
     <1>22, <1>23 DEF Step, MainStep, HandlerStep

(* Every step keeps the account of the handlers and workers.  *)
LEMMA ThreadStep ==
  ASSUME TypeOK, Flags, StoreInv, ThreadInv, NEW p \in Procs, Step(p)
  PROVE  ThreadInv'
<1>g. Gone(p) => ThreadInv'
  <2> SUFFICES ASSUME Gone(p) PROVE ThreadInv'
    OBVIOUS
  <2>1. "down" \notin Up
    BY DEF Up
  <2> QED
    BY <2>1, GoneIs, SMT DEF ThreadInv
<1> USE ServiceAssumption DEF Goto, TypeOK, Flags, StoreInv, ThreadInv,
    Opened, Pool, Up, lock, signal, object, threads, notice, durable, budget
<1>1. CASE Launch(p) \/ StartAgain(p) \/ InstallHandlers(p) \/ BlockSignals(p)
           \/ TestFlag(p) \/ Suspend(p)
  <2>1. CASE Launch(p)
    BY <2>1, SMT DEF Launch
  <2>2. CASE StartAgain(p)
    BY <2>2, SMT DEF StartAgain
  <2>3. CASE InstallHandlers(p) \/ BlockSignals(p)
    BY <2>3, SMT DEF InstallHandlers, BlockSignals
  <2>4. CASE TestFlag(p)
    BY <2>4, SMT DEF TestFlag
  <2>5. CASE Suspend(p) /\ pending[p]
    BY <2>5, SMT DEF Suspend
  <2>6. CASE Suspend(p) /\ ~pending[p]
    BY <2>6, SMT DEF Suspend
  <2> QED
    BY <1>1, <2>1, <2>2, <2>3, <2>4, <2>5, <2>6
<1>2. CASE Crash(p) \/ Exit(p)
  <2>1. Gone(p)
    BY <1>2 DEF Crash, Exit
  <2> QED
    BY <1>g, <2>1
<1>3. CASE Signal(p)
  <2>1. CASE pc[p] = "load" /\ Gone(p)
    BY <1>g, <2>1
  <2>2. CASE pc[p] # "load"
    BY <1>3, <2>2, SMT DEF Signal
  <2> QED
    BY <1>3, <2>1, <2>2 DEF Signal
<1>4. CASE OpenLockFile(p)
  BY <1>4, SMT DEF OpenLockFile, Fault
<1>5. CASE Flock(p)
  BY <1>5, SMT DEF Flock, CloseLock
<1>6. CASE Subscribe(p)
  BY <1>6, SMT DEF Subscribe, release, CloseLock
<1>7. CASE OpenStore(p)
  BY <1>7, SMT DEF OpenStore, Abandon, release, CloseLock, Fault
<1>8. CASE ReadVersion(p)
  BY <1>8, SMTT(30) DEF ReadVersion, Abandon, release, CloseLock, Fault
<1>9. CASE CreateSchema(p)
  BY <1>9, SMT DEF CreateSchema, Abandon, release, CloseLock, Fault
<1>10. CASE SpawnWorkers(p)
  BY <1>10, SMT DEF SpawnWorkers
<1>11. CASE Listen(p)
  BY <1>11, SMT DEF Listen, Fault
<1>12. CASE Unwind(p)
  BY <1>12, SMT DEF Unwind
<1>13. CASE UnwindJoin(p)
  BY <1>13, SMT DEF UnwindJoin, Abandon, release, CloseLock
<1>14. CASE Ready(p)
  BY <1>14, SMT DEF Ready
<1>15. CASE StopNotify(p)
  BY <1>15, SMT DEF StopNotify
<1>16. CASE StopServer(p)
  BY <1>16, SMT DEF StopServer
<1>17. CASE JoinHandlers(p)
  BY <1>17, SMT DEF JoinHandlers
<1>18. CASE JoinWorkers(p)
  BY <1>18, SMT DEF JoinWorkers
<1>19. CASE Release(p)
  BY <1>19, SMT DEF Release, release, CloseLock
<1>20. CASE WatchdogExit(p)
  BY <1>20 DEF WatchdogExit
<1>21. CASE TakeConnection(p) \/ Dispatch(p) \/ HandlerExit(p)
  BY <1>21, SMT DEF TakeConnection, Dispatch, HandlerExit, HGoto
<1>22. CASE NextSequence(p) \/ RecordIntent(p)
  BY <1>22, SMT DEF NextSequence, RecordIntent, Fault, HGoto
<1>23. CASE BeginMove(p) \/ EndMove(p)
  BY <1>23, SMT DEF BeginMove, EndMove
<1> QED
  BY <1>1, <1>2, <1>3, <1>4, <1>5, <1>6, <1>7, <1>8, <1>9, <1>10, <1>11,
     <1>12, <1>13, <1>14, <1>15, <1>16, <1>17, <1>18, <1>19, <1>20, <1>21,
     <1>22, <1>23 DEF Step, MainStep, HandlerStep

(* Every step keeps the account of the notifications.  *)
LEMMA NoticeStep ==
  ASSUME TypeOK, Flags, NoticeInv, NEW p \in Procs, Step(p)
  PROVE  NoticeInv'
<1> USE ServiceAssumption DEF Goto, TypeOK, Flags, NoticeInv, Told, lock,
    signal, object, threads, notice, durable, budget
<1>1. CASE Launch(p) \/ StartAgain(p) \/ InstallHandlers(p) \/ BlockSignals(p)
           \/ TestFlag(p) \/ Suspend(p)
  <2>1. CASE Launch(p)
    BY <2>1, SMT DEF Launch
  <2>2. CASE StartAgain(p)
    BY <2>2, SMT DEF StartAgain
  <2>3. CASE InstallHandlers(p) \/ BlockSignals(p)
    BY <2>3, SMT DEF InstallHandlers, BlockSignals
  <2>4. CASE TestFlag(p)
    BY <2>4, SMT DEF TestFlag
  <2>5. CASE Suspend(p) /\ pending[p]
    BY <2>5, SMT DEF Suspend
  <2>6. CASE Suspend(p) /\ ~pending[p]
    BY <2>6, SMT DEF Suspend
  <2> QED
    BY <1>1, <2>1, <2>2, <2>3, <2>4, <2>5, <2>6
<1>2. CASE Crash(p) \/ Exit(p)
  <2>1. Gone(p)
    BY <1>2 DEF Crash, Exit
  <2> QED
    BY <2>1, SMT DEF Gone, CloseLock
<1>3. CASE Signal(p)
  <2>1. CASE pc[p] = "load" /\ Gone(p)
    BY <2>1, SMT DEF Gone, CloseLock
  <2>2. CASE pc[p] # "load"
    BY <1>3, <2>2, SMT DEF Signal
  <2> QED
    BY <1>3, <2>1, <2>2 DEF Signal
<1>4. CASE OpenLockFile(p)
  BY <1>4, SMT DEF OpenLockFile, Fault
<1>5. CASE Flock(p)
  BY <1>5, SMT DEF Flock, CloseLock
<1>6. CASE Subscribe(p)
  BY <1>6, SMT DEF Subscribe, release, CloseLock
<1>7. CASE OpenStore(p)
  BY <1>7, SMT DEF OpenStore, Abandon, release, CloseLock, Fault
<1>8. CASE ReadVersion(p)
  BY <1>8, SMT DEF ReadVersion, Abandon, release, CloseLock, Fault
<1>9. CASE CreateSchema(p)
  BY <1>9, SMT DEF CreateSchema, Abandon, release, CloseLock, Fault
<1>10. CASE SpawnWorkers(p)
  BY <1>10, SMT DEF SpawnWorkers
<1>11. CASE Listen(p)
  BY <1>11, SMT DEF Listen, Fault
<1>12. CASE Unwind(p)
  BY <1>12, SMT DEF Unwind
<1>13. CASE UnwindJoin(p)
  BY <1>13, SMT DEF UnwindJoin, Abandon, release, CloseLock
<1>14. CASE Ready(p)
  BY <1>14, SMT DEF Ready
<1>15. CASE StopNotify(p)
  BY <1>15, SMT DEF StopNotify
<1>16. CASE StopServer(p)
  BY <1>16, SMT DEF StopServer
<1>17. CASE JoinHandlers(p)
  BY <1>17, SMT DEF JoinHandlers
<1>18. CASE JoinWorkers(p)
  BY <1>18, SMT DEF JoinWorkers
<1>19. CASE Release(p)
  BY <1>19, SMT DEF Release, release, CloseLock
<1>20. CASE WatchdogExit(p)
  BY <1>20, SMT DEF WatchdogExit
<1>21. CASE TakeConnection(p) \/ Dispatch(p) \/ HandlerExit(p)
  BY <1>21, SMT DEF TakeConnection, Dispatch, HandlerExit, HGoto
<1>22. CASE NextSequence(p) \/ RecordIntent(p)
  BY <1>22, SMT DEF NextSequence, RecordIntent, Fault, HGoto
<1>23. CASE BeginMove(p) \/ EndMove(p)
  BY <1>23, SMT DEF BeginMove, EndMove
<1> QED
  BY <1>1, <1>2, <1>3, <1>4, <1>5, <1>6, <1>7, <1>8, <1>9, <1>10, <1>11,
     <1>12, <1>13, <1>14, <1>15, <1>16, <1>17, <1>18, <1>19, <1>20, <1>21,
     <1>22, <1>23 DEF Step, MainStep, HandlerStep

-----------------------------------------------------------------------------

(* The account of each place is an invariant.  *)
THEOREM ServiceInvAlways == Spec => []ServiceInv
<1>1. ServiceInv /\ [Next]_vars => ServiceInv'
  <2> SUFFICES ASSUME ServiceInv, [Next]_vars PROVE ServiceInv'
    OBVIOUS
  <2>1. CASE Next
    <3>1. PICK p \in Procs : Step(p)
      BY <2>1 DEF Next, Step
    <3> QED
      BY <3>1, ShapeStep, FlagsStep, LockStep, StoreStep, ThreadStep,
         NoticeStep DEF ServiceInv
  <2>2. CASE UNCHANGED vars
    BY <2>2, SMTT(30) DEF vars, lock, signal, object, threads, notice, durable,
       ServiceInv, TypeOK, Flags, LockInv, StoreInv, ThreadInv, NoticeInv
  <2> QED
    BY <2>1, <2>2
<1> QED
  BY InitInv, <1>1, PTL DEF Spec

(* Two processes never have the store open at once, for any number of        *)
(* processes, crashes, failing calls and restarts: whoever has it open holds *)
(* the flock of the one lock file, which release() never removes             *)
(* (singleton.cpp:61-137, service.cpp:316-462).                              *)
THEOREM OneInstanceAlways == Spec => []OneInstance
<1>1. ServiceInv => OneInstance
  <2> SUFFICES ASSUME ServiceInv, NEW p \in Procs, NEW q \in Procs,
                      storeOpen[p], storeOpen[q]
               PROVE  p = q
    BY DEF OneInstance
  <2>1. pc[p] \in Locked /\ pc[q] \in Locked
    BY DEF ServiceInv, StoreInv, Locked
  <2>2. lockFile \in Inodes
    BY <2>1 DEF ServiceInv, TypeOK, LockInv
  <2> QED
    BY <2>1, <2>2, SMT DEF ServiceInv, LockInv
<1> QED
  BY ServiceInvAlways, <1>1, PTL

(* A connection that reached a handler is answered by a running manager:     *)
(* stop() joins the handlers before it clears g_dispatch and shuts the       *)
(* manager down (service.cpp:366, 441).                                      *)
THEOREM ServedByManagerAlways == Spec => []ServedByManager
<1>1. ServiceInv => ServedByManager
  BY DEF ServiceInv, TypeOK, StoreInv, ThreadInv, ServedByManager, Pool
<1> QED
  BY ServiceInvAlways, <1>1, PTL

(* A service that is not running holds nothing, whichever step of start()    *)
(* failed (service.cpp:329-384, 416-462).                                    *)
THEOREM IdleIsCleanAlways == Spec => []IdleIsClean
<1>1. ServiceInv => IdleIsClean
  <2> SUFFICES ASSUME ServiceInv, NEW p \in Procs, pc[p] = "idle"
               PROVE  /\ fd[p] = 0 /\ \A i \in Inodes : holder[i] # p
                      /\ ~subscribed[p] /\ ~storeOpen[p] /\ ~dispatch[p]
                      /\ manager[p] = "none" /\ server[p] = "closed"
                      /\ hpc[p] = "none" /\ ~busy[p] /\ ~watchdog[p]
    BY DEF IdleIsClean
  <2> USE DEF ServiceInv, Locked, Opened, Pool, Up
  <2>1. fd[p] = 0 /\ \A i \in Inodes : holder[i] # p
    BY DEF LockInv
  <2>2. ~subscribed[p] /\ ~storeOpen[p] /\ ~dispatch[p] /\ manager[p] = "none"
    BY DEF StoreInv
  <2>3. server[p] = "closed" /\ hpc[p] = "none" /\ ~busy[p]
    BY DEF TypeOK, ThreadInv
  <2>4. ~watchdog[p]
    BY DEF NoticeInv, Told
  <2> QED
    BY <2>1, <2>2, <2>3, <2>4
<1> QED
  BY ServiceInvAlways, <1>1, PTL

(* While READY=1 is the last word to the service manager the daemon serves,  *)
(* and pings if it was asked to (service.cpp:388-400, 428).                  *)
THEOREM ReadyMeansServingAlways == Spec => []ReadyMeansServing
<1>1. ServiceInv => ReadyMeansServing
  <2> SUFFICES ASSUME ServiceInv, NEW p \in Procs, told[p] = "READY"
               PROVE  /\ server[p] = "accepting" /\ manager[p] = "running"
                      /\ watched[p] => watchdog[p] /\ ~watchdog_stop[p]
    BY DEF ReadyMeansServing
  <2>1. pc[p] \in Told
    BY DEF ServiceInv, NoticeInv
  <2>2. server[p] = "accepting" /\ manager[p] = "running"
    BY <2>1 DEF ServiceInv, StoreInv, ThreadInv, Told, Pool, Up
  <2>3. watched[p] => watchdog[p] /\ ~watchdog_stop[p]
    BY <2>1 DEF ServiceInv, NoticeInv
  <2> QED
    BY <2>2, <2>3
<1> QED
  BY ServiceInvAlways, <1>1, PTL

(* The pool never runs on a database without its schema: a store left        *)
(* without one by a crash is given it, and one of another build is refused   *)
(* (store.cpp:333-376).                                                      *)
THEOREM RunsOnSchemaAlways == Spec => []RunsOnSchema
<1>1. ServiceInv => RunsOnSchema
  BY DEF ServiceInv, StoreInv, RunsOnSchema, Pool, Opened
<1> QED
  BY ServiceInvAlways, <1>1, PTL

(* An identifier names one submission for ever, whatever the width of the    *)
(* integer the sequence is read through: record_intent() refuses a duplicate *)
(* (store.cpp:396-441, 885-920).                                             *)
THEOREM IdNamesOneJobAlways == Spec => IdNamesOneJob
<1>1. ServiceInv /\ [Next]_vars =>
        [\A i \in Ids : rows[i] # 0 => rows'[i] = rows[i]]_vars
  <2> SUFFICES ASSUME ServiceInv, Next, NEW i \in Ids, rows[i] # 0
               PROVE  rows'[i] = rows[i]
    OBVIOUS
  <2>1. PICK p \in Procs : Step(p)
    BY DEF Next, Step
  <2>2. CASE RecordIntent(p)
    BY <2>2 DEF RecordIntent, ServiceInv, TypeOK
  <2>3. CASE ~RecordIntent(p)
    <3>1. UNCHANGED rows
      BY <2>1, <2>3 DEF Step, MainStep, HandlerStep, Launch, Crash,
         Exit, Signal, Gone, StartAgain, InstallHandlers, BlockSignals,
         TestFlag, Suspend, OpenLockFile, Flock, Subscribe, OpenStore,
         ReadVersion, CreateSchema, SpawnWorkers, Listen, Unwind, UnwindJoin,
         Ready, StopNotify, StopServer, JoinHandlers, JoinWorkers, Release,
         WatchdogExit, TakeConnection, Dispatch, NextSequence, HandlerExit,
         BeginMove, EndMove, durable
    <3> QED
      BY <3>1
  <2> QED
    BY <2>2, <2>3
<1> QED
  BY ServiceInvAlways, <1>1, PTL DEF Spec, IdNamesOneJob
=============================================================================
