-------------------------- MODULE MoveEngineProofs --------------------------
(***************************************************************************)
(* Proofs about MoveEngine, and about PowerLoss, which adds power losses   *)
(* to it, for any number of jobs, names, objects, faults, crashes,         *)
(* removals and losses.                                                    *)
(***************************************************************************)
EXTENDS PowerLoss, TLAPS

(* Zenon is the default; a leaf that it does not find says SMT.  *)
USE Zenon

(* Labels at which the object has already been given its staging name.  *)
PastCommit == {"unlink", "finish", "recordMoved", "probe", "probeFinal",
               "publish", "syncDir", "recordDone", "relink", "reunlink"}

(* What ties the label of a thread, the record and the disk of one job.  *)
JobInv(j) ==
  /\ staged[j] # NoObject => moved[j] # NoObject
  /\ published[j] # NoObject => moved[j] # NoObject
  /\ final[FinalOf[j]] # NoObject => published[j] # NoObject
  /\ record[j] \in {"ABSENT", "QUEUED"} => moved[j] = NoObject
  /\ record[j] = "RENAMING" => published[j] = NoObject
  /\ record[j] = "TRANSFERRING" => moved[j] # NoObject
  /\ record[j] = "DONE" => published[j] # NoObject
  /\ pc[j] = "recordRenaming" => record[j] = "QUEUED"
  /\ pc[j] = "commit" => record[j] \in {"RENAMING", "TRANSFERRING"}
  /\ pc[j] \in PastCommit => moved[j] # NoObject
  /\ pc[j] = "recordMoved" => record[j] = "RENAMING"
  /\ pc[j] \in {"probe", "probeFinal", "publish", "syncDir", "recordDone"}
       => record[j] = "TRANSFERRING"
  /\ pc[j] \in {"syncDir", "recordDone"} => published[j] # NoObject

LagInv == TypeOK /\ \A j \in Jobs : JobInv(j)

(* Before any arrival: the object of a job holds one of the two new names *)
(* at a time, and once published no source name.                             *)
HeldInv(j) ==
  /\ staged[j] # NoObject => staged[j] = moved[j] /\ published[j] = NoObject
  /\ published[j] # NoObject =>
       /\ published[j] = moved[j]
       /\ moved[j] \in removed \/ final[FinalOf[j]] = moved[j]
       /\ source[SourceOf[j]] = NoObject

(* The steps at which the source name is known to be free.  *)
SourceGone == {"finish", "recordMoved", "probe", "probeFinal", "publish",
               "syncDir", "recordDone", "bothMissing", "failExternal"}

GoneInv(j) ==
  /\ record[j] = "TRANSFERRING" => source[SourceOf[j]] = NoObject
  /\ pc[j] \in SourceGone => source[SourceOf[j]] = NoObject
  /\ pc[j] \in {"unlink", "reunlink"} /\ source[SourceOf[j]] # NoObject
       => staged[j] = source[SourceOf[j]] \/ source[SourceOf[j]] \in removed

NameInv(j) == HeldInv(j) /\ GoneInv(j)

Kept == \A o \in born \ removed : Named(o)

CalmInv == Kept /\ \A j \in Jobs : NameInv(j)

SafeInv == LagInv /\ (arrivals = 0 => CalmInv)

(* The part of the types that reasoning about one job needs.  *)
Shape ==
  /\ SourceOf \in [Jobs -> Sources] /\ FinalOf \in [Jobs -> Finals]
  /\ source \in [Sources -> Slot]
  /\ staged \in [Jobs -> Slot]
  /\ final \in [Finals -> Slot]
  /\ record \in [Jobs -> RowState]
  /\ pc \in [Jobs -> Label]
  /\ moved \in [Jobs -> Slot]
  /\ published \in [Jobs -> Slot]

(* The state after the step, in the vocabulary the provers need.  *)
USE DEF names, rows, control, history, budget, vars

LEMMA TypeShape == TypeOK => Shape
  BY EngineAssumption DEF TypeOK, Shape

-----------------------------------------------------------------------------
(* Type correctness of every step.  *)

LEMMA TypeInit == Init => TypeOK
  BY EngineAssumption, SMT DEF Init, TypeOK, Slot, RowState, JobState, Label,
     MoveOutcome

LEMMA AttentionType ==
  ASSUME NEW j \in Jobs, attention \in [Jobs -> BOOLEAN],
         mark_needs_attention(j)
  PROVE  attention' \in [Jobs -> BOOLEAN]
  BY DEF mark_needs_attention

LEMMA TypeStep == TypeOK /\ [Next]_vars => TypeOK'
<1>0. SUFFICES ASSUME TypeOK, [Next]_vars PROVE TypeOK'
  OBVIOUS
<1>1. TypeOK /\ SourceOf \in [Jobs -> Sources] /\ FinalOf \in [Jobs -> Finals]
  BY <1>0, EngineAssumption
<1>2. /\ MaxFaults \in Nat /\ MaxCrashes \in Nat
      /\ MaxRemovals \in Nat /\ MaxArrivals \in Nat
      /\ MaxProbeFaults \in Nat
  BY EngineAssumption
<1>. USE DEF TypeOK, Slot, RowState, JobState, Label, MoveOutcome
<1>RecordIntent. ASSUME NEW j \in Jobs, RecordIntent(j) PROVE TypeOK'
  BY <1>1, <1>2, <1>RecordIntent DEF RecordIntent
<1>Execute. ASSUME NEW j \in Jobs, Execute(j) PROVE TypeOK'
  BY <1>1, <1>2, <1>Execute DEF Execute
<1>Recover. ASSUME NEW j \in Jobs, Recover(j) PROVE TypeOK'
  BY <1>1, <1>2, <1>Recover, SMT DEF Recover, RecoverBranch,
     classify_move_state, Return, Fault
<1>Validate. ASSUME NEW j \in Jobs, Validate(j) PROVE TypeOK'
  BY <1>1, <1>2, <1>Validate, SMT DEF Validate, Goto, Return, Fault
<1>RecordRenaming. ASSUME NEW j \in Jobs, RecordRenaming(j) PROVE TypeOK'
  BY <1>1, <1>2, <1>RecordRenaming, SMT DEF RecordRenaming, Goto, Return,
     Fault, update_state, is_legal_transition
<1>Commit. ASSUME NEW j \in Jobs, Commit(j) PROVE TypeOK'
  BY <1>1, <1>2, <1>Commit, SMT DEF Commit, Stage, DropSource, CannotStage,
     Goto, Return, Fault
<1>Unlink. ASSUME NEW j \in Jobs, Unlink(j) PROVE TypeOK'
  BY <1>1, <1>2, <1>Unlink, SMT DEF Unlink, DropSource, Goto, Return, Fault
<1>Finish. ASSUME NEW j \in Jobs, Finish(j) PROVE TypeOK'
  BY <1>1, <1>2, <1>Finish, SMT DEF Finish, Goto, Return, Fault
<1>RecordMoved. ASSUME NEW j \in Jobs, RecordMoved(j) PROVE TypeOK'
  <2>1. /\ faults' \in 0..MaxFaults
        /\ UNCHANGED <<probes, crashes, removals, arrivals, names, history>>
    BY <1>1, <1>2, <1>RecordMoved, SMT DEF RecordMoved, Halt, Fault
  <2>2. attention' \in [Jobs -> BOOLEAN]
    BY <1>1, <1>RecordMoved, AttentionType DEF RecordMoved, Halt
  <2>3. /\ record' \in [Jobs -> RowState]
        /\ pc' \in [Jobs -> Label]
        /\ outcome' \in [Jobs -> MoveOutcome \cup {"none"}]
    BY <1>1, <1>RecordMoved, SMT DEF RecordMoved, Halt, Goto, Return,
       update_state
  <2>. QED
    BY <1>1, <2>1, <2>2, <2>3
<1>Probe. ASSUME NEW j \in Jobs, Probe(j) PROVE TypeOK'
  BY <1>1, <1>2, <1>Probe, AttentionType, SMT DEF Probe, Goto, Return,
     ProbeFault, Fault, Halt
<1>ProbeFinal. ASSUME NEW j \in Jobs, ProbeFinal(j) PROVE TypeOK'
  BY <1>1, <1>2, <1>ProbeFinal, AttentionType, SMT DEF ProbeFinal, Goto,
     Return, Halt, ProbeFault, Fault
<1>Publish. ASSUME NEW j \in Jobs, Publish(j) PROVE TypeOK'
  <2>1. /\ faults' \in 0..MaxFaults
        /\ UNCHANGED <<probes, crashes, removals, arrivals, record, born,
                       removed>>
    BY <1>1, <1>2, <1>Publish, SMT DEF Publish, RenameToFinal, Fault
  <2>2. attention' \in [Jobs -> BOOLEAN]
    BY <1>1, <1>Publish, AttentionType DEF Publish
  <2>3. /\ pc' \in [Jobs -> Label]
        /\ outcome' \in [Jobs -> MoveOutcome \cup {"none"}]
    BY <1>1, <1>Publish DEF Publish, Goto, Return
  <2>4. /\ source' \in [Sources -> Slot] /\ staged' \in [Jobs -> Slot]
        /\ final' \in [Finals -> Slot] /\ moved' \in [Jobs -> Slot]
        /\ published' \in [Jobs -> Slot]
    BY <1>1, <1>Publish, SMT DEF Publish, RenameToFinal
  <2>. QED
    BY <1>1, <2>1, <2>2, <2>3, <2>4
<1>SyncDir. ASSUME NEW j \in Jobs, SyncDir(j) PROVE TypeOK'
  BY <1>1, <1>2, <1>SyncDir, AttentionType, SMT DEF SyncDir, Goto, Return,
     Halt, Fault
<1>RecordDone. ASSUME NEW j \in Jobs, RecordDone(j) PROVE TypeOK'
  <2>1. /\ faults' \in 0..MaxFaults
        /\ UNCHANGED <<probes, crashes, removals, arrivals, names, history>>
    BY <1>1, <1>2, <1>RecordDone, SMT DEF RecordDone, Halt, Fault
  <2>2. attention' \in [Jobs -> BOOLEAN]
    BY <1>1, <1>RecordDone, AttentionType DEF RecordDone, Halt
  <2>3. /\ record' \in [Jobs -> RowState]
        /\ pc' \in [Jobs -> Label]
        /\ outcome' \in [Jobs -> MoveOutcome \cup {"none"}]
    BY <1>1, <1>RecordDone, SMT DEF RecordDone, Halt, Return, update_state
  <2>. QED
    BY <1>1, <2>1, <2>2, <2>3
<1>Relink. ASSUME NEW j \in Jobs, Relink(j) PROVE TypeOK'
  BY <1>1, <1>2, <1>Relink, AttentionType, SMT DEF Relink, Stage, CannotStage,
     Goto, Return, Fault
<1>Reunlink. ASSUME NEW j \in Jobs, Reunlink(j) PROVE TypeOK'
  BY <1>1, <1>2, <1>Reunlink, AttentionType, SMT DEF Reunlink, DropSource,
     Goto, Return, Fault
<1>Collision. ASSUME NEW j \in Jobs, Collision(j) PROVE TypeOK'
  BY <1>1, <1>2, <1>Collision, SMT DEF Collision, TryFail, Return, Fault,
     update_state, is_legal_transition
<1>BothMissing. ASSUME NEW j \in Jobs, BothMissing(j) PROVE TypeOK'
  BY <1>1, <1>2, <1>BothMissing, SMT DEF BothMissing, Goto, ProbeFault, Fault
<1>FailExternal. ASSUME NEW j \in Jobs, FailExternal(j) PROVE TypeOK'
  BY <1>1, <1>2, <1>FailExternal, SMT DEF FailExternal, TryFail, Return,
     Fault, update_state, is_legal_transition
<1>Crash. ASSUME Crash PROVE TypeOK'
  BY <1>1, <1>2, <1>Crash, SMT DEF Crash
<1>RemoveSource. ASSUME NEW s \in Sources, RemoveSource(s) PROVE TypeOK'
  BY <1>1, <1>2, <1>RemoveSource, SMT DEF RemoveSource, Removal
<1>RemoveStaged. ASSUME NEW j \in Jobs, RemoveStaged(j) PROVE TypeOK'
  BY <1>1, <1>2, <1>RemoveStaged, SMT DEF RemoveStaged, Removal
<1>RemoveFinal. ASSUME NEW f \in Finals, RemoveFinal(f) PROVE TypeOK'
  BY <1>1, <1>2, <1>RemoveFinal, SMT DEF RemoveFinal, Removal
<1>Arrive. ASSUME NEW s \in Sources, NEW o \in Objects, Arrive(s, o)
      PROVE  TypeOK'
  BY <1>1, <1>2, <1>Arrive, SMT DEF Arrive
<1>Stutter. CASE UNCHANGED vars
  BY <1>1, <1>2, <1>Stutter
<1>. QED
  BY <1>0, <1>RecordIntent, <1>Execute, <1>Recover, <1>Validate,
     <1>RecordRenaming, <1>Commit, <1>Unlink, <1>Finish, <1>RecordMoved,
     <1>Probe, <1>ProbeFinal, <1>Publish, <1>SyncDir, <1>RecordDone,
     <1>Relink, <1>Reunlink, <1>Collision, <1>BothMissing, <1>FailExternal,
     <1>Crash, <1>RemoveSource, <1>RemoveStaged, <1>RemoveFinal, <1>Arrive,
     <1>Stutter, ZenonT(30) DEF Next, EngineStep, Environment

(* Every variable keeps its type in every behaviour of the engine, its       *)
(* callers, crashes and the other programs that use the directories.         *)
THEOREM TypeCorrect == Spec => []TypeOK
  BY TypeInit, TypeStep, PTL DEF Spec

-----------------------------------------------------------------------------
(* The record and the disk.  *)

LEMMA LagInit == ExclusiveFinals /\ Init => LagInv
<1>. SUFFICES ASSUME ExclusiveFinals, Init PROVE LagInv
  OBVIOUS
<1>1. TypeOK
  BY TypeInit
<1>2. ASSUME NEW j \in Jobs PROVE JobInv(j)
  BY <1>2, EngineAssumption DEF Init, JobInv, PastCommit, ExclusiveFinals
<1>. QED
  BY <1>1, <1>2 DEF LagInv

LEMMA LagStep == ExclusiveFinals /\ LagInv /\ [Next]_vars => LagInv'
<1>0. SUFFICES ASSUME ExclusiveFinals, LagInv, [Next]_vars, NEW i \in Jobs
               PROVE  JobInv(i)'
  BY TypeStep DEF LagInv
<1>1. Shape /\ JobInv(i)
  BY <1>0, TypeShape DEF LagInv
<1>2. ExclusiveFinals
  BY <1>0
<1>. USE DEF Shape, JobInv, PastCommit
<1>RecordIntent. ASSUME NEW j \in Jobs, RecordIntent(j) PROVE JobInv(i)'
  BY <1>1, <1>RecordIntent DEF RecordIntent
<1>Execute. ASSUME NEW j \in Jobs, Execute(j) PROVE JobInv(i)'
  BY <1>1, <1>Execute DEF Execute
<1>Recover. ASSUME NEW j \in Jobs, Recover(j) PROVE JobInv(i)'
  BY <1>1, <1>Recover, SMT DEF Recover, RecoverBranch, classify_move_state,
     Return
<1>Validate. ASSUME NEW j \in Jobs, Validate(j) PROVE JobInv(i)'
  BY <1>1, <1>Validate, SMT DEF Validate, Goto, Return
<1>RecordRenaming. ASSUME NEW j \in Jobs, RecordRenaming(j) PROVE JobInv(i)'
  BY <1>1, <1>RecordRenaming, SMT DEF RecordRenaming, Goto, Return,
     update_state, is_legal_transition
<1>Commit. ASSUME NEW j \in Jobs, Commit(j) PROVE JobInv(i)'
  BY <1>1, <1>Commit, SMT DEF Commit, Stage, DropSource, CannotStage, Goto,
     Return
<1>Unlink. ASSUME NEW j \in Jobs, Unlink(j) PROVE JobInv(i)'
  BY <1>1, <1>Unlink, SMT DEF Unlink, DropSource, Goto, Return
<1>Finish. ASSUME NEW j \in Jobs, Finish(j) PROVE JobInv(i)'
  BY <1>1, <1>Finish, SMT DEF Finish, Goto, Return
<1>RecordMoved. ASSUME NEW j \in Jobs, RecordMoved(j) PROVE JobInv(i)'
  BY <1>1, <1>RecordMoved, SMT DEF RecordMoved, Goto, Return, Halt,
     update_state, is_legal_transition
<1>Probe. ASSUME NEW j \in Jobs, Probe(j) PROVE JobInv(i)'
  BY <1>1, <1>Probe, SMT DEF Probe, Goto, Return, Halt
<1>ProbeFinal. ASSUME NEW j \in Jobs, ProbeFinal(j) PROVE JobInv(i)'
  BY <1>1, <1>ProbeFinal, SMT DEF ProbeFinal, Goto, Return, Halt
<1>Publish. ASSUME NEW j \in Jobs, Publish(j) PROVE JobInv(i)'
  BY <1>1, <1>2, <1>Publish, SMT DEF Publish, RenameToFinal, Goto, Return,
     ExclusiveFinals
<1>SyncDir. ASSUME NEW j \in Jobs, SyncDir(j) PROVE JobInv(i)'
  BY <1>1, <1>SyncDir, SMT DEF SyncDir, Goto, Return, Halt
<1>RecordDone. ASSUME NEW j \in Jobs, RecordDone(j) PROVE JobInv(i)'
  BY <1>1, <1>RecordDone, SMT DEF RecordDone, Return, Halt, update_state,
     is_legal_transition
<1>Relink. ASSUME NEW j \in Jobs, Relink(j) PROVE JobInv(i)'
  BY <1>1, <1>Relink, SMT DEF Relink, Stage, CannotStage, Goto, Return
<1>Reunlink. ASSUME NEW j \in Jobs, Reunlink(j) PROVE JobInv(i)'
  BY <1>1, <1>Reunlink, SMT DEF Reunlink, DropSource, Goto, Return
<1>Collision. ASSUME NEW j \in Jobs, Collision(j) PROVE JobInv(i)'
  BY <1>1, <1>Collision, SMT DEF Collision, TryFail, Return, update_state,
     is_legal_transition
<1>BothMissing. ASSUME NEW j \in Jobs, BothMissing(j) PROVE JobInv(i)'
  BY <1>1, <1>BothMissing DEF BothMissing, Goto
<1>FailExternal. ASSUME NEW j \in Jobs, FailExternal(j) PROVE JobInv(i)'
  BY <1>1, <1>FailExternal, SMT DEF FailExternal, TryFail, Return,
     update_state, is_legal_transition
<1>Crash. ASSUME Crash PROVE JobInv(i)'
  BY <1>1, <1>Crash DEF Crash
<1>RemoveSource. ASSUME NEW s \in Sources, RemoveSource(s) PROVE JobInv(i)'
  BY <1>1, <1>RemoveSource DEF RemoveSource, Removal
<1>RemoveStaged. ASSUME NEW j \in Jobs, RemoveStaged(j) PROVE JobInv(i)'
  BY <1>1, <1>RemoveStaged DEF RemoveStaged, Removal
<1>RemoveFinal. ASSUME NEW f \in Finals, RemoveFinal(f) PROVE JobInv(i)'
  BY <1>1, <1>RemoveFinal DEF RemoveFinal, Removal
<1>Arrive. ASSUME NEW s \in Sources, NEW o \in Objects, Arrive(s, o)
      PROVE  JobInv(i)'
  BY <1>1, <1>Arrive DEF Arrive
<1>Stutter. CASE UNCHANGED vars
  BY <1>1, <1>Stutter
<1>. QED
  BY <1>0, <1>RecordIntent, <1>Execute, <1>Recover, <1>Validate,
     <1>RecordRenaming, <1>Commit, <1>Unlink, <1>Finish, <1>RecordMoved,
     <1>Probe, <1>ProbeFinal, <1>Publish, <1>SyncDir, <1>RecordDone,
     <1>Relink, <1>Reunlink, <1>Collision, <1>BothMissing, <1>FailExternal,
     <1>Crash, <1>RemoveSource, <1>RemoveStaged, <1>RemoveFinal, <1>Arrive,
     <1>Stutter DEF Next, EngineStep, Environment

(* The record never runs ahead of the disk and never lags it by more than    *)
(* one phase, for jobs that own their final names: phases 2, 4 and 6 of the  *)
(* engine alternate with the commit and the publication through every crash, *)
(* failing call, external removal and re-used source name.                   *)
THEOREM RecordLagsDiskAlways == ExclusiveFinals => (Spec => []RecordLagsDisk)
<1>. SUFFICES ASSUME ExclusiveFinals PROVE Spec => []RecordLagsDisk
  OBVIOUS
<1>1. Init => LagInv
  BY LagInit
<1>2. LagInv /\ [Next]_vars => LagInv'
  BY LagStep
<1>3. LagInv => RecordLagsDisk
  BY DEF LagInv, JobInv, RecordLagsDisk
<1>. QED
  BY <1>1, <1>2, <1>3, PTL DEF Spec

-----------------------------------------------------------------------------
(* needs_attention.  *)

AttentionInv == LagInv /\ AttentionIsPastCommit

LEMMA MarkedOne ==
  ASSUME NEW j \in Jobs, NEW i \in Jobs, attention \in [Jobs -> BOOLEAN],
         mark_needs_attention(j), attention'[i]
  PROVE  attention[i] \/ i = j
  BY DEF mark_needs_attention

LEMMA AttentionStep ==
  ExclusiveFinals /\ AttentionInv /\ [Next]_vars => AttentionInv'
<1>0. SUFFICES ASSUME ExclusiveFinals, AttentionInv, [Next]_vars,
                      NEW i \in Jobs, attention'[i]
               PROVE  moved'[i] # NoObject
  BY LagStep DEF AttentionInv, AttentionIsPastCommit
<1>t. /\ TypeOK
      /\ \A j \in Jobs : pc[j] \in PastCommit => moved[j] # NoObject
      /\ attention[i] => moved[i] # NoObject
  BY <1>0 DEF AttentionInv, AttentionIsPastCommit, LagInv, JobInv
<1>1. \/ UNCHANGED moved
      \/ \E j \in Jobs : Stage(j)
  <2>1. ASSUME NEW j \in Jobs, EngineStep(j)
        PROVE  UNCHANGED moved \/ Stage(j)
    BY <2>1 DEF EngineStep, RecordIntent, Execute, Recover, Validate,
       RecordRenaming, Commit, CannotStage, Unlink, Finish, RecordMoved, Halt,
       Probe, ProbeFinal, Publish, RenameToFinal, SyncDir, RecordDone, Relink,
       Reunlink, Collision, BothMissing, FailExternal
  <2>2. CASE Environment \/ UNCHANGED vars
    BY <2>2 DEF Environment, Crash, RemoveSource, RemoveStaged, RemoveFinal,
                Removal, Arrive
  <2>. QED
    BY <1>0, <2>1, <2>2 DEF Next, RecordIntent, Execute, Recover
<1>2. moved[i] # NoObject => moved'[i] # NoObject
  BY <1>1, <1>t DEF Stage, TypeOK, Slot
<1>3. \/ UNCHANGED attention
      \/ \E j \in Jobs : mark_needs_attention(j) /\ pc[j] \in PastCommit
  <2>1. ASSUME NEW j \in Jobs, EngineStep(j)
        PROVE  \/ UNCHANGED attention
               \/ mark_needs_attention(j) /\ pc[j] \in PastCommit
    BY <2>1 DEF EngineStep, RecordIntent, Execute, Recover, Validate,
       RecordRenaming, Commit, Unlink, Finish, RecordMoved, Halt, Probe,
       ProbeFinal, Publish, SyncDir, RecordDone, Relink, Reunlink, Collision,
       BothMissing, FailExternal, PastCommit
  <2>2. CASE Environment \/ UNCHANGED vars
    BY <2>2 DEF Environment, Crash, RemoveSource, RemoveStaged,
       RemoveFinal, Removal, Arrive
  <2>. QED
    BY <1>0, <2>1, <2>2 DEF Next, RecordIntent, Execute, Recover
<1>4. CASE UNCHANGED attention
  BY <1>0, <1>t, <1>2, <1>4
<1>5. ASSUME NEW j \in Jobs, mark_needs_attention(j), pc[j] \in PastCommit
      PROVE  moved'[i] # NoObject
  BY <1>0, <1>t, <1>2, <1>5, MarkedOne DEF TypeOK
<1>. QED
  BY <1>3, <1>4, <1>5

(* An operator is called only to jobs whose object really left the source    *)
(* name or was linked under the staging name.                                *)
THEOREM AttentionIsPastCommitAlways ==
  ExclusiveFinals => (Spec => []AttentionIsPastCommit)
<1>. SUFFICES ASSUME ExclusiveFinals PROVE Spec => []AttentionIsPastCommit
  OBVIOUS
<1>1. Init => AttentionInv
  BY LagInit DEF Init, AttentionInv, AttentionIsPastCommit
<1>2. AttentionInv /\ [Next]_vars => AttentionInv'
  BY AttentionStep
<1>3. AttentionInv => AttentionIsPastCommit
  BY DEF AttentionInv
<1>. QED
  BY <1>1, <1>2, <1>3, PTL DEF Spec

-----------------------------------------------------------------------------
(* Refinement of MoveContract.  *)

LEMMA DiskStays ==
  UNCHANGED <<moved, published>> => UNCHANGED Disk
  BY DEF Disk

(* A step on job j that moves Disk[j] only.  *)
LEMMA DiskOfStage ==
  ASSUME LagInv, NEW j \in Jobs, Stage(j)
  PROVE  IF moved[j] = NoObject
         THEN Disk[j] = "source" /\ Disk' = [Disk EXCEPT ![j] = "staged"]
         ELSE UNCHANGED Disk
<1>. USE DEF LagInv, TypeOK, Slot, Stage, Disk
<1>1. CASE moved[j] = NoObject
  <2>1. published[j] = NoObject
    BY <1>1 DEF JobInv
  <2>. QED
    BY <1>1, <2>1, ZenonT(30)
<1>2. CASE moved[j] # NoObject
  BY <1>2, SMT
<1>. QED
  BY <1>1, <1>2

LEMMA DiskOfPublish ==
  ASSUME LagInv, NEW j \in Jobs, RenameToFinal(j), moved[j] # NoObject
  PROVE  IF published[j] = NoObject
         THEN Disk[j] = "staged" /\ Disk' = [Disk EXCEPT ![j] = "final"]
         ELSE UNCHANGED Disk
  BY ZenonT(30) DEF LagInv, TypeOK, Slot, RenameToFinal, Disk

LEMMA ContractStep ==
  LagInv /\ [Next]_vars => [Contract!Next]_<<record, Disk>>
<1>. SUFFICES ASSUME LagInv, Next
              PROVE  Contract!Next \/ UNCHANGED <<record, Disk>>
  BY DiskStays
<1>. TypeOK /\ \A j \in Jobs : JobInv(j)
  BY DEF LagInv
<1>. DEFINE Goal == Contract!Next \/ UNCHANGED <<record, Disk>>
<1>RecordIntent. ASSUME NEW j \in Jobs, RecordIntent(j) PROVE Goal
  <2>1. Contract!Submit(j)
    BY <1>RecordIntent, DiskStays
       DEF RecordIntent, JobInv, Disk, Contract!Submit, Contract!Record
  <2>. QED
    BY <2>1 DEF Contract!Next
<1>RecordRenaming. ASSUME NEW j \in Jobs, RecordRenaming(j) PROVE Goal
  <2>1. CASE UNCHANGED record
    BY <1>RecordRenaming, <2>1, DiskStays DEF RecordRenaming
  <2>2. CASE update_state(j, "RENAMING")
    <3>1. Contract!Begin(j)
      BY <1>RecordRenaming, <2>2, DiskStays
         DEF RecordRenaming, update_state, JobInv, Disk, Contract!Begin,
             Contract!Record
    <3>. QED
      BY <3>1 DEF Contract!Next
  <2>. QED
    BY <1>RecordRenaming, <2>1, <2>2 DEF RecordRenaming
<1>Commit. ASSUME NEW j \in Jobs, Commit(j) PROVE Goal
  <2>1. CASE CannotStage(j)
    BY <1>Commit, <2>1, DiskStays DEF Commit, CannotStage
  <2>2. CASE Stage(j)
    <3>1. UNCHANGED Disk \/ Contract!Commit(j)
      BY <1>Commit, <2>2, DiskOfStage
         DEF Commit, JobInv, Contract!Commit, Contract!Move
    <3>. QED
      BY <1>Commit, <3>1 DEF Commit, Contract!Next
  <2>. QED
    BY <1>Commit, <2>1, <2>2 DEF Commit
<1>RecordMoved. ASSUME NEW j \in Jobs, RecordMoved(j) PROVE Goal
  <2>1. CASE Halt(j, "HaltedAfterCommit")
    BY <2>1, DiskStays DEF Halt
  <2>2. CASE update_state(j, "TRANSFERRING") /\ UNCHANGED history
    <3>1. Contract!Moved(j)
      BY <1>RecordMoved, <2>2, DiskStays
         DEF RecordMoved, update_state, JobInv, PastCommit, Disk,
             Contract!Moved, Contract!Record
    <3>. QED
      BY <3>1 DEF Contract!Next
  <2>. QED
    BY <1>RecordMoved, <2>1, <2>2 DEF RecordMoved
<1>Publish. ASSUME NEW j \in Jobs, Publish(j) PROVE Goal
  <2>1. CASE UNCHANGED history
    BY <1>Publish, <2>1, DiskStays DEF Publish
  <2>2. CASE RenameToFinal(j)
    <3>1. UNCHANGED Disk \/ Contract!Publish(j)
      BY <1>Publish, <2>2, DiskOfPublish
         DEF Publish, JobInv, PastCommit, Contract!Publish, Contract!Move
    <3>. QED
      BY <1>Publish, <3>1 DEF Publish, Contract!Next
  <2>. QED
    BY <1>Publish, <2>1, <2>2 DEF Publish
<1>RecordDone. ASSUME NEW j \in Jobs, RecordDone(j) PROVE Goal
  <2>1. CASE Halt(j, "HaltedAfterCommit")
    BY <2>1, DiskStays DEF Halt
  <2>2. CASE update_state(j, "DONE") /\ UNCHANGED history
    <3>1. Contract!Done(j)
      BY <1>RecordDone, <2>2, DiskStays
         DEF RecordDone, update_state, JobInv, Disk, Contract!Done,
             Contract!Record
    <3>. QED
      BY <3>1 DEF Contract!Next
  <2>. QED
    BY <1>RecordDone, <2>1, <2>2 DEF RecordDone
<1>Relink. ASSUME NEW j \in Jobs, Relink(j) PROVE Goal
  BY <1>Relink, DiskStays, DiskOfStage DEF Relink, CannotStage, JobInv,
     PastCommit
<1>TryFail. ASSUME NEW j \in Jobs, TryFail(j), UNCHANGED history PROVE Goal
  <2>1. CASE UNCHANGED record
    BY <1>TryFail, <2>1, DiskStays
  <2>2. CASE update_state(j, "FAILED")
    <3>1. Contract!Fail(j)
      BY <1>TryFail, <2>2, DiskStays
         DEF update_state, is_legal_transition, Contract!Fail,
             Contract!Record
    <3>. QED
      BY <3>1 DEF Contract!Next
  <2>. QED
    BY <1>TryFail, <2>1, <2>2 DEF TryFail
<1>Quiet. CASE UNCHANGED <<record, moved, published>>
  BY <1>Quiet, DiskStays
<1>. QED
  BY <1>RecordIntent, <1>RecordRenaming, <1>Commit, <1>RecordMoved,
     <1>Publish, <1>RecordDone, <1>Relink, <1>TryFail, <1>Quiet, ZenonT(30)
     DEF Next, EngineStep, Environment, Execute, Recover, Validate, Unlink,
         Finish, Probe, ProbeFinal, SyncDir, Halt, Reunlink, Collision,
         BothMissing, FailExternal, Crash, RemoveSource, RemoveStaged,
         RemoveFinal, Removal, Arrive

(* The engine implements MoveContract for jobs that own their final names:   *)
(* crashes, retries, failing calls and other programs never make the record  *)
(* and the disk advance in any other order.                                  *)
THEOREM EngineImplementsContract ==
  ExclusiveFinals => (Spec => ImplementsContract)
<1>. SUFFICES ASSUME ExclusiveFinals PROVE Spec => ImplementsContract
  OBVIOUS
<1>1. Init => LagInv
  BY LagInit
<1>2. LagInv /\ [Next]_vars => LagInv'
  BY LagStep
<1>3. Init => Contract!Init
  BY SMT DEF Init, Contract!Init, Disk
<1>4. LagInv /\ [Next]_vars => [Contract!Next]_<<record, Disk>>
  BY ContractStep
<1>. QED
  BY <1>1, <1>2, <1>3, <1>4, PTL DEF Spec, ImplementsContract, Contract!Spec

-----------------------------------------------------------------------------
(* The names of an object, when no new file arrives at a source name.  *)

LEMMA NoArrival ==
  ASSUME arrivals' = 0, TypeOK, NEW s \in Sources, NEW o \in Objects
  PROVE  ~Arrive(s, o)
  BY EngineAssumption, SMT DEF Arrive, TypeOK

LEMMA ArrivalsGrow ==
  TypeOK /\ [Next]_vars /\ arrivals' = 0 => arrivals = 0
<1>0. SUFFICES ASSUME TypeOK, [Next]_vars, arrivals' = 0 PROVE arrivals = 0
  OBVIOUS
<1>1. ASSUME NEW j \in Jobs, EngineStep(j) PROVE UNCHANGED arrivals
  BY <1>1 DEF EngineStep, Validate, RecordRenaming, Commit,
     CannotStage, Unlink, Finish, RecordMoved, Probe, ProbeFinal, Publish,
     SyncDir, RecordDone, Relink, Reunlink, Collision, BothMissing,
     FailExternal, TryFail, Fault, ProbeFault
<1>2. CASE Environment
  BY <1>0, <1>2, NoArrival
     DEF Environment, Crash, RemoveSource, RemoveStaged, RemoveFinal, Removal
<1>3. CASE UNCHANGED vars
  BY <1>0, <1>3
<1>. QED
  BY <1>0, <1>1, <1>2, <1>3 DEF Next, RecordIntent, Execute, Recover, Fault

LEMMA NameStep ==
  ExclusiveFinals /\ LagInv /\ CalmInv /\ [Next]_vars /\ arrivals' = 0
    => \A i \in Jobs : NameInv(i)'
<1>0. SUFFICES ASSUME ExclusiveFinals, LagInv, CalmInv, [Next]_vars,
                      arrivals' = 0, NEW i \in Jobs
               PROVE  NameInv(i)'
  OBVIOUS
<1>1. Shape /\ HeldInv(i) /\ GoneInv(i)
  BY <1>0, TypeShape DEF CalmInv, LagInv, NameInv
<1>2. ExclusiveFinals /\ \A j \in Jobs : JobInv(j)
  BY <1>0 DEF CalmInv, LagInv
<1>Quiet. ASSUME UNCHANGED <<names, moved, published, removed>>, GoneInv(i)'
          PROVE  NameInv(i)'
  BY <1>1, <1>Quiet DEF HeldInv, NameInv
<1>. USE DEF Shape, GoneInv, SourceGone
<1>RecordIntent. ASSUME NEW j \in Jobs, RecordIntent(j) PROVE NameInv(i)'
  <2>1. UNCHANGED <<names, moved, published, removed>>
    BY <1>RecordIntent DEF RecordIntent
  <2>2. GoneInv(i)'
    BY <1>1, <1>RecordIntent, <2>1
       DEF RecordIntent
  <2>. QED
    BY <1>Quiet, <2>1, <2>2
<1>Execute. ASSUME NEW j \in Jobs, Execute(j) PROVE NameInv(i)'
  <2>1. UNCHANGED <<names, moved, published, removed>>
    BY <1>Execute DEF Execute
  <2>2. GoneInv(i)'
    BY <1>1, <1>Execute, <2>1
       DEF Execute
  <2>. QED
    BY <1>Quiet, <2>1, <2>2
<1>Recover. ASSUME NEW j \in Jobs, Recover(j) PROVE NameInv(i)'
  <2>1. UNCHANGED <<names, moved, published, removed>>
    BY <1>Recover DEF Recover
  <2>2. GoneInv(i)'
    BY <1>1, <1>Recover, <2>1, ZenonT(30) DEF Recover, RecoverBranch,
       classify_move_state, Return
  <2>. QED
    BY <1>Quiet, <2>1, <2>2
<1>Validate. ASSUME NEW j \in Jobs, Validate(j) PROVE NameInv(i)'
  <2>1. UNCHANGED <<names, moved, published, removed>>
    BY <1>Validate DEF Validate
  <2>2. GoneInv(i)'
    BY <1>1, <1>Validate, <2>1
       DEF Validate, Goto, Return
  <2>. QED
    BY <1>Quiet, <2>1, <2>2
<1>RecordRenaming. ASSUME NEW j \in Jobs, RecordRenaming(j) PROVE NameInv(i)'
  <2>1. UNCHANGED <<names, moved, published, removed>>
    BY <1>RecordRenaming DEF RecordRenaming
  <2>2. GoneInv(i)'
    BY <1>1, <1>RecordRenaming, <2>1
       DEF RecordRenaming, Goto, Return, update_state, is_legal_transition
  <2>. QED
    BY <1>Quiet, <2>1, <2>2
<1>Commit. ASSUME NEW j \in Jobs, Commit(j) PROVE NameInv(i)'
  <2>1. HeldInv(i)'
    BY <1>1, <1>Commit, SMT DEF Commit, Stage, DropSource, CannotStage,
       HeldInv
  <2>2. GoneInv(i)'
    BY <1>1, <1>Commit, SMT DEF Commit, Stage, DropSource, CannotStage, Goto,
       Return, HeldInv
  <2>. QED
    BY <2>1, <2>2 DEF NameInv
<1>Unlink. ASSUME NEW j \in Jobs, Unlink(j) PROVE NameInv(i)'
  <2>1. HeldInv(i)'
    BY <1>1, <1>Unlink DEF Unlink, DropSource, HeldInv
  <2>2. GoneInv(i)'
    BY <1>1, <1>Unlink
       DEF Unlink, DropSource, Goto, Return
  <2>. QED
    BY <2>1, <2>2 DEF NameInv
<1>Finish. ASSUME NEW j \in Jobs, Finish(j) PROVE NameInv(i)'
  <2>1. UNCHANGED <<names, moved, published, removed>>
    BY <1>Finish DEF Finish
  <2>2. GoneInv(i)'
    BY <1>1, <1>Finish, <2>1
       DEF Finish, Goto, Return
  <2>. QED
    BY <1>Quiet, <2>1, <2>2
<1>RecordMoved. ASSUME NEW j \in Jobs, RecordMoved(j) PROVE NameInv(i)'
  <2>1. UNCHANGED <<names, moved, published, removed>>
    BY <1>RecordMoved DEF RecordMoved, Halt
  <2>2. GoneInv(i)'
    BY <1>1, <1>RecordMoved, <2>1
       DEF RecordMoved, Goto, Return, Halt, update_state, is_legal_transition
  <2>. QED
    BY <1>Quiet, <2>1, <2>2
<1>Probe. ASSUME NEW j \in Jobs, Probe(j) PROVE NameInv(i)'
  <2>1. UNCHANGED <<names, moved, published, removed>>
    BY <1>Probe DEF Probe
  <2>2. GoneInv(i)'
    BY <1>1, <1>Probe, <2>1
       DEF Probe, Goto
  <2>. QED
    BY <1>Quiet, <2>1, <2>2
<1>ProbeFinal. ASSUME NEW j \in Jobs, ProbeFinal(j) PROVE NameInv(i)'
  <2>1. UNCHANGED <<names, moved, published, removed>>
    BY <1>ProbeFinal DEF ProbeFinal, Halt
  <2>2. GoneInv(i)'
    BY <1>1, <1>ProbeFinal, <2>1
       DEF ProbeFinal, Goto, Return, Halt
  <2>. QED
    BY <1>Quiet, <2>1, <2>2
<1>Publish. ASSUME NEW j \in Jobs, Publish(j) PROVE NameInv(i)'
  <2>1. ASSUME RenameToFinal(j) PROVE HeldInv(i)'
    <3>1. CASE i = j
      <4>1. final[FinalOf[j]] = NoObject
        BY <1>1, <1>2, <2>1, <3>1 DEF RenameToFinal, HeldInv, JobInv
      <4>. QED
        BY <1>1, <1>Publish, <2>1, <3>1, <4>1
           DEF Publish, RenameToFinal, HeldInv
    <3>2. CASE i # j
      BY <1>1, <1>2, <2>1, <3>2
         DEF RenameToFinal, HeldInv, ExclusiveFinals
    <3>. QED
      BY <3>1, <3>2
  <2>2. ASSUME UNCHANGED <<names, history>> PROVE HeldInv(i)'
    BY <1>1, <2>2 DEF HeldInv
  <2>3. HeldInv(i)'
    BY <1>Publish, <2>1, <2>2 DEF Publish
  <2>4. GoneInv(i)'
    BY <1>1, <1>Publish DEF Publish, RenameToFinal, Goto, Return
  <2>. QED
    BY <2>3, <2>4 DEF NameInv
<1>SyncDir. ASSUME NEW j \in Jobs, SyncDir(j) PROVE NameInv(i)'
  <2>1. UNCHANGED <<names, moved, published, removed>>
    BY <1>SyncDir DEF SyncDir, Halt
  <2>2. GoneInv(i)'
    BY <1>1, <1>SyncDir, <2>1
       DEF SyncDir, Goto, Return, Halt
  <2>. QED
    BY <1>Quiet, <2>1, <2>2
<1>RecordDone. ASSUME NEW j \in Jobs, RecordDone(j) PROVE NameInv(i)'
  <2>1. UNCHANGED <<names, moved, published, removed>>
    BY <1>RecordDone DEF RecordDone, Halt
  <2>2. GoneInv(i)'
    BY <1>1, <1>RecordDone, <2>1
       DEF RecordDone, Return, Halt, update_state, is_legal_transition
  <2>. QED
    BY <1>Quiet, <2>1, <2>2
<1>Relink. ASSUME NEW j \in Jobs, Relink(j) PROVE NameInv(i)'
  <2>1. HeldInv(i)'
    BY <1>1, <1>Relink, SMT DEF Relink, Stage, CannotStage, HeldInv
  <2>2. GoneInv(i)'
    BY <1>1, <1>Relink, SMT DEF Relink, Stage, CannotStage, Goto, Return,
       HeldInv
  <2>. QED
    BY <2>1, <2>2 DEF NameInv
<1>Reunlink. ASSUME NEW j \in Jobs, Reunlink(j) PROVE NameInv(i)'
  <2>1. HeldInv(i)'
    BY <1>1, <1>Reunlink DEF Reunlink, DropSource, HeldInv
  <2>2. GoneInv(i)'
    BY <1>1, <1>Reunlink
       DEF Reunlink, DropSource, Goto, Return
  <2>. QED
    BY <2>1, <2>2 DEF NameInv
<1>Collision. ASSUME NEW j \in Jobs, Collision(j) PROVE NameInv(i)'
  <2>1. UNCHANGED <<names, moved, published, removed>>
    BY <1>Collision DEF Collision
  <2>2. GoneInv(i)'
    BY <1>1, <1>Collision, <2>1
       DEF Collision, TryFail, Return, update_state, is_legal_transition
  <2>. QED
    BY <1>Quiet, <2>1, <2>2
<1>BothMissing. ASSUME NEW j \in Jobs, BothMissing(j) PROVE NameInv(i)'
  <2>1. UNCHANGED <<names, moved, published, removed>>
    BY <1>BothMissing DEF BothMissing
  <2>2. GoneInv(i)'
    BY <1>1, <1>BothMissing, <2>1
       DEF BothMissing, Goto
  <2>. QED
    BY <1>Quiet, <2>1, <2>2
<1>FailExternal. ASSUME NEW j \in Jobs, FailExternal(j) PROVE NameInv(i)'
  <2>1. UNCHANGED <<names, moved, published, removed>>
    BY <1>FailExternal DEF FailExternal
  <2>2. GoneInv(i)'
    BY <1>1, <1>FailExternal, <2>1
       DEF FailExternal, TryFail, Return, update_state, is_legal_transition
  <2>. QED
    BY <1>Quiet, <2>1, <2>2
<1>Crash. ASSUME Crash PROVE NameInv(i)'
  BY <1>1, <1>Quiet, <1>Crash DEF Crash
<1>RemoveSource. ASSUME NEW s \in Sources, RemoveSource(s) PROVE NameInv(i)'
  <2>1. HeldInv(i)'
    BY <1>1, <1>RemoveSource DEF RemoveSource, Removal, HeldInv
  <2>2. GoneInv(i)'
    BY <1>1, <1>RemoveSource
       DEF RemoveSource, Removal
  <2>. QED
    BY <2>1, <2>2 DEF NameInv
<1>RemoveStaged. ASSUME NEW j \in Jobs, RemoveStaged(j) PROVE NameInv(i)'
  <2>1. HeldInv(i)'
    BY <1>1, <1>RemoveStaged DEF RemoveStaged, Removal, HeldInv
  <2>2. GoneInv(i)'
    BY <1>1, <1>RemoveStaged
       DEF RemoveStaged, Removal
  <2>. QED
    BY <2>1, <2>2 DEF NameInv
<1>RemoveFinal. ASSUME NEW f \in Finals, RemoveFinal(f) PROVE NameInv(i)'
  <2>1. HeldInv(i)'
    BY <1>1, <1>RemoveFinal DEF RemoveFinal, Removal, HeldInv
  <2>2. GoneInv(i)'
    BY <1>1, <1>RemoveFinal
       DEF RemoveFinal, Removal
  <2>. QED
    BY <2>1, <2>2 DEF NameInv
<1>Arrive. ASSUME NEW s \in Sources, NEW o \in Objects, Arrive(s, o)
      PROVE  NameInv(i)'
  BY <1>0, <1>Arrive, NoArrival DEF CalmInv, LagInv
<1>Stutter. CASE UNCHANGED vars
  BY <1>1, <1>Quiet, <1>Stutter
<1>. QED
  BY <1>0, <1>RecordIntent, <1>Execute, <1>Recover, <1>Validate,
     <1>RecordRenaming, <1>Commit, <1>Unlink, <1>Finish, <1>RecordMoved,
     <1>Probe, <1>ProbeFinal, <1>Publish, <1>SyncDir, <1>RecordDone,
     <1>Relink, <1>Reunlink, <1>Collision, <1>BothMissing, <1>FailExternal,
     <1>Crash, <1>RemoveSource, <1>RemoveStaged, <1>RemoveFinal, <1>Arrive,
     <1>Stutter
     DEF Next, EngineStep, Environment

(* An object keeps a name when each of its names is kept or given to it.  *)
LEMMA NamedKept ==
  ASSUME NEW o, Named(o),
         \A s \in Sources : source[s] = o => source'[s] = o \/ Named(o)',
         \A j \in Jobs : staged[j] = o => staged'[j] = o \/ Named(o)',
         \A f \in Finals : final[f] = o => final'[f] = o \/ Named(o)'
  PROVE  Named(o)'
  BY DEF Named

LEMMA RemovedGrows ==
  arrivals' = 0 /\ TypeOK /\ [Next]_vars
    => UNCHANGED born /\ removed \subseteq removed'
<1>0. SUFFICES ASSUME arrivals' = 0, TypeOK, [Next]_vars
               PROVE  UNCHANGED born /\ removed \subseteq removed'
  OBVIOUS
<1>1. ASSUME NEW j \in Jobs, EngineStep(j)
      PROVE  UNCHANGED <<born, removed>>
  BY <1>1 DEF EngineStep, RecordIntent, Execute, Recover, Validate,
     RecordRenaming, Commit, Stage, CannotStage, Unlink, Finish, RecordMoved,
     Halt, Probe, ProbeFinal, Publish, RenameToFinal, SyncDir, RecordDone,
     Relink, Reunlink, Collision, BothMissing, FailExternal
<1>2. CASE Environment
  BY <1>0, <1>2, NoArrival
     DEF Environment, Crash, RemoveSource, RemoveStaged, RemoveFinal, Removal
<1>3. CASE UNCHANGED vars
  BY <1>3
<1>. QED
  BY <1>0, <1>1, <1>2, <1>3 DEF Next, RecordIntent, Execute, Recover

LEMMA NamedStep ==
  ExclusiveFinals /\ LagInv /\ CalmInv /\ [Next]_vars /\ arrivals' = 0
    => Kept'
<1>0. SUFFICES ASSUME ExclusiveFinals, LagInv, CalmInv, [Next]_vars,
                      arrivals' = 0, NEW o \in born' \ removed'
               PROVE  Named(o)'
  BY DEF Kept
<1>1. Named(o) /\ o # NoObject /\ o \notin removed /\ o \notin removed'
  <2>1. TypeOK /\ Kept
    BY <1>0 DEF CalmInv, LagInv
  <2>2. o \in born \ removed
    BY <1>0, <2>1, RemovedGrows
  <2>. QED
    BY <1>0, <2>1, <2>2, EngineAssumption DEF Kept, TypeOK
<1>2. Shape
  BY <1>0, TypeShape DEF CalmInv, LagInv
<1>3. ASSUME NEW j \in Jobs PROVE JobInv(j) /\ NameInv(j)
  BY <1>0, <1>3 DEF CalmInv, LagInv
<1>Stage. ASSUME NEW j \in Jobs, Stage(j),
                 DropSource(j) \/ UNCHANGED source
          PROVE  Named(o)'
  <2>1. source[SourceOf[j]] = o => staged'[j] = o
    BY <1>2, <1>Stage DEF Stage, Shape
  <2>2. \A s \in Sources : source[s] = o => source'[s] = o \/ Named(o)'
    BY <1>2, <1>Stage, <2>1 DEF DropSource, Shape, Named
  <2>3. \A k \in Jobs : staged[k] = o => staged'[k] = o
    BY <1>1, <1>2, <1>Stage DEF Stage, Shape
  <2>4. UNCHANGED final
    BY <1>Stage DEF Stage
  <2>. QED
    BY <1>1, <2>2, <2>3, <2>4, NamedKept
<1>Drop. ASSUME NEW j \in Jobs, pc[j] \in {"unlink", "reunlink"},
                DropSource(j), UNCHANGED <<staged, final>>
         PROVE  Named(o)'
  <2>1. source[SourceOf[j]] = o => staged[j] = o
    BY <1>1, <1>3, <1>Drop DEF NameInv, GoneInv
  <2>2. source[SourceOf[j]] = o => Named(o)'
    BY <1>Drop, <2>1 DEF Named
  <2>3. \A s \in Sources : source[s] = o => source'[s] = o \/ Named(o)'
    BY <1>2, <1>Drop, <2>2 DEF DropSource, Shape
  <2>. QED
    BY <1>1, <1>Drop, <2>3, NamedKept
<1>Rename. ASSUME NEW j \in Jobs, pc[j] = "publish", RenameToFinal(j)
           PROVE  Named(o)'
  <2>1. staged[j] = o => Named(o)'
    BY <1>2, <1>Rename DEF RenameToFinal, Shape, Named
  <2>2. \A k \in Jobs : staged[k] = o => staged'[k] = o \/ Named(o)'
    BY <1>2, <1>Rename, <2>1 DEF RenameToFinal, Shape
  <2>3. final[FinalOf[j]] = o => staged[j] = o
    BY <1>1, <1>3, <1>Rename DEF RenameToFinal, JobInv, NameInv, HeldInv
  <2>4. \A f \in Finals : final[f] = o => final'[f] = o \/ Named(o)'
    BY <1>2, <1>Rename, <2>1, <2>3 DEF RenameToFinal, Shape
  <2>. QED
    BY <1>1, <1>Rename, <2>2, <2>4, NamedKept DEF RenameToFinal
<1>RemoveSource. ASSUME NEW s \in Sources, RemoveSource(s) PROVE Named(o)'
  <2>1. \A t \in Sources : source[t] = o => source'[t] = o
    BY <1>1, <1>2, <1>RemoveSource DEF RemoveSource, Removal, Shape
  <2>. QED
    BY <1>1, <1>RemoveSource, <2>1, NamedKept DEF RemoveSource
<1>RemoveStaged. ASSUME NEW j \in Jobs, RemoveStaged(j) PROVE Named(o)'
  <2>1. \A k \in Jobs : staged[k] = o => staged'[k] = o
    BY <1>1, <1>2, <1>RemoveStaged DEF RemoveStaged, Removal, Shape
  <2>. QED
    BY <1>1, <1>RemoveStaged, <2>1, NamedKept DEF RemoveStaged
<1>RemoveFinal. ASSUME NEW f \in Finals, RemoveFinal(f) PROVE Named(o)'
  <2>1. \A g \in Finals : final[g] = o => final'[g] = o
    BY <1>1, <1>2, <1>RemoveFinal DEF RemoveFinal, Removal, Shape
  <2>. QED
    BY <1>1, <1>RemoveFinal, <2>1, NamedKept DEF RemoveFinal
<1>Arrive. ASSUME NEW s \in Sources, NEW q \in Objects, Arrive(s, q)
      PROVE  FALSE
  BY <1>0, <1>Arrive, NoArrival DEF CalmInv, LagInv
<1>Quiet. CASE UNCHANGED names
  BY <1>1, <1>Quiet DEF Named
<1>Engine. ASSUME NEW j \in Jobs, EngineStep(j) PROVE Named(o)'
  <2>1. CASE Commit(j) \/ Relink(j)
    BY <1>Stage, <1>Quiet, <2>1 DEF Commit, Relink, CannotStage
  <2>2. CASE Unlink(j) \/ Reunlink(j)
    BY <1>Drop, <1>Quiet, <2>2 DEF Unlink, Reunlink
  <2>3. CASE Publish(j)
    BY <1>Rename, <1>Quiet, <2>3 DEF Publish
  <2>. QED
    BY <1>Engine, <1>Quiet, <2>1, <2>2, <2>3 DEF EngineStep,
       RecordIntent, Execute, Recover, Validate, RecordRenaming, Finish,
       RecordMoved, Halt, Probe, ProbeFinal, SyncDir, RecordDone, Collision,
       BothMissing, FailExternal
<1>. QED
  BY <1>0, <1>Engine, <1>RemoveSource, <1>RemoveStaged, <1>RemoveFinal,
     <1>Arrive, <1>Quiet
     DEF Next, Environment, Crash, RecordIntent, Execute, Recover

LEMMA SafeAlways ==
  ASSUME ExclusiveFinals
  PROVE  Spec => []SafeInv
<1>1. Init => SafeInv
  <2>. SUFFICES ASSUME Init PROVE SafeInv
    OBVIOUS
  <2>1. Kept
    BY DEF Init, Kept, Named
  <2>2. \A j \in Jobs : NameInv(j)
    BY DEF Init, NameInv, HeldInv, GoneInv, SourceGone
  <2>. QED
    BY LagInit, <2>1, <2>2 DEF SafeInv, CalmInv
<1>2. SafeInv /\ [Next]_vars => SafeInv'
  <2>. SUFFICES ASSUME SafeInv, [Next]_vars PROVE SafeInv'
    OBVIOUS
  <2>1. LagInv'
    BY LagStep DEF SafeInv
  <2>2. ASSUME arrivals' = 0 PROVE CalmInv'
    <3>1. LagInv /\ CalmInv
      BY <2>2, ArrivalsGrow DEF SafeInv, LagInv
    <3>2. Kept'
      BY <2>2, <3>1, NamedStep
    <3>3. (\A i \in Jobs : NameInv(i))'
      BY <2>2, <3>1, NameStep
    <3>. QED
      BY <3>2, <3>3 DEF CalmInv
  <2>. QED
    BY <2>1, <2>2 DEF SafeInv
<1>. QED
  BY <1>1, <1>2, PTL DEF Spec

(* No object is ever lost by the engine: whatever step a crash interrupts,   *)
(* whichever call fails, under renameat2 and under linkat/unlinkat, with     *)
(* several jobs on one source, an object that no other program removed has a *)
(* name, up to the first reuse of a source name.  The hypotheses are needed: *)
(* publish() replaces what has the final name, a stranger's file or one the  *)
(* job delivered before.                                                     *)
THEOREM NoObjectLostAlways ==
  ExclusiveFinals => (Spec => []NoObjectLost)
<1>. SUFFICES ASSUME ExclusiveFinals PROVE Spec => []NoObjectLost
  OBVIOUS
<1>1. SafeInv => NoObjectLost
  BY DEF SafeInv, CalmInv, Kept, NoObjectLost
<1>. QED
  BY <1>1, SafeAlways, PTL

(* DONE is recorded only for a job whose own object was published, left      *)
(* nothing under the staging name and still sits at the final name unless    *)
(* another program took it away.                                             *)
THEOREM DoneIsDeliveredAlways ==
  ExclusiveFinals => (Spec => []DoneIsDelivered)
<1>. SUFFICES ASSUME ExclusiveFinals PROVE Spec => []DoneIsDelivered
  OBVIOUS
<1>1. SafeInv => DoneIsDelivered
  BY DEF SafeInv, CalmInv, LagInv, JobInv, NameInv, HeldInv,
         DoneIsDelivered
<1>. QED
  BY <1>1, SafeAlways, PTL

-----------------------------------------------------------------------------
(* FAILED.  As long as no producer reuses a source name, a job never meets   *)
(* a foreign object there: no collision is ever seen, and FAILED is left to  *)
(* jobs of which nothing was found.                                          *)

FailInv(i) ==
  /\ moved[i] # NoObject /\ source[SourceOf[i]] # NoObject =>
       moved[i] = source[SourceOf[i]]
  /\ pc[i] # "collision"
  /\ pc[i] \in {"bothMissing", "failExternal"} \/ record[i] = "FAILED" =>
       staged[i] = NoObject /\ source[SourceOf[i]] = NoObject
  /\ (pc[i] = "failExternal" \/ record[i] = "FAILED") /\ probes = 0 =>
       final[FinalOf[i]] = NoObject

LEMMA ProbesGrow ==
  ASSUME TypeOK, ProbeFault
  PROVE  probes' # 0
  BY EngineAssumption, SMT DEF TypeOK, ProbeFault

(* What a step for one job may do to another job: at most take away the      *)
(* source name that the two share.                                           *)
LEMMA OtherJob ==
  ASSUME ExclusiveFinals, Shape, NEW i \in Jobs, NEW j \in Jobs, i # j,
         RecordIntent(j) \/ Execute(j) \/ Recover(j) \/ EngineStep(j)
  PROVE  /\ staged'[i] = staged[i] /\ final'[FinalOf[i]] = final[FinalOf[i]]
         /\ moved'[i] = moved[i] /\ published'[i] = published[i]
         /\ record'[i] = record[i] /\ pc'[i] = pc[i]
         /\ \A s \in Sources : source'[s] \in {source[s], NoObject}
<1>. USE DEF Shape
<1>1. CASE RecordIntent(j) \/ Execute(j) \/ Recover(j)
  BY <1>1 DEF RecordIntent, Execute, Recover, Return
<1>2. CASE Validate(j) \/ RecordRenaming(j) \/ Finish(j) \/ RecordMoved(j)
  BY <1>2 DEF Validate, RecordRenaming, Finish, RecordMoved, Goto, Return,
     Halt, update_state
<1>3. CASE Probe(j) \/ ProbeFinal(j) \/ SyncDir(j) \/ RecordDone(j)
  BY <1>3 DEF Probe, ProbeFinal, SyncDir, RecordDone, Goto, Return, Halt,
     update_state
<1>4. CASE Collision(j) \/ BothMissing(j) \/ FailExternal(j)
  BY <1>4 DEF Collision, BothMissing, FailExternal, TryFail, Goto, Return,
     update_state
<1>5. CASE Commit(j)
  BY <1>5 DEF Commit, Stage, CannotStage, DropSource, Goto, Return
<1>6. CASE Unlink(j) \/ Reunlink(j)
  BY <1>6 DEF Unlink, Reunlink, DropSource, Goto, Return
<1>7. CASE Relink(j)
  BY <1>7 DEF Relink, Stage, CannotStage, Goto, Return
<1>8. CASE Publish(j)
  <2>1. FinalOf[i] # FinalOf[j] /\ FinalOf[i] \in Finals
    BY DEF ExclusiveFinals
  <2>2. ASSUME RenameToFinal(j)
        PROVE  /\ staged'[i] = staged[i] /\ final'[FinalOf[i]] = final[FinalOf[i]]
               /\ moved'[i] = moved[i] /\ published'[i] = published[i]
               /\ source' = source
    BY <2>1, <2>2 DEF RenameToFinal
  <2>3. pc'[i] = pc[i] /\ record'[i] = record[i]
    BY <1>8 DEF Publish, Goto, Return
  <2>. QED
    BY <1>8, <2>2, <2>3 DEF Publish
<1>. QED
  BY <1>1, <1>2, <1>3, <1>4, <1>5, <1>6, <1>7, <1>8 DEF EngineStep

(* A step for the job itself.  *)
LEMMA OwnFail ==
  ASSUME LagInv, NEW i \in Jobs, NameInv(i), FailInv(i),
         RecordIntent(i) \/ Execute(i) \/ Recover(i) \/ EngineStep(i)
  PROVE  FailInv(i)'
<1>1. Shape /\ TypeOK /\ JobInv(i) /\ HeldInv(i) /\ GoneInv(i)
  BY TypeShape DEF LagInv, NameInv
<1>2. ProbeFault => probes' # 0
  BY <1>1, ProbesGrow
<1>. DEFINE Same == UNCHANGED <<names, moved>>
                    /\ (probes' = 0 => probes = 0)
<1>3. ASSUME Same, pc'[i] \notin {"collision", "bothMissing", "failExternal"},
             record'[i] = record[i] \/ record'[i] # "FAILED"
      PROVE  FailInv(i)'
  BY <1>3 DEF FailInv
<1>. USE DEF Shape
<1>4. CASE RecordIntent(i)
  <2>1. Same /\ pc' = pc /\ record'[i] = "QUEUED"
    BY <1>1, <1>4 DEF RecordIntent
  <2>. QED
    BY <2>1 DEF FailInv
<1>5. CASE Execute(i) \/ Validate(i) \/ RecordRenaming(i)
  <2>1. Same /\ pc'[i] \in {"validate", "recordRenaming", "commit", "idle"}
    BY <1>1, <1>5 DEF Execute, Validate, RecordRenaming, Goto, Return, Fault
  <2>2. record'[i] = record[i] \/ record'[i] # "FAILED"
    BY <1>1, <1>5 DEF Execute, Validate, RecordRenaming, update_state
  <2>. QED
    BY <1>3, <2>1, <2>2
<1>6. CASE Recover(i)
  <2>1. Same /\ record' = record
    BY <1>6 DEF Recover, Fault
  <2>2. CASE pc'[i] = "idle"
    BY <1>3, <2>1, <2>2
  <2>3. CASE pc'[i] = RecoverBranch[classify_move_state(i)]
    <3>1. classify_move_state(i) # "Collision"
      BY <1>1 DEF classify_move_state, HeldInv, FailInv
    <3>2. /\ pc'[i] # "collision" /\ pc'[i] # "failExternal"
          /\ pc'[i] = "bothMissing" =>
               staged[i] = NoObject /\ source[SourceOf[i]] = NoObject
      BY <2>3, <3>1, ZenonT(30) DEF RecoverBranch, classify_move_state
    <3>. QED
      BY <2>1, <3>2 DEF FailInv
  <2>. QED
    BY <1>1, <1>6, <2>2, <2>3 DEF Recover, Return
<1>7. CASE Commit(i)
  <2>1. record' = record /\ record[i] # "FAILED"
    BY <1>1, <1>7 DEF Commit, JobInv
  <2>2. pc'[i] \in {"finish", "unlink", "idle"}
    BY <1>1, <1>7 DEF Commit, Goto, Return
  <2>3. moved'[i] # NoObject /\ source'[SourceOf[i]] # NoObject =>
          moved'[i] = source'[SourceOf[i]]
    BY <1>1, <1>7 DEF Commit, Stage, CannotStage, DropSource, FailInv
  <2>. QED
    BY <2>1, <2>2, <2>3 DEF FailInv
<1>8. CASE Unlink(i) \/ Reunlink(i)
  <2>1. /\ UNCHANGED <<staged, final, record, moved>>
        /\ probes' = 0 => probes = 0
        /\ pc'[i] \in {"finish", "idle"}
        /\ source'[SourceOf[i]] \in {source[SourceOf[i]], NoObject}
    BY <1>1, <1>8 DEF Unlink, Reunlink, DropSource, Goto, Return, Fault
  <2>. QED
    BY <2>1 DEF FailInv
<1>9. CASE Finish(i) \/ RecordMoved(i) \/ Probe(i) \/ ProbeFinal(i)
           \/ SyncDir(i) \/ RecordDone(i)
  <2>1. Same
    BY <1>2, <1>9 DEF Finish, RecordMoved, Probe, ProbeFinal, SyncDir,
       RecordDone, Halt, Fault
  <2>2. pc'[i] \in {"idle", "recordMoved", "probe", "publish", "probeFinal",
                    "recordDone"}
    BY <1>1, <1>9 DEF Finish, RecordMoved, Probe, ProbeFinal, SyncDir,
       RecordDone, Goto, Return, Halt
  <2>3. record'[i] = record[i] \/ record'[i] # "FAILED"
    BY <1>1, <1>9 DEF Finish, RecordMoved, Probe, ProbeFinal, SyncDir,
       RecordDone, Halt, update_state
  <2>. QED
    BY <1>3, <2>1, <2>2, <2>3
<1>10. CASE Publish(i)
  <2>1. /\ record' = record /\ record[i] # "FAILED"
        /\ pc'[i] \in {"syncDir", "idle"} /\ UNCHANGED <<source, moved>>
    BY <1>1, <1>10 DEF Publish, RenameToFinal, Goto, Return, JobInv
  <2>. QED
    BY <2>1 DEF FailInv
<1>11. CASE Relink(i)
  <2>1. CASE Stage(i)
    <3>1. /\ record' = record /\ record[i] # "FAILED" /\ pc'[i] = "reunlink"
          /\ moved'[i] = source[SourceOf[i]] /\ source' = source
      BY <1>1, <1>11, <2>1 DEF Relink, Stage, CannotStage, Goto, FailInv
    <3>. QED
      BY <3>1 DEF FailInv
  <2>2. CASE ~Stage(i)
    <3>1. Same /\ record' = record /\ pc'[i] = "idle"
      BY <1>1, <1>11, <2>2 DEF Relink, CannotStage, Return, Fault
    <3>. QED
      BY <1>3, <3>1
  <2>. QED
    BY <2>1, <2>2
<1>12. CASE Collision(i)
  BY <1>12 DEF Collision, FailInv
<1>13. CASE BothMissing(i)
  <2>1. Same /\ record' = record
    BY <1>2, <1>13 DEF BothMissing
  <2>2. CASE pc'[i] = "finish"
    BY <1>3, <2>1, <2>2
  <2>3. CASE pc'[i] = "failExternal" /\ (final[FinalOf[i]] = NoObject
                                         \/ ProbeFault)
    BY <1>2, <1>13, <2>1, <2>3 DEF BothMissing, FailInv
  <2>. QED
    BY <1>1, <1>13, <2>2, <2>3 DEF BothMissing, Goto
<1>14. CASE FailExternal(i)
  <2>1. Same /\ pc[i] = "failExternal" /\ pc'[i] = "idle"
    BY <1>1, <1>14 DEF FailExternal, TryFail, Return, Fault
  <2>. QED
    BY <2>1 DEF FailInv
<1>. QED
  BY <1>4, <1>5, <1>6, <1>7, <1>8, <1>9, <1>10, <1>11, <1>12, <1>13, <1>14
  DEF EngineStep

LEMMA FailStep ==
  ASSUME ExclusiveFinals, LagInv, CalmInv, NEW i \in Jobs, FailInv(i),
         [Next]_vars, arrivals' = 0
  PROVE  FailInv(i)'
<1>1. Shape /\ TypeOK /\ NameInv(i)
  BY TypeShape DEF LagInv, CalmInv
<1>2. ASSUME NEW j \in Jobs, i # j,
             RecordIntent(j) \/ Execute(j) \/ Recover(j) \/ EngineStep(j)
      PROVE  FailInv(i)'
  <2>1. /\ staged'[i] = staged[i] /\ final'[FinalOf[i]] = final[FinalOf[i]]
        /\ moved'[i] = moved[i] /\ record'[i] = record[i] /\ pc'[i] = pc[i]
        /\ source'[SourceOf[i]] \in {source[SourceOf[i]], NoObject}
    BY <1>1, <1>2, OtherJob DEF Shape
  <2>2. probes' = 0 => probes = 0
    <3>1. ProbeFault => probes' # 0
      BY <1>1, ProbesGrow
    <3>. QED
      BY <1>2, <3>1 DEF RecordIntent, Execute, Recover, EngineStep, Validate,
         RecordRenaming, Commit, CannotStage, Unlink, Finish, RecordMoved,
         Probe, ProbeFinal, Publish, SyncDir, RecordDone, Relink, Reunlink,
         Collision, BothMissing, FailExternal, TryFail, Fault
  <2>. QED
    BY <2>1, <2>2 DEF FailInv
<1>3. CASE Environment
  <2>1. /\ \A s \in Sources : source'[s] \in {source[s], NoObject}
        /\ staged'[i] \in {staged[i], NoObject}
        /\ final'[FinalOf[i]] \in {final[FinalOf[i]], NoObject}
        /\ UNCHANGED <<record, moved, probes>> /\ pc'[i] \in {pc[i], "idle"}
    <3>1. CASE Crash
      BY <3>1 DEF Crash
    <3>2. CASE \E s \in Sources : RemoveSource(s)
      <4>1. PICK s \in Sources : RemoveSource(s)
        BY <3>2
      <4>2. \A t \in Sources : source'[t] \in {source[t], NoObject}
        BY <1>1, <4>1 DEF RemoveSource, Shape
      <4>. QED
        BY <4>1, <4>2 DEF RemoveSource, Removal
    <3>3. CASE \E j \in Jobs : RemoveStaged(j)
      BY <1>1, <3>3 DEF RemoveStaged, Removal, Shape
    <3>4. CASE \E f \in Finals : RemoveFinal(f)
      BY <1>1, <3>4 DEF RemoveFinal, Removal, Shape
    <3>. QED
      BY <1>1, <1>3, <3>1, <3>2, <3>3, <3>4, NoArrival DEF Environment
  <2>2. source'[SourceOf[i]] \in {source[SourceOf[i]], NoObject}
    BY <1>1, <2>1 DEF Shape
  <2>. QED
    BY <2>1, <2>2 DEF FailInv
<1>4. CASE UNCHANGED vars
  BY <1>4 DEF FailInv
<1>. QED
  BY <1>1, <1>2, <1>3, <1>4, OwnFail DEF Next

(* FAILED is never recorded for a job whose object waits under its staging   *)
(* name or sits at its final name, whatever crashes, failing calls, removals *)
(* and attempts came before, up to the first reuse of a source name and the  *)
(* first failing probe of a destination.                                     *)
THEOREM FailedIsNotMovedAlways ==
  ExclusiveFinals => (Spec => []FailedIsNotMoved)
<1>. SUFFICES ASSUME ExclusiveFinals PROVE Spec => []FailedIsNotMoved
  OBVIOUS
<1>. DEFINE Inv == arrivals = 0 => \A i \in Jobs : FailInv(i)
<1>1. Init => Inv
  BY DEF Init, FailInv
<1>2. SafeInv /\ Inv /\ [Next]_vars => Inv'
  <2>. SUFFICES ASSUME SafeInv, Inv, [Next]_vars, arrivals' = 0,
                       NEW i \in Jobs
                PROVE  FailInv(i)'
    OBVIOUS
  <2>1. arrivals = 0
    BY ArrivalsGrow DEF SafeInv, LagInv
  <2>. QED
    BY <2>1, FailStep DEF SafeInv
<1>3. Inv => FailedIsNotMoved
  BY DEF FailInv, FailedIsNotMoved
<1>. QED
  BY <1>1, <1>2, <1>3, SafeAlways, PTL DEF Spec

-----------------------------------------------------------------------------
(* Power losses.  Every state that the disk may fall back to is one the      *)
(* engine can go on from, and a name that was synced is in all of them.      *)

(* No other program touches the names.  *)
Undisturbed == MaxRemovals = 0 /\ MaxArrivals = 0

(* The names of one job in a state of the disk, given what its object was    *)
(* and whether it was ever published.                                        *)
Sound(src, stg, fin, object, shown, j) ==
  /\ stg[j] # NoObject => stg[j] = object
  /\ fin[FinalOf[j]] # NoObject =>
       /\ fin[FinalOf[j]] = object /\ shown # NoObject
       /\ src[SourceOf[j]] = NoObject /\ stg[j] = NoObject
  /\ src[SourceOf[j]] # NoObject /\ object # NoObject =>
       src[SourceOf[j]] = object

(* A source name never had two objects.  *)
Agree ==
  \A d, e \in Survivors : \A s \in Sources :
    d[1][s] # NoObject /\ e[1][s] # NoObject => d[1][s] = e[1][s]

SyncInv(j) ==
  /\ \A d \in Survivors : Sound(d[1], d[2], d[3], moved[j], published[j], j)
  /\ pc[j] \in SourceGone => source[SourceOf[j]] = NoObject
  /\ pc[j] \in {"syncDir", "recordDone"} => final[FinalOf[j]] # NoObject
  /\ pc[j] # "syncDir" /\ j \notin torn /\ final[FinalOf[j]] # NoObject =>
       \A d \in Survivors : d[3][FinalOf[j]] # NoObject
  /\ record[j] = "DONE" /\ j \notin torn => final[FinalOf[j]] # NoObject

Disks == [Sources -> Slot] \X [Jobs -> Slot] \X [Finals -> Slot]

PowerInv ==
  /\ LagInv /\ volatile \in Seq(Disks)
  /\ Agree /\ \A j \in Jobs : SyncInv(j)

HIDE DEF names, vars

LEMMA NamesAre ==
  /\ names[1] = source /\ names[2] = staged /\ names[3] = final
  /\ names'[1] = source' /\ names'[2] = staged' /\ names'[3] = final'
  BY SMT DEF names

LEMMA AppendedAre ==
  ASSUME NEW S, NEW q \in Seq(S), NEW x \in S, NEW r, r = Append(q, x)
  PROVE  /\ r \in Seq(S)
         /\ \A k \in DOMAIN r : r[k] = x \/ \E m \in DOMAIN q : r[k] = q[m]
  BY SMT

(* The states the disk may fall back to after a step that is no power loss.  *)
LEMMA SurvivorsStep ==
  ASSUME TypeOK, volatile \in Seq(Disks), Track
  PROVE  /\ volatile' \in Seq(Disks)
         /\ \A d \in Survivors' : d \in Survivors \/ d = names'
         /\ Synced => \A d \in Survivors' : d = names'
<1>1. names \in Disks
  BY SMT DEF TypeOK, Disks, names
<1>2. /\ <<>> \in Seq(Disks) /\ DOMAIN <<>> = {}
  BY SMT
<1>3. CASE Synced
  BY <1>2, <1>3 DEF Track, Survivors
<1>4. CASE ~Synced /\ names' = names
  BY <1>4 DEF Track, Survivors
<1>5. CASE ~Synced /\ names' # names
  <2>1. volatile' = Append(volatile, names)
    BY <1>5 DEF Track
  <2>2. /\ volatile' \in Seq(Disks)
        /\ \A k \in DOMAIN volatile' :
             \/ volatile'[k] = names
             \/ \E m \in DOMAIN volatile : volatile'[k] = volatile[m]
    BY <1>1, <2>1, AppendedAre, SMT
  <2>. QED
    BY <1>5, <2>2 DEF Survivors
<1>. QED
  BY <1>3, <1>4, <1>5

(* What a step may do to a job, and to the source names.  *)
PowerStep(i) ==
  /\ \A s \in Sources : source'[s] \in {source[s], NoObject}
  /\ \/ moved'[i] = moved[i]
     \/ /\ moved'[i] = source[SourceOf[i]]
        /\ source[SourceOf[i]] # NoObject
  /\ published[i] # NoObject => published'[i] # NoObject
  /\ Sound(source', staged', final', moved'[i], published'[i], i)
  /\ pc'[i] \in SourceGone => source'[SourceOf[i]] = NoObject
  /\ pc'[i] \in {"syncDir", "recordDone"} => final'[FinalOf[i]] # NoObject
  /\ final[FinalOf[i]] # NoObject => final'[FinalOf[i]] # NoObject
  /\ final'[FinalOf[i]] # NoObject =>
       final[FinalOf[i]] # NoObject \/ pc'[i] = "syncDir"
  /\ pc[i] = "syncDir" => pc'[i] \in {"syncDir", "recordDone", "idle"}
  /\ record'[i] = "DONE" => record[i] = "DONE" \/ pc[i] = "recordDone"

(* Nothing but the labels and the record changes.  *)
LEMMA StillPower ==
  ASSUME NEW i \in Jobs, SyncInv(i),
         \A s \in Sources : source'[s] \in {source[s], NoObject},
         source'[SourceOf[i]] \in {source[SourceOf[i]], NoObject},
         staged'[i] = staged[i], final'[FinalOf[i]] = final[FinalOf[i]],
         moved'[i] = moved[i], published'[i] = published[i],
         pc'[i] \in SourceGone => source'[SourceOf[i]] = NoObject,
         pc'[i] \in {"syncDir", "recordDone"} =>
           final[FinalOf[i]] # NoObject,
         pc[i] = "syncDir" => pc'[i] \in {"syncDir", "recordDone", "idle"},
         record'[i] = "DONE" => record[i] = "DONE" \/ pc[i] = "recordDone"
  PROVE  PowerStep(i)
<1>1. Sound(source, staged, final, moved[i], published[i], i)
  BY NamesAre DEF SyncInv, Survivors
<1>2. Sound(source', staged', final', moved'[i], published'[i], i)
  BY <1>1 DEF Sound
<1>. QED
  BY <1>2 DEF PowerStep

LEMMA OwnPower ==
  ASSUME LagInv, NEW i \in Jobs, SyncInv(i),
         RecordIntent(i) \/ Execute(i) \/ Recover(i) \/ EngineStep(i)
  PROVE  PowerStep(i)
<1>1. Shape /\ JobInv(i)
  BY TypeShape DEF LagInv
<1>2. /\ Sound(source, staged, final, moved[i], published[i], i)
      /\ pc[i] \in SourceGone => source[SourceOf[i]] = NoObject
      /\ pc[i] \in {"syncDir", "recordDone"} => final[FinalOf[i]] # NoObject
  BY NamesAre DEF SyncInv, Survivors
<1>. USE DEF Shape
<1>3. ASSUME UNCHANGED <<source, staged, final, moved, published>>,
             pc'[i] \in SourceGone => source[SourceOf[i]] = NoObject,
             pc'[i] \in {"syncDir", "recordDone"} =>
               final[FinalOf[i]] # NoObject,
             pc[i] = "syncDir" => pc'[i] \in {"syncDir", "recordDone", "idle"},
             record'[i] = "DONE" => record[i] = "DONE" \/ pc[i] = "recordDone"
      PROVE  PowerStep(i)
  BY <1>3, StillPower
<1>4. CASE RecordIntent(i)
  <2>1. /\ UNCHANGED <<source, staged, final, moved, published, pc>>
        /\ record'[i] = "QUEUED"
    BY <1>1, <1>4 DEF RecordIntent, names
  <2>. QED
    BY <1>2, <1>3, <2>1
<1>5. CASE Execute(i) \/ Validate(i) \/ RecordRenaming(i)
  <2>1. /\ UNCHANGED <<source, staged, final, moved, published>>
        /\ pc'[i] \in {"validate", "recordRenaming", "commit", "idle"}
        /\ pc[i] # "syncDir"
    BY <1>1, <1>5 DEF Execute, Validate, RecordRenaming, Goto, Return, names
  <2>2. record'[i] = "DONE" => record[i] = "DONE"
    BY <1>1, <1>5 DEF Execute, Validate, RecordRenaming, update_state
  <2>. QED
    BY <1>3, <2>1, <2>2 DEF SourceGone
<1>6. CASE Recover(i)
  <2>1. /\ UNCHANGED <<source, staged, final, moved, published, record>>
        /\ pc[i] # "syncDir"
    BY <1>6 DEF Recover, names
  <2>2. CASE pc'[i] = "idle"
    BY <1>3, <2>1, <2>2 DEF SourceGone
  <2>3. CASE pc'[i] = RecoverBranch[classify_move_state(i)]
    <3>1. /\ pc'[i] \notin {"syncDir", "recordDone"}
          /\ pc'[i] \in SourceGone => source[SourceOf[i]] = NoObject
      BY <2>3, ZenonT(30) DEF RecoverBranch, classify_move_state, SourceGone
    <3>. QED
      BY <1>3, <2>1, <3>1
  <2>. QED
    BY <1>1, <1>6, <2>2, <2>3 DEF Recover, Return
<1>7. CASE Finish(i) \/ RecordMoved(i) \/ Probe(i) \/ ProbeFinal(i)
           \/ SyncDir(i) \/ RecordDone(i)
  <2>1. /\ UNCHANGED <<source, staged, final, moved, published>>
        /\ pc[i] \in SourceGone
    BY <1>7 DEF Finish, RecordMoved, Probe, ProbeFinal, SyncDir, RecordDone,
       Halt, SourceGone, names
  <2>2. pc'[i] # "syncDir" /\ (pc'[i] = "recordDone" =>
                                 final[FinalOf[i]] # NoObject)
    BY <1>1, <1>2, <1>7 DEF Finish, RecordMoved, Probe, ProbeFinal, SyncDir,
       RecordDone, Goto, Return, Halt
  <2>3. record'[i] = "DONE" => record[i] = "DONE" \/ pc[i] = "recordDone"
    BY <1>1, <1>7 DEF Finish, RecordMoved, Probe, ProbeFinal, SyncDir,
       RecordDone, Halt, update_state
  <2>4. pc[i] = "syncDir" => pc'[i] \in {"recordDone", "idle"}
    BY <1>1, <1>7 DEF Finish, RecordMoved, Probe, ProbeFinal, SyncDir,
       RecordDone, Goto, Return, Halt
  <2>. QED
    BY <1>2, <1>3, <2>1, <2>2, <2>3, <2>4
<1>8. CASE Collision(i) \/ BothMissing(i) \/ FailExternal(i)
  <2>1. /\ UNCHANGED <<source, staged, final, moved, published>>
        /\ pc'[i] \in {"idle", "finish", "failExternal"}
        /\ pc'[i] # "idle" => pc[i] = "bothMissing"
        /\ pc[i] # "syncDir"
    BY <1>1, <1>8 DEF Collision, BothMissing, FailExternal, Goto, Return, names
  <2>2. record'[i] = "DONE" => record[i] = "DONE"
    BY <1>1, <1>8 DEF Collision, BothMissing, FailExternal, TryFail,
       update_state
  <2>. QED
    BY <1>2, <1>3, <2>1, <2>2 DEF SourceGone
<1>9. CASE Unlink(i) \/ Reunlink(i)
  <2>1. /\ UNCHANGED <<staged, final, moved, published, record>>
        /\ \A s \in Sources : source'[s] \in {source[s], NoObject}
        /\ source'[SourceOf[i]] \in {source[SourceOf[i]], NoObject}
        /\ pc[i] # "syncDir" /\ pc'[i] \in {"finish", "idle"}
        /\ pc'[i] = "finish" => source'[SourceOf[i]] = NoObject
    BY <1>1, <1>9 DEF Unlink, Reunlink, DropSource, Goto, Return
  <2>. QED
    BY <2>1, StillPower DEF SourceGone
<1>10. CASE (Commit(i) \/ Relink(i)) /\ ~Stage(i)
  <2>1. /\ UNCHANGED <<source, staged, final, moved, published, record>>
        /\ pc'[i] = "idle" /\ pc[i] # "syncDir"
    BY <1>1, <1>10 DEF Commit, Relink, CannotStage, Return, names
  <2>. QED
    BY <1>3, <2>1 DEF SourceGone
<1>11. CASE (Commit(i) \/ Relink(i)) /\ Stage(i)
  <2>1. /\ UNCHANGED <<final, published, record>>
        /\ source[SourceOf[i]] # NoObject
        /\ moved'[i] = source[SourceOf[i]] /\ staged'[i] = source[SourceOf[i]]
        /\ pc[i] # "syncDir"
    BY <1>1, <1>11 DEF Commit, Relink, Stage
  <2>2. /\ \A s \in Sources : source'[s] \in {source[s], NoObject}
        /\ source'[SourceOf[i]] \in {source[SourceOf[i]], NoObject}
        /\ pc'[i] \in {"finish", "unlink", "reunlink"}
        /\ pc'[i] = "finish" => source'[SourceOf[i]] = NoObject
    <3>1. CASE Commit(i)
      BY <1>1, <1>11, <3>1 DEF Commit, Stage, CannotStage, DropSource, Goto,
         Fault, names
    <3>2. CASE Relink(i)
      BY <1>1, <1>11, <3>2 DEF Relink, Stage, CannotStage, Goto, names
    <3>. QED
      BY <1>11, <3>1, <3>2
  <2>3. final[FinalOf[i]] = NoObject
    BY <1>2, <2>1 DEF Sound
  <2>4. Sound(source', staged', final', moved'[i], published'[i], i)
    BY <2>1, <2>2, <2>3 DEF Sound
  <2>. QED
    BY <2>1, <2>2, <2>3, <2>4 DEF PowerStep, SourceGone
<1>12. CASE Publish(i)
  <2>1. CASE RenameToFinal(i)
    <3>1. /\ staged[i] # NoObject /\ source[SourceOf[i]] = NoObject
          /\ final[FinalOf[i]] = NoObject /\ staged[i] = moved[i]
      BY <1>2, <1>12, <2>1 DEF Publish, RenameToFinal, Sound, SourceGone
    <3>2. /\ UNCHANGED <<source, moved, record>> /\ published'[i] = staged[i]
          /\ final'[FinalOf[i]] = staged[i] /\ staged'[i] = NoObject
          /\ pc[i] = "publish"
      BY <1>1, <1>12, <2>1, <3>1 DEF Publish, RenameToFinal
    <3>3. pc'[i] = "syncDir"
      BY <1>1, <1>12, <3>2, <3>1 DEF Publish, Goto, names
    <3>4. Sound(source', staged', final', moved'[i], published'[i], i)
      BY <3>1, <3>2 DEF Sound
    <3>. QED
      BY <3>1, <3>2, <3>3, <3>4 DEF PowerStep
  <2>2. CASE ~RenameToFinal(i)
    <3>1. /\ UNCHANGED <<source, staged, final, moved, published, record>>
          /\ pc'[i] = "idle" /\ pc[i] = "publish"
      BY <1>1, <1>12, <2>2 DEF Publish, Return, names
    <3>. QED
      BY <1>3, <3>1 DEF SourceGone
  <2>. QED
    BY <2>1, <2>2
<1>. QED
  BY <1>4, <1>5, <1>6, <1>7, <1>8, <1>9, <1>10, <1>11, <1>12 DEF EngineStep

(* The world outside can only crash the process.  *)
LEMMA OnlyCrash ==
  ASSUME Undisturbed, TypeOK, Environment
  PROVE  Crash
<1>1. ~(removals < MaxRemovals) /\ ~(arrivals < MaxArrivals)
  BY SMT DEF Undisturbed, TypeOK
<1>. QED
  BY <1>1 DEF Environment, RemoveSource, RemoveStaged, RemoveFinal, Removal,
     Arrive

LEMMA NextPowerStep ==
  ASSUME ExclusiveFinals, Undisturbed, PowerInv, [Next]_vars, NEW i \in Jobs
  PROVE  PowerStep(i)
<1>1. Shape /\ TypeOK /\ LagInv /\ SyncInv(i)
  BY TypeShape DEF LagInv, PowerInv
<1>2. ASSUME NEW j \in Jobs, i # j,
             RecordIntent(j) \/ Execute(j) \/ Recover(j) \/ EngineStep(j)
      PROVE  PowerStep(i)
  <2>1. /\ staged'[i] = staged[i] /\ final'[FinalOf[i]] = final[FinalOf[i]]
        /\ moved'[i] = moved[i] /\ published'[i] = published[i]
        /\ record'[i] = record[i] /\ pc'[i] = pc[i]
        /\ \A s \in Sources : source'[s] \in {source[s], NoObject}
    BY <1>1, <1>2, OtherJob
  <2>2. source'[SourceOf[i]] \in {source[SourceOf[i]], NoObject}
    BY <1>1, <2>1 DEF Shape
  <2>. QED
    BY <1>1, <2>1, <2>2, StillPower DEF SyncInv
<1>3. CASE UNCHANGED vars \/ Crash
  <2>1. /\ UNCHANGED <<source, staged, final, moved, published, record>>
        /\ pc'[i] \in {pc[i], "idle"}
    BY <1>3 DEF Crash, vars, names
  <2>. QED
    BY <1>1, <2>1, StillPower DEF SyncInv, SourceGone
<1>. QED
  BY <1>1, <1>2, <1>3, OnlyCrash, OwnPower DEF Next

LEMMA SourceShrinks ==
  ASSUME Undisturbed, TypeOK, [Next]_vars, \A i \in Jobs : PowerStep(i)
  PROVE  \A s \in Sources : source'[s] \in {source[s], NoObject}
<1>1. CASE UNCHANGED vars \/ Crash
  BY <1>1 DEF Crash, vars, names
<1>2. CASE \E i \in Jobs : TRUE
  BY <1>2 DEF PowerStep
<1>. QED
  BY <1>1, <1>2, OnlyCrash DEF Next

LEMMA TrackPower ==
  ASSUME PowerInv, Track, \A i \in Jobs : PowerStep(i),
         \A s \in Sources : source'[s] \in {source[s], NoObject}
  PROVE  Agree' /\ \A i \in Jobs : SyncInv(i)'
<1>1. /\ \A d \in Survivors' : d \in Survivors \/ d = names'
      /\ Synced => \A d \in Survivors' : d = names'
  BY SurvivorsStep DEF PowerInv, LagInv
<1>2. names \in Survivors
  BY DEF Survivors
<1>3. ASSUME NEW d \in Survivors', NEW s \in Sources, d[1][s] # NoObject
      PROVE  \E e \in Survivors : e[1][s] = d[1][s]
  BY <1>1, <1>2, <1>3, NamesAre
<1>4. ASSUME NEW i \in Jobs PROVE SyncInv(i)'
  <2>0. PowerStep(i) /\ SyncInv(i) /\ SourceOf[i] \in Sources
    BY <1>4, EngineAssumption DEF PowerInv
  <2>1. ASSUME NEW d \in Survivors'
        PROVE  Sound(d[1], d[2], d[3], moved'[i], published'[i], i)
    <3>1. CASE d = names'
      BY <2>0, <3>1, NamesAre DEF PowerStep
    <3>2. CASE d \in Survivors
      <4>1. Sound(d[1], d[2], d[3], moved[i], published[i], i)
        BY <2>0, <3>2 DEF SyncInv
      <4>2. Sound(source, staged, final, moved[i], published[i], i)
        BY <1>2, <2>0, NamesAre DEF SyncInv
      <4>3. CASE moved'[i] = moved[i]
        BY <2>0, <4>1, <4>3 DEF Sound, PowerStep
      <4>4. CASE moved'[i] # moved[i]
        <5>1. /\ moved'[i] = source[SourceOf[i]] /\ moved'[i] # NoObject
              /\ moved[i] = NoObject
          BY <2>0, <4>2, <4>4 DEF Sound, PowerStep
        <5>2. d[1][SourceOf[i]] # NoObject => d[1][SourceOf[i]] = moved'[i]
          BY <1>2, <2>0, <3>2, <5>1, NamesAre DEF PowerInv, Agree
        <5>. QED
          BY <4>1, <5>1, <5>2 DEF Sound
      <4>. QED
        BY <4>3, <4>4
    <3>. QED
      BY <1>1, <2>1, <3>1, <3>2
  <2>2. ASSUME pc'[i] # "syncDir", i \notin torn', final'[FinalOf[i]] # NoObject,
               NEW d \in Survivors'
        PROVE  d[3][FinalOf[i]] # NoObject
    <3>1. i \notin torn /\ ~(pc[i] = "syncDir" /\ pc'[i] = "idle")
      BY <1>4, <2>2 DEF Track
    <3>2. CASE pc[i] = "syncDir"
      <4>1. Synced
        BY <1>4, <2>0, <2>2, <3>1, <3>2 DEF PowerStep, Synced
      <4>. QED
        BY <1>1, <2>2, <4>1, NamesAre
    <3>3. CASE pc[i] # "syncDir"
      <4>1. \A e \in Survivors : e[3][FinalOf[i]] # NoObject
        BY <2>0, <2>2, <3>1, <3>3 DEF PowerStep, SyncInv
      <4>. QED
        BY <1>1, <2>2, <4>1, NamesAre
    <3>. QED
      BY <3>2, <3>3
  <2>3. torn \subseteq torn'
    BY DEF Track
  <2>. QED
    BY <2>0, <2>1, <2>2, <2>3 DEF PowerStep, SyncInv
<1>5. Agree'
  <2>. SUFFICES ASSUME NEW d \in Survivors', NEW e \in Survivors',
                       NEW s \in Sources,
                       d[1][s] # NoObject, e[1][s] # NoObject
                PROVE  d[1][s] = e[1][s]
    BY DEF Agree
  <2>1. PICK d0 \in Survivors : d0[1][s] = d[1][s]
    BY <1>3
  <2>2. PICK e0 \in Survivors : e0[1][s] = e[1][s]
    BY <1>3
  <2>. QED
    BY <2>1, <2>2 DEF PowerInv, Agree
<1>. QED
  BY <1>4, <1>5

LEMMA LossPower ==
  ASSUME PowerInv, PowerFail
  PROVE  PowerInv'
<1>1. PICK d \in Survivors :
        source' = d[1] /\ staged' = d[2] /\ final' = d[3]
  BY DEF PowerFail
<1>2. /\ UNCHANGED <<record, attention, moved, published, born, removed, torn>>
      /\ UNCHANGED <<faults, probes, crashes, removals, arrivals>>
      /\ pc' = [j \in Jobs |-> "idle"] /\ outcome' = [j \in Jobs |-> "none"]
      /\ volatile' = <<>>
  BY DEF PowerFail, rows, history, budget
<1>3. volatile' \in Seq(Disks) /\ Survivors' = {names'}
  <2>1. <<>> \in Seq(Disks) /\ DOMAIN <<>> = {}
    BY SMT
  <2>. QED
    BY <1>2, <2>1 DEF Survivors
<1>4. TypeOK'
  <2>1. d \in Disks
    <3>1. CASE d = names
      BY <3>1, SMT DEF PowerInv, LagInv, TypeOK, Disks, names
    <3>2. CASE \E k \in DOMAIN volatile : d = volatile[k]
      BY <3>2, SMT DEF PowerInv
    <3>. QED
      BY <3>1, <3>2 DEF Survivors
  <2>2. /\ source' \in [Sources -> Slot] /\ staged' \in [Jobs -> Slot]
        /\ final' \in [Finals -> Slot]
    BY <1>1, <2>1, SMT DEF Disks
  <2>3. /\ pc' \in [Jobs -> Label]
        /\ outcome' \in [Jobs -> MoveOutcome \cup {"none"}]
    BY <1>2 DEF Label
  <2>. QED
    BY <1>2, <2>2, <2>3 DEF PowerInv, LagInv, TypeOK
<1>5. ASSUME NEW i \in Jobs
      PROVE  JobInv(i)' /\ SyncInv(i)'
  <2>1. /\ Sound(d[1], d[2], d[3], moved[i], published[i], i)
        /\ JobInv(i) /\ pc'[i] = "idle" /\ SyncInv(i)
    BY <1>1, <1>2, <1>5 DEF PowerInv, SyncInv, LagInv
  <2>2. Sound(source', staged', final', moved[i], published[i], i)
    BY <1>1, <2>1
  <2>3. JobInv(i)'
    BY <1>2, <2>1, <2>2 DEF JobInv, Sound, PastCommit
  <2>4. record[i] = "DONE" /\ i \notin torn => final'[FinalOf[i]] # NoObject
    <3>1. record[i] = "DONE" => pc[i] # "syncDir"
      BY <2>1 DEF JobInv
    <3>. QED
      BY <1>1, <2>1, <3>1 DEF SyncInv
  <2>5. SyncInv(i)'
    BY <1>2, <1>3, <2>1, <2>2, <2>4, NamesAre DEF SyncInv, SourceGone
  <2>. QED
    BY <2>3, <2>5
<1>6. Agree'
  BY <1>3 DEF Agree
<1>. QED
  BY <1>3, <1>4, <1>5, <1>6 DEF PowerInv, LagInv

LEMMA PowerNext ==
  ASSUME ExclusiveFinals, Undisturbed, PowerInv, [PNext]_pvars
  PROVE  PowerInv'
<1>1. CASE Next /\ Track
  <2>1. \A i \in Jobs : PowerStep(i)
    BY <1>1, NextPowerStep
  <2>2. Agree' /\ \A i \in Jobs : SyncInv(i)'
    BY <1>1, <2>1, SourceShrinks, TrackPower DEF PowerInv, LagInv
  <2>3. LagInv' /\ volatile' \in Seq(Disks)
    BY <1>1, LagStep, SurvivorsStep DEF PowerInv, LagInv
  <2>. QED
    BY <2>2, <2>3 DEF PowerInv
<1>2. CASE UNCHANGED pvars
  <2>1. /\ UNCHANGED <<source, staged, final, moved, published, pc, record>>
        /\ UNCHANGED <<volatile, torn, vars, names>>
    BY <1>2 DEF pvars, vars, names
  <2>2. LagInv'
    BY <2>1, LagStep DEF PowerInv
  <2>3. UNCHANGED Survivors
    BY <2>1 DEF Survivors
  <2>. QED
    BY <2>1, <2>2, <2>3 DEF PowerInv, Agree, SyncInv
<1>. QED
  BY <1>1, <1>2, LossPower DEF PNext

(* DONE survives any number of power losses, whatever crashes, failing calls *)
(* and attempts there were and under either strategy, with any number of     *)
(* jobs on one source: only a publish() that was cut off between its rename  *)
(* and its fsync can be taken back after DONE.                               *)
THEOREM DoneIsDurableAlways ==
  ExclusiveFinals /\ Undisturbed => (PSpec => []DoneIsDurable)
<1>. SUFFICES ASSUME ExclusiveFinals, Undisturbed
              PROVE  PSpec => []DoneIsDurable
  OBVIOUS
<1>1. PInit => PowerInv
  <2>. SUFFICES ASSUME PInit PROVE PowerInv
    OBVIOUS
  <2>1. LagInv
    BY LagInit DEF PInit
  <2>2. volatile \in Seq(Disks) /\ Survivors = {names}
    <3>1. <<>> \in Seq(Disks) /\ DOMAIN <<>> = {}
      BY SMT
    <3>. QED
      BY <3>1 DEF PInit, Survivors
  <2>3. ASSUME NEW j \in Jobs PROVE SyncInv(j)
    <3>1. /\ staged[j] = NoObject /\ final[FinalOf[j]] = NoObject
          /\ moved[j] = NoObject /\ pc[j] = "idle" /\ record[j] = "ABSENT"
      BY EngineAssumption DEF PInit, Init, ExclusiveFinals
    <3>2. Sound(source, staged, final, moved[j], published[j], j)
      BY <3>1 DEF Sound
    <3>. QED
      BY <2>2, <3>1, <3>2, NamesAre DEF SyncInv, SourceGone
  <2>4. Agree
    BY <2>2 DEF Agree
  <2>. QED
    BY <2>1, <2>2, <2>3, <2>4 DEF PowerInv
<1>2. PowerInv /\ [PNext]_pvars => PowerInv'
  BY PowerNext
<1>3. PowerInv => DoneIsDurable
  <2>. SUFFICES ASSUME PowerInv, NEW j \in Jobs, record[j] = "DONE",
                       j \notin torn, NEW d \in Survivors
                PROVE  d[3][FinalOf[j]] = moved[j]
    BY DEF DoneIsDurable
  <2>1. SyncInv(j) /\ pc[j] # "syncDir"
    BY DEF PowerInv, LagInv, JobInv
  <2>2. d[3][FinalOf[j]] # NoObject
    BY <2>1 DEF SyncInv
  <2>. QED
    BY <2>1, <2>2 DEF SyncInv, Sound
<1>. QED
  BY <1>1, <1>2, <1>3, PTL DEF PSpec
=============================================================================
