---------------------------- MODULE MoveEngine ----------------------------
(***************************************************************************)
(* The move engine (cpp/src/mover.cpp) with the filesystem layer it drives *)
(* (cpp/src/fsops.cpp) and the durable rows it writes (cpp/src/store.cpp). *)
(*                                                                         *)
(* Every job moves the object at its source name, through a staging name   *)
(* of its own, to its final name.  Two jobs may name the same source or    *)
(* the same final name.  Each system call and each store statement whose   *)
(* effect another actor can see is one step, so that crashes, other jobs   *)
(* and other users of the directories interleave between them.  At most    *)
(* one thread runs a given job: that is the job manager's promise.         *)
(***************************************************************************)
EXTENDS Naturals, JobCore

CONSTANTS
  Jobs,         \* job identifiers
  Sources,      \* names in source directories
  Finals,       \* final names in destination directories
  Objects,      \* file objects (inodes)
  Regular,      \* the objects that are regular files
  NoObject,     \* the content of a name that does not exist
  SourceOf,     \* [Jobs -> Sources], MoveRequest source_dir/source_name
  FinalOf,      \* [Jobs -> Finals],  MoveRequest dest_dir/dest_name
  Strategies,   \* what execute() may be called with
  Occupants,    \* objects that may sit at final names beforehand
  MaxProbeFaults,   \* bound on failing classify() of destination names
  MaxFaults,    \* bound on failing system calls and store statements
  MaxCrashes,   \* bound on crashes of the process
  MaxRemovals,  \* bound on names removed by other programs
  MaxArrivals   \* bound on new files that producers put at source names

ASSUME EngineAssumption ==
  /\ Regular \subseteq Objects
  /\ Occupants \subseteq Objects
  /\ NoObject \notin Objects
  /\ SourceOf \in [Jobs -> Sources]
  /\ FinalOf \in [Jobs -> Finals]
  /\ {MaxFaults, MaxProbeFaults, MaxCrashes, MaxRemovals, MaxArrivals}
       \subseteq Nat

ASSUME StrategyAssumption ==
  Strategies \subseteq {"RenameNoReplace", "LinkThenUnlink"}

VARIABLES
  source,     \* [Sources -> object or NoObject]
  staged,     \* [Jobs -> object or NoObject], the staging names
  final,      \* [Finals -> object or NoObject]
  record,     \* [Jobs -> RowState], the durable state column
  attention,  \* [Jobs -> BOOLEAN], the durable needs_attention column
  pc,         \* [Jobs -> Label], where the thread running the job is
  outcome,    \* [Jobs -> Outcome], what the last call returned
  moved,      \* history: the object a job last gave its staging name
  published,  \* history: the object a job last gave its final name
  born,       \* history: the objects that have existed
  removed,    \* history: the objects another program took a name from
  faults, probes, crashes, removals, arrivals   \* how much is used

names   == <<source, staged, final>>
rows    == <<record, attention>>
control == <<pc, outcome>>
history == <<moved, published, born, removed>>
budget  == <<faults, probes, crashes, removals, arrivals>>
vars    == <<names, rows, control, history, budget>>

Label == {"idle", "validate", "recordRenaming", "commit", "unlink", "finish",
          "recordMoved", "probe", "probeFinal", "publish", "syncDir",
          "recordDone", "relink", "reunlink", "collision", "bothMissing",
          "failExternal"}

MoveOutcome == {"Completed", "Rejected", "AbortedBeforeCommit",
                "HaltedAfterCommit", "FailedExternal"}

Slot == Objects \cup {NoObject}

(* Types, proved in MoveEngineProofs.  *)
TypeOK ==
  /\ source \in [Sources -> Slot]
  /\ staged \in [Jobs -> Slot]
  /\ final \in [Finals -> Slot]
  /\ record \in [Jobs -> RowState]
  /\ attention \in [Jobs -> BOOLEAN]
  /\ pc \in [Jobs -> Label]
  /\ outcome \in [Jobs -> MoveOutcome \cup {"none"}]
  /\ moved \in [Jobs -> Slot]
  /\ published \in [Jobs -> Slot]
  /\ born \subseteq Objects
  /\ removed \subseteq Objects
  /\ faults \in 0..MaxFaults
  /\ probes \in 0..MaxProbeFaults
  /\ crashes \in 0..MaxCrashes
  /\ removals \in 0..MaxRemovals
  /\ arrivals \in 0..MaxArrivals

(* Every object starts with at most one name.  *)
Init ==
  /\ source \in [Sources -> Slot \ Occupants]
  /\ \A s, t \in Sources :
        source[s] = source[t] /\ source[s] # NoObject => s = t
  /\ final \in [Finals -> Occupants \cup {NoObject}]
  /\ \A f, g \in Finals :
        final[f] = final[g] /\ final[f] # NoObject => f = g
  /\ staged = [j \in Jobs |-> NoObject]
  /\ record = [j \in Jobs |-> "ABSENT"]
  /\ attention = [j \in Jobs |-> FALSE]
  /\ pc = [j \in Jobs |-> "idle"]
  /\ outcome = [j \in Jobs |-> "none"]
  /\ moved = [j \in Jobs |-> NoObject]
  /\ published = [j \in Jobs |-> NoObject]
  /\ born = {o \in Objects : \/ \E s \in Sources : source[s] = o
                             \/ \E f \in Finals : final[f] = o}
  /\ removed = {}
  /\ faults = 0 /\ probes = 0 /\ crashes = 0 /\ removals = 0
  /\ arrivals = 0

-----------------------------------------------------------------------------
(* What the steps are made of.  *)

Goto(j, label) ==
  /\ pc' = [pc EXCEPT ![j] = label]
  /\ UNCHANGED outcome

Return(j, result) ==
  /\ pc' = [pc EXCEPT ![j] = "idle"]
  /\ outcome' = [outcome EXCEPT ![j] = result]

(* A call that could have worked reports an error and has no effect.  *)
Fault ==
  /\ faults < MaxFaults
  /\ faults' = faults + 1
  /\ UNCHANGED <<probes, crashes, removals, arrivals>>

(* classify() of a destination name reports an error.  *)
ProbeFault ==
  /\ probes < MaxProbeFaults
  /\ probes' = probes + 1
  /\ UNCHANGED <<faults, crashes, removals, arrivals>>

(* JobStore::update_state: load, ask the core state machine, UPDATE.  *)
update_state(j, to) ==
  /\ is_legal_transition(record[j], to)
  /\ record' = [record EXCEPT ![j] = to]

(* JobStore::mark_needs_attention, whose result every caller ignores.  *)
mark_needs_attention(j) ==
  \/ attention' = [attention EXCEPT ![j] = TRUE]
  \/ UNCHANGED attention

(* After the commit point the engine flags the job and stops.  *)
Halt(j, result) ==
  /\ mark_needs_attention(j)
  /\ Return(j, result)
  /\ UNCHANGED <<names, record, history>>

(* Mutant: two names of one object are not told from two objects.  *)
classify_move_state_coarse(j) ==
  LET from == source[SourceOf[j]]
      to   == staged[j]
  IN  IF from # NoObject /\ to # NoObject THEN "Collision"
      ELSE IF from # NoObject THEN "NotStarted"
      ELSE IF to # NoObject THEN "Completed"
      ELSE "BothMissing"

(* fsops classify_move_state(source name, staging name).  *)
classify_move_state(j) ==
  LET from == source[SourceOf[j]]
      to   == staged[j]
  IN  IF from # NoObject /\ to # NoObject
      THEN IF from = to THEN "Interrupted" ELSE "Collision"
      ELSE IF from # NoObject THEN "NotStarted"
      ELSE IF to # NoObject THEN "Completed"
      ELSE "BothMissing"

-----------------------------------------------------------------------------
(* The callers: the intent is recorded before the engine is called.  *)

RecordIntent(j) ==
  /\ record[j] = "ABSENT"
  /\ record' = [record EXCEPT ![j] = "QUEUED"]
  /\ UNCHANGED <<names, attention, control, history, budget>>

Execute(j) ==
  /\ pc[j] = "idle"
  /\ pc' = [pc EXCEPT ![j] = "validate"]
  /\ outcome' = [outcome EXCEPT ![j] = "none"]
  /\ UNCHANGED <<names, rows, history, budget>>

(* Mutant: neither name there is failed without a look at the final name.  *)
RecoverBranch_blind ==
  [NotStarted |-> "validate", Interrupted |-> "relink",
   Completed |-> "finish", Collision |-> "collision",
   BothMissing |-> "failExternal"]

(* recover(): the names on disk choose the branch, not the record.  *)
RecoverBranch ==
  [NotStarted |-> "validate", Interrupted |-> "relink",
   Completed |-> "finish", Collision |-> "collision",
   BothMissing |-> "bothMissing"]

Recover(j) ==
  /\ pc[j] = "idle"
  /\ UNCHANGED <<names, rows, history>>
  /\ \/ /\ record[j] # "ABSENT"
        /\ pc' = [pc EXCEPT ![j] = RecoverBranch[classify_move_state(j)]]
        /\ outcome' = [outcome EXCEPT ![j] = "none"]
        /\ UNCHANGED budget
     \/ record[j] = "ABSENT" /\ Return(j, "Rejected") /\ UNCHANGED budget
     \/ Fault /\ Return(j, "Rejected")

-----------------------------------------------------------------------------
(* execute(), phases 1 to 3.  *)

Validate(j) ==
  /\ pc[j] = "validate"
  /\ UNCHANGED <<names, rows, history>>
  /\ \/ /\ record[j] # "ABSENT"
        /\ source[SourceOf[j]] \in Regular
        /\ \/ record[j] = "DONE" /\ Return(j, "Completed")
           \/ record[j] = "FAILED" /\ Return(j, "Rejected")
           \/ record[j] = "QUEUED" /\ Goto(j, "recordRenaming")
           \/ /\ record[j] \in {"RENAMING", "TRANSFERRING"}
              /\ Goto(j, "commit")
        /\ UNCHANGED budget
     \/ /\ record[j] = "ABSENT" \/ source[SourceOf[j]] \notin Regular
        /\ Return(j, "Rejected")
        /\ UNCHANGED budget
     \/ Fault /\ Return(j, "Rejected")

(* Mutant: a failed intent is handled as a halt past the commit point.  *)
RecordRenaming_halts(j) ==
  /\ pc[j] = "recordRenaming"
  /\ \/ /\ update_state(j, "RENAMING") /\ Goto(j, "commit")
        /\ UNCHANGED <<names, attention, history, budget>>
     \/ Fault /\ Halt(j, "AbortedBeforeCommit")

RecordRenaming(j) ==
  /\ pc[j] = "recordRenaming"
  /\ UNCHANGED <<names, attention, history>>
  /\ \/ update_state(j, "RENAMING") /\ Goto(j, "commit") /\ UNCHANGED budget
     \/ /\ Fault
        /\ Return(j, "AbortedBeforeCommit")
        /\ UNCHANGED record

(* The new staging name: renameat2 and linkat both refuse to replace.  *)
Stage(j) ==
  /\ source[SourceOf[j]] # NoObject
  /\ staged[j] = NoObject
  /\ staged' = [staged EXCEPT ![j] = source[SourceOf[j]]]
  /\ moved' = [moved EXCEPT ![j] = source[SourceOf[j]]]
  /\ UNCHANGED <<final, published, born, removed>>

DropSource(j) ==
  source' = [source EXCEPT ![SourceOf[j]] = NoObject]

(* Mutant: the source is unlinked although the new name was not made.  *)
CannotStage_unlinks(j) ==
  /\ \/ /\ source[SourceOf[j]] = NoObject \/ staged[j] # NoObject
        /\ UNCHANGED budget
     \/ Fault
  /\ DropSource(j)
  /\ UNCHANGED <<staged, final, history>>

CannotStage(j) ==
  /\ \/ /\ source[SourceOf[j]] = NoObject \/ staged[j] # NoObject
        /\ UNCHANGED budget
     \/ Fault
  /\ UNCHANGED <<names, history>>

Commit(j) ==
  /\ pc[j] = "commit"
  /\ UNCHANGED rows
  /\ \/ /\ Stage(j) /\ UNCHANGED budget
        /\ \/ /\ "RenameNoReplace" \in Strategies
              /\ DropSource(j)
              /\ Goto(j, "finish")
           \/ /\ "LinkThenUnlink" \in Strategies
              /\ UNCHANGED source
              /\ Goto(j, "unlink")
     \/ CannotStage(j) /\ Return(j, "AbortedBeforeCommit")

Unlink(j) ==
  /\ pc[j] = "unlink"
  /\ UNCHANGED <<staged, final, rows, history>>
  /\ \/ /\ source[SourceOf[j]] # NoObject
        /\ DropSource(j)
        /\ Goto(j, "finish")
        /\ UNCHANGED budget
     \/ /\ \/ source[SourceOf[j]] = NoObject /\ UNCHANGED budget
           \/ Fault
        /\ Return(j, "AbortedBeforeCommit")
        /\ UNCHANGED source

-----------------------------------------------------------------------------
(* finish_after_commit(), phases 4 to 6.  *)

Finish(j) ==
  /\ pc[j] = "finish"
  /\ UNCHANGED <<names, rows, history>>
  /\ \/ /\ \/ record[j] = "DONE" /\ Return(j, "Completed")
           \/ record[j] = "FAILED" /\ Return(j, "HaltedAfterCommit")
           \/ record[j] = "RENAMING" /\ Goto(j, "recordMoved")
           \/ /\ record[j] \in {"QUEUED", "TRANSFERRING"}
              /\ Goto(j, "probe")
        /\ UNCHANGED budget
     \/ Fault /\ Return(j, "HaltedAfterCommit")

RecordMoved(j) ==
  /\ pc[j] = "recordMoved"
  /\ \/ /\ update_state(j, "TRANSFERRING")
        /\ Goto(j, "probe")
        /\ UNCHANGED <<names, attention, history, budget>>
     \/ Fault /\ Halt(j, "HaltedAfterCommit")

(* A name whose classify() reports an error counts as not seen.  *)
Probe(j) ==
  /\ pc[j] = "probe"
  /\ UNCHANGED <<names, rows, history>>
  /\ \/ /\ staged[j] # NoObject
        /\ Goto(j, "publish")
        /\ UNCHANGED budget
     \/ /\ \/ staged[j] = NoObject /\ UNCHANGED budget
           \/ ProbeFault
        /\ Goto(j, "probeFinal")

(* Mutant: a staging name that is gone is taken for a finished publish.  *)
ProbeFinal_assumed(j) ==
  /\ pc[j] = "probeFinal"
  /\ Goto(j, "recordDone")
  /\ UNCHANGED <<names, rows, history, budget>>

ProbeFinal(j) ==
  /\ pc[j] = "probeFinal"
  /\ \/ /\ final[FinalOf[j]] # NoObject
        /\ Goto(j, "recordDone")
        /\ UNCHANGED <<names, rows, history, budget>>
     \/ /\ \/ final[FinalOf[j]] = NoObject /\ UNCHANGED budget
           \/ ProbeFault
        /\ Halt(j, "FailedExternal")

(* fsops publish(): renameat replaces whatever holds the final name; two    *)
(* names of one object make it a successful no-op.                          *)
RenameToFinal(j) ==
  /\ staged[j] # NoObject
  /\ final' = [final EXCEPT ![FinalOf[j]] = staged[j]]
  /\ staged' = IF final[FinalOf[j]] = staged[j] THEN staged
               ELSE [staged EXCEPT ![j] = NoObject]
  /\ published' = [published EXCEPT ![j] = staged[j]]
  /\ UNCHANGED <<source, moved, born, removed>>

(* publish() up to its rename: the fsync of the file and the rename itself   *)
(* may fail.                                                                 *)
Publish(j) ==
  /\ pc[j] = "publish"
  /\ UNCHANGED record
  /\ \/ /\ RenameToFinal(j)
        /\ Goto(j, "syncDir")
        /\ UNCHANGED <<attention, budget>>
     \/ /\ \/ staged[j] = NoObject /\ UNCHANGED budget
           \/ Fault
        /\ mark_needs_attention(j)
        /\ Return(j, "HaltedAfterCommit")
        /\ UNCHANGED <<names, history>>

(* The fsync of the destination directory that ends publish().  *)
SyncDir(j) ==
  /\ pc[j] = "syncDir"
  /\ \/ /\ Goto(j, "recordDone")
        /\ UNCHANGED <<names, rows, history, budget>>
     \/ Fault /\ Halt(j, "HaltedAfterCommit")

RecordDone(j) ==
  /\ pc[j] = "recordDone"
  /\ \/ /\ update_state(j, "DONE")
        /\ Return(j, "Completed")
        /\ UNCHANGED <<names, attention, history, budget>>
     \/ /\ \/ ~is_legal_transition(record[j], "DONE") /\ UNCHANGED budget
           \/ Fault
        /\ Halt(j, "HaltedAfterCommit")

-----------------------------------------------------------------------------
(* The branches of recover() that are not execute() or finish_after_commit. *)

(* Interrupted: move_within(LinkThenUnlink) is called again from its top.  *)
Relink(j) ==
  /\ pc[j] = "relink"
  /\ UNCHANGED record
  /\ \/ /\ Stage(j)
        /\ Goto(j, "reunlink")
        /\ UNCHANGED <<source, attention, budget>>
     \/ /\ CannotStage(j)
        /\ mark_needs_attention(j)
        /\ Return(j, "HaltedAfterCommit")

Reunlink(j) ==
  /\ pc[j] = "reunlink"
  /\ UNCHANGED <<staged, final, record, history>>
  /\ \/ /\ source[SourceOf[j]] # NoObject
        /\ DropSource(j)
        /\ Goto(j, "finish")
        /\ UNCHANGED <<attention, budget>>
     \/ /\ \/ source[SourceOf[j]] = NoObject /\ UNCHANGED budget
           \/ Fault
        /\ mark_needs_attention(j)
        /\ Return(j, "HaltedAfterCommit")
        /\ UNCHANGED source

(* The FAILED write whose result is ignored: illegal, failing, or done.  *)
TryFail(j) ==
  \/ update_state(j, "FAILED") /\ UNCHANGED budget
  \/ /\ ~is_legal_transition(record[j], "FAILED")
     /\ UNCHANGED <<record, budget>>
  \/ Fault /\ UNCHANGED record

Collision(j) ==
  /\ pc[j] = "collision"
  /\ TryFail(j)
  /\ Return(j, "HaltedAfterCommit")
  /\ UNCHANGED <<names, attention, history>>

(* An error of the last probe counts as a missing final name.  *)
BothMissing(j) ==
  /\ pc[j] = "bothMissing"
  /\ UNCHANGED <<names, rows, history>>
  /\ \/ /\ final[FinalOf[j]] # NoObject
        /\ Goto(j, "finish")
        /\ UNCHANGED budget
     \/ /\ \/ final[FinalOf[j]] = NoObject /\ UNCHANGED budget
           \/ ProbeFault
        /\ Goto(j, "failExternal")

FailExternal(j) ==
  /\ pc[j] = "failExternal"
  /\ TryFail(j)
  /\ Return(j, "FailedExternal")
  /\ UNCHANGED <<names, attention, history>>

-----------------------------------------------------------------------------
(* The world outside the engine.  *)

(* SIGKILL or a crash of the process: only names and rows survive.  *)
Crash ==
  /\ crashes < MaxCrashes
  /\ crashes' = crashes + 1
  /\ pc' = [j \in Jobs |-> "idle"]
  /\ outcome' = [j \in Jobs |-> "none"]
  /\ UNCHANGED <<names, rows, history, faults, probes, removals, arrivals>>

(* Another program (a quarantine, a consumer) removes one name.  *)
Removal(o) ==
  /\ removals < MaxRemovals
  /\ removals' = removals + 1
  /\ removed' = removed \cup {o}
  /\ UNCHANGED <<rows, control, moved, published, born, faults, probes,
                 crashes, arrivals>>

RemoveSource(s) ==
  /\ source[s] # NoObject
  /\ Removal(source[s])
  /\ source' = [source EXCEPT ![s] = NoObject]
  /\ UNCHANGED <<staged, final>>

RemoveStaged(j) ==
  /\ staged[j] # NoObject
  /\ Removal(staged[j])
  /\ staged' = [staged EXCEPT ![j] = NoObject]
  /\ UNCHANGED <<source, final>>

RemoveFinal(f) ==
  /\ final[f] # NoObject
  /\ Removal(final[f])
  /\ final' = [final EXCEPT ![f] = NoObject]
  /\ UNCHANGED <<source, staged>>

(* A producer writes its next recording under a source name that is free.  *)
Arrive(s, o) ==
  /\ arrivals < MaxArrivals
  /\ arrivals' = arrivals + 1
  /\ source[s] = NoObject
  /\ o \in Objects \ born
  /\ source' = [source EXCEPT ![s] = o]
  /\ born' = born \cup {o}
  /\ UNCHANGED <<staged, final, rows, control, moved, published, removed,
                 faults, probes, crashes, removals>>

-----------------------------------------------------------------------------

(* One step of the thread that runs job j.  *)
EngineStep(j) ==
  \/ Validate(j) \/ RecordRenaming(j) \/ Commit(j) \/ Unlink(j)
  \/ Finish(j) \/ RecordMoved(j) \/ Probe(j) \/ ProbeFinal(j)
  \/ Publish(j) \/ SyncDir(j) \/ RecordDone(j)
  \/ Relink(j) \/ Reunlink(j) \/ Collision(j) \/ BothMissing(j)
  \/ FailExternal(j)

Environment ==
  \/ Crash
  \/ \E s \in Sources : RemoveSource(s)
  \/ \E j \in Jobs : RemoveStaged(j)
  \/ \E f \in Finals : RemoveFinal(f)
  \/ \E s \in Sources, o \in Objects : Arrive(s, o)

Next ==
  \/ \E j \in Jobs : RecordIntent(j) \/ Execute(j) \/ Recover(j)
                     \/ EngineStep(j)
  \/ Environment

Spec == Init /\ [][Next]_vars

(* The threads run, and whoever drives the engine keeps recovering a job    *)
(* that has not reached a terminal state, as the crash suite does.          *)
DrivenSpec ==
  /\ Spec
  /\ \A j \in Jobs :
       /\ WF_vars(EngineStep(j))
       /\ SF_vars(~is_terminal(record[j]) /\ Recover(j))

-----------------------------------------------------------------------------
(* Properties.  *)

(* No other job and no other program puts objects at a job's final name.  *)
ExclusiveFinals ==
  /\ \A i, j \in Jobs : FinalOf[i] = FinalOf[j] => i = j
  /\ Occupants = {}

Named(o) ==
  \/ \E s \in Sources : source[s] = o
  \/ \E j \in Jobs : staged[j] = o
  \/ \E f \in Finals : final[f] = o

(* "A crash can leave the record behind the filesystem by exactly one step"  *)
(* (mover.cpp, recover): the durable state never runs ahead of the names on  *)
(* disk and never lags them by more than one phase, across crashes, failing  *)
(* writes and re-driven attempts.                                            *)
RecordLagsDisk ==
  \A j \in Jobs :
    /\ record[j] \in {"ABSENT", "QUEUED"} => moved[j] = NoObject
    /\ record[j] = "RENAMING" => published[j] = NoObject
    /\ record[j] = "TRANSFERRING" => moved[j] # NoObject
    /\ record[j] = "DONE" => published[j] # NoObject

(* No engine step leaves an object without a name: only an object that       *)
(* another program removed can be gone (mover.hpp: no path deletes a source  *)
(* whose destination is not in place), as long as no producer has reused the *)
(* source name of a job under way.                                           *)
NoObjectLost ==
  arrivals = 0 => \A o \in born \ removed : Named(o)

(* A job that is DONE has published the very object it took from the source  *)
(* name, nothing of it is left under the staging name, and only another      *)
(* program can have removed it from the final name since; as long as the     *)
(* source name is not reused.                                                *)
DoneIsDelivered ==
  arrivals = 0 => \A j \in Jobs : record[j] = "DONE" =>
    /\ staged[j] = NoObject
    /\ published[j] = moved[j]
    /\ moved[j] \in removed \/ final[FinalOf[j]] = moved[j]

(* needs_attention is raised only on jobs that really passed the commit      *)
(* point: an operator is never sent after a job whose object never moved.    *)
AttentionIsPastCommit ==
  \A j \in Jobs : attention[j] => moved[j] # NoObject

(* Publishing never replaces a file that already has the final name          *)
(* (L1-SEC-006): a final name changes hands only through a removal.          *)
FinalNeverReplaced ==
  [][\A f \in Finals : final[f] # NoObject
                          => final'[f] \in {final[f], NoObject}]_vars

(* FAILED is not recorded for a job whose object has left the source: not if *)
(* it waits under the staging name, where an interrupted linkat/unlinkat     *)
(* pair is told from a collision (L2-NFS-003; a new file under the source    *)
(* name is such a collision), and not if it sits at its final name, which    *)
(* recover() looks at last (L2-SEC-011), unless that look itself fails.      *)
FailedIsNotMoved ==
  arrivals = 0 => \A j \in Jobs : record[j] = "FAILED" =>
    /\ staged[j] = NoObject
    /\ probes = 0 /\ published[j] # NoObject => final[FinalOf[j]] # published[j]

(* Re-driving converges (L1-SEC-002): a job whose source was there is        *)
(* eventually DONE for good, whatever crashes and failing calls hit it.      *)
RecoveryConverges ==
  \A j \in Jobs : (record[j] = "QUEUED" /\ source[SourceOf[j]] \in Regular)
                     ~> [](record[j] = "DONE")

(* How far a job's object has got, as MoveContract sees it.  *)
Disk == [j \in Jobs |-> IF published[j] # NoObject THEN "final"
                        ELSE IF moved[j] # NoObject THEN "staged"
                        ELSE "source"]

Contract == INSTANCE MoveContract WITH disk <- Disk

(* What the engine promises about the record and the disk, as an abstract    *)
(* machine: every step, crash and re-driven attempt of the engine is a step  *)
(* of MoveContract or invisible to it.                                       *)
ImplementsContract == Contract!Spec
=============================================================================
