---------------------------- MODULE MoveContract ----------------------------
(***************************************************************************)
(* What the move engine promises, with no names, threads or crashes: each  *)
(* job has a durable record and a place its object has reached.  The disk  *)
(* and the record advance alternately, so that whichever one is read after *)
(* a crash tells where the move stopped (docs/C3-PLAN.md, section 4).      *)
(***************************************************************************)
EXTENDS JobCore

CONSTANTS Jobs

VARIABLES
  record,  \* [Jobs -> RowState]
  disk     \* [Jobs -> {"source", "staged", "final"}], how far the object got

Init ==
  /\ record = [j \in Jobs |-> "ABSENT"]
  /\ disk = [j \in Jobs |-> "source"]

Record(j, from, to) ==
  /\ record[j] = from
  /\ record' = [record EXCEPT ![j] = to]
  /\ UNCHANGED disk

Move(j, from, to) ==
  /\ disk[j] = from
  /\ disk' = [disk EXCEPT ![j] = to]
  /\ UNCHANGED record

Submit(j) == disk[j] = "source" /\ Record(j, "ABSENT", "QUEUED")

Begin(j) == disk[j] = "source" /\ Record(j, "QUEUED", "RENAMING")

Commit(j) == record[j] = "RENAMING" /\ Move(j, "source", "staged")

Moved(j) == disk[j] = "staged" /\ Record(j, "RENAMING", "TRANSFERRING")

Publish(j) == record[j] = "TRANSFERRING" /\ Move(j, "staged", "final")

Done(j) == disk[j] = "final" /\ Record(j, "TRANSFERRING", "DONE")

Fail(j) == \E s \in {"QUEUED", "RENAMING", "TRANSFERRING"} :
             Record(j, s, "FAILED")

Next == \E j \in Jobs : \/ Submit(j) \/ Begin(j) \/ Commit(j) \/ Moved(j)
                        \/ Publish(j) \/ Done(j) \/ Fail(j)

Spec == Init /\ [][Next]_<<record, disk>>
=============================================================================
