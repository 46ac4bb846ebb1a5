----------------------------- MODULE PowerLoss -----------------------------
(***************************************************************************)
(* The move engine on a machine that may lose power.  The renames, links   *)
(* and unlinks of one filesystem become durable in the order they were     *)
(* made (an ordered metadata journal), and the fsync of a directory makes  *)
(* every earlier one durable; rows are durable when they are written       *)
(* (synchronous=FULL, store.cpp).  A power loss ends the process and       *)
(* leaves the names of any moment since the last fsync.                    *)
(***************************************************************************)
EXTENDS MoveEngine, Sequences

CONSTANT MaxPowerLosses   \* bound on power losses

ASSUME PowerAssumption == MaxPowerLosses \in Nat

VARIABLES
  volatile,   \* the names before each change that is not yet durable
  losses,     \* power losses so far
  torn        \* history: jobs whose publish() ended between its rename and
              \* the fsync of the directory

pvars == <<vars, volatile, losses, torn>>

PInit == Init /\ volatile = <<>> /\ losses = 0 /\ torn = {}

(* Mutant: publish() ends with its rename.  *)
Synced_never == FALSE

(* The fsync of the destination directory in publish() succeeds.  *)
Synced == \E j \in Jobs : pc[j] = "syncDir" /\ pc'[j] = "recordDone"

Track ==
  /\ volatile' = IF Synced THEN <<>>
                 ELSE IF names' = names THEN volatile
                 ELSE Append(volatile, names)
  /\ torn' = torn \cup {j \in Jobs : pc[j] = "syncDir" /\ pc'[j] = "idle"}
  /\ UNCHANGED losses

(* What the disk may hold after a power loss.  *)
Survivors == {volatile[k] : k \in DOMAIN volatile} \cup {names}

PowerFail ==
  /\ losses < MaxPowerLosses
  /\ losses' = losses + 1
  /\ \E d \in Survivors : source' = d[1] /\ staged' = d[2] /\ final' = d[3]
  /\ volatile' = <<>>
  /\ pc' = [j \in Jobs |-> "idle"]
  /\ outcome' = [j \in Jobs |-> "none"]
  /\ UNCHANGED <<rows, history, budget, torn>>

PNext == (Next /\ Track) \/ PowerFail

(* As DrivenSpec: the threads run, and jobs are recovered until they end.  *)
PFairness ==
  \A j \in Jobs :
    /\ WF_pvars(EngineStep(j) /\ Track)
    /\ SF_pvars(~is_terminal(record[j]) /\ Recover(j) /\ Track)

PSpec == PInit /\ [][PNext]_pvars /\ PFairness

(* DONE survives a power loss: once it is recorded, every state the disk may *)
(* fall back to has the job's object at its final name, unless its publish() *)
(* was cut off before the directory fsync and recover() found the name       *)
(* already there (fsops.cpp:678-685, L3-CPP-053).                            *)
DoneIsDurable ==
  \A j \in Jobs : record[j] = "DONE" /\ j \notin torn =>
    \A d \in Survivors : d[3][FinalOf[j]] = moved[j]
=============================================================================
