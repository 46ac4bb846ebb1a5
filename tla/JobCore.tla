------------------------------ MODULE JobCore ------------------------------
(***************************************************************************)
(* The core job state machine (cpp/src/job.cpp, cpp/include/filemover/     *)
(* job.hpp).  Pure definitions, shared by every module that keeps a job    *)
(* record.  "ABSENT" is not a JobState of the code: it stands for a job    *)
(* that has no row in the job table yet.                                   *)
(***************************************************************************)

JobState == {"QUEUED", "RENAMING", "TRANSFERRING", "DONE", "FAILED"}

RowState == JobState \cup {"ABSENT"}

is_terminal(state) == state \in {"DONE", "FAILED"}

(* Mutant: FAILED is legal from every state, the terminal ones included.  *)
is_legal_transition_fails(from, to) ==
  \/ from = "QUEUED"       /\ to = "RENAMING"
  \/ from = "RENAMING"     /\ to = "TRANSFERRING"
  \/ from = "TRANSFERRING" /\ to = "DONE"
  \/ to = "FAILED"

is_legal_transition(from, to) ==
  \/ from = "QUEUED"       /\ to \in {"RENAMING", "FAILED"}
  \/ from = "RENAMING"     /\ to \in {"TRANSFERRING", "FAILED"}
  \/ from = "TRANSFERRING" /\ to \in {"DONE", "FAILED"}
=============================================================================
