---------------------------- MODULE MCMoveEngine ----------------------------
(***************************************************************************)
(* Small instances of MoveEngine: how jobs j1 and j2 share their names.    *)
(***************************************************************************)
EXTENDS MoveEngine, TLC

CONSTANTS j1, j2, s1, s2, f1, f2

(* Both jobs name one source, as a job and its retry do.  *)
SameSource == [k \in Jobs |-> s1]

OwnFinal == [k \in Jobs |-> IF k = j1 THEN f1 ELSE f2]

(* How much may go wrong in one behaviour: less when a source name is reused. *)
Bounded ==
  faults + probes + crashes + removals <= IF arrivals = 0 THEN 4 ELSE 2

Swapped(k) ==
  IF k = j1 THEN j2 ELSE IF k = j2 THEN j1 ELSE IF k = f1 THEN f2 ELSE f1

(* With SameSource and OwnFinal the jobs, each with its final name, and the   *)
(* regular files can be exchanged.                                            *)
Symmetry ==
  {[x \in Jobs \cup Finals \cup Regular |->
      IF x \in Regular THEN q[x] ELSE IF swap THEN Swapped(x) ELSE x] :
   q \in Permutations(Regular), swap \in BOOLEAN}
=============================================================================
