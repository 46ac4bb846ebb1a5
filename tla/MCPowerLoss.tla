---------------------------- MODULE MCPowerLoss ----------------------------
(* PowerLoss for TLC: two jobs with names of their own.  *)
EXTENDS PowerLoss, TLC

CONSTANTS j1, j2, s1, s2, f1, f2, o1, o2

OwnSource == [k \in Jobs |-> IF k = j1 THEN s1 ELSE s2]

OwnFinal == [k \in Jobs |-> IF k = j1 THEN f1 ELSE f2]

(* The objects are interchangeable, and so are the jobs with their names: o1 *)
(* is at s1, and o2 is at s2 or nowhere.                                      *)
MCInit == PInit /\ source[s1] = o1 /\ source[s2] \in {o2, NoObject}

(* Two of the crashes, power losses and failing calls in one behaviour.  *)
Few == faults + crashes + losses <= 2

MCSpec == MCInit /\ [][PNext /\ Few']_pvars /\ PFairness
=============================================================================
