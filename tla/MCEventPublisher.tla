------------------------ MODULE MCEventPublisher ------------------------
(* Small instances of EventPublisher for TLC.  *)
EXTENDS EventPublisher, TLC

CONSTANTS t1, t2, t3, x1, x2

Symmetry == Permutations(Threads) \cup Permutations(Subscribers)
=========================================================================
