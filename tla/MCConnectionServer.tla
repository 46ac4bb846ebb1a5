----------------------- MODULE MCConnectionServer -----------------------
(* Small instances of ConnectionServer for TLC.  *)
EXTENDS ConnectionServer, TLC

CONSTANTS h1, h2, k1, k2, k3

ThreadSymmetry == Permutations(Handlers) \cup Permutations(Conns)
=========================================================================
