----------------------------- MODULE MCService -----------------------------
(* Service for TLC.  *)
EXTENDS Service, TLC

CONSTANTS p1, p2
=============================================================================
