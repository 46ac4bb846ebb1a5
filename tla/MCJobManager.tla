--------------------------- MODULE MCJobManager ---------------------------
(* Small instances of JobManager for TLC.  *)
EXTENDS JobManager, TLC

CONSTANTS j1, j2, r1, w1, w2, c1, c2

WorkerSymmetry == Permutations(Workers)

Everything == {"submit", "pause", "resume", "cancel", "retry"}

(* One client issues every command, or two issue those that race safely.  *)
Serial == [c \in Clients |-> IF c = c1 THEN Everything ELSE {}]

Concurrent == [c \in Clients |-> {"submit", "cancel", "retry"}]

SafeMenus == {Serial, Concurrent}

(* Store errors come with one client, a crash with two.  *)
Bounded == IF commands = Serial THEN crashes = 0 ELSE storeFaults = 0

PauseMenus == {[c \in Clients |-> {"submit", "pause", "resume"}]}

RacyMenus == {[c \in Clients |-> Everything \ {"retry"}]}

SubmitMenus == {[c \in Clients |-> {"submit"}]}
==========================================================================
