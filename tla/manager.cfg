\* One client with every command and store errors, or two without pause and
\* resume and a crash; one retry.
CONSTANTS
  j1 = j1
  j2 = j2
  r1 = r1
  w1 = w1
  w2 = w2
  c1 = c1
  c2 = c2
  NoJob = NoJob
  NoClient = NoClient
  Jobs = {j1, r1}
  RetryIds = {r1}
  Workers = {w1, w2}
  Clients = {c1, c2}
  Menus <- SafeMenus
  Pumped = TRUE
  DrainedFirst = TRUE
  MaxAttempts = 2
  MaxStoreFaults = 1
  MaxFsFaults = 2
  FailsForGood = FALSE
  MaxCrashes = 1
SPECIFICATION Spec
CONSTRAINT Bounded
SYMMETRY WorkerSymmetry
INVARIANTS
  ExclusiveRun
  ActiveIsExact
  PausedIsIdle
  CancelledIsUntouched
  FailedIsPreCommit
  QueuedIsOwned
PROPERTIES
  TerminalIsFinal
  ImplementsContract
CHECK_DEADLOCK FALSE
