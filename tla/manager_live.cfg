\* Progress of two jobs, with pause and resume, pumped; system calls may fail
\* for good.
CONSTANTS
  j1 = j1
  j2 = j2
  r1 = r1
  w1 = w1
  w2 = w2
  c1 = c1
  c2 = c2
  NoJob = NoJob
  NoClient = NoClient
  Jobs = {j1, j2}
  RetryIds = {}
  Workers = {w1, w2}
  Clients = {c1}
  Menus <- PauseMenus
  Pumped = TRUE
  DrainedFirst = TRUE
  MaxAttempts = 2
  MaxStoreFaults = 0
  MaxFsFaults = 0
  FailsForGood = TRUE
  MaxCrashes = 0
SPECIFICATION FairSpec
INVARIANTS
  
  StoppedIsDrained
PROPERTIES
  
  ShutdownCompletes
CHECK_DEADLOCK FALSE
