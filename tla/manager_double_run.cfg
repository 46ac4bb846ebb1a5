\* cancel against pause and resume of the same job.
CONSTANTS
  j1 = j1
  j2 = j2
  r1 = r1
  w1 = w1
  w2 = w2
  c1 = c1
  c2 = c2
  NoJob = NoJob
  NoClient = NoClient
  Jobs = {j1}
  RetryIds = {}
  Workers = {w1, w2}
  Clients = {c1, c2}
  Menus <- RacyMenus
  Pumped = TRUE
  DrainedFirst = TRUE
  MaxAttempts = 2
  MaxStoreFaults = 0
  MaxFsFaults = 2
  FailsForGood = FALSE
  MaxCrashes = 0
SPECIFICATION Spec
INVARIANTS
  ExclusiveRun
CHECK_DEADLOCK FALSE
