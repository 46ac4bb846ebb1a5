\* Two processes on one database; a one-bit sequence wraps.
CONSTANTS
  p1 = p1
  p2 = p2
  Nobody = Nobody
  Procs = {p1, p2}
  Inodes = {1, 2}
  Width = 1
  MaxLaunches = 2
  MaxAgain = 1
  MaxSignals = 1
  MaxFaults = 1
  MaxCrashes = 1
  MaxEarlier = 2
  MaxSubmits = 1
SPECIFICATION FairSpec
INVARIANTS
  OneInstance
  ServedByManager
  IdleIsClean
  
  RunsOnSchema
PROPERTIES
  
  StopSignalStops
CHECK_DEADLOCK FALSE
