\* Crashes, power losses and failing calls, no other program: re-driving
\* converges.
CONSTANTS
  j1 = j1
  j2 = j2
  s1 = s1
  s2 = s2
  f1 = f1
  f2 = f2
  o1 = o1
  o2 = o2
  NoObject = NoObject
  Jobs = {j1, j2}
  Sources = {s1, s2}
  Finals = {f1, f2}
  Objects = {o1, o2}
  Regular = {o1, o2}
  SourceOf <- OwnSource
  FinalOf <- OwnFinal
  Strategies = {"RenameNoReplace"}
  Occupants = {}
  MaxProbeFaults = 0
  MaxFaults = 1
  MaxCrashes = 1
  MaxRemovals = 0
  MaxArrivals = 0
  MaxPowerLosses = 1
SPECIFICATION MCSpec
INVARIANTS
  DoneIsDurable
PROPERTIES
  RecoveryConverges
