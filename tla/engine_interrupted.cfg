\* linkat then unlinkat, and one crash.
CONSTANTS
  j1 = j1
  j2 = j2
  s1 = s1
  s2 = s2
  f1 = f1
  f2 = f2
  NoObject = NoObject
  Jobs = {j1}
  Sources = {s1}
  Finals = {f1}
  Objects = {o1}
  Regular = {o1}
  SourceOf <- SameSource
  FinalOf <- OwnFinal
  Strategies = {"LinkThenUnlink"}
  Occupants = {}
  MaxProbeFaults = 0
  MaxFaults = 0
  MaxCrashes = 1
  MaxRemovals = 0
  MaxArrivals = 0
SPECIFICATION DrivenSpec
PROPERTIES
  RecoveryConverges
