\* Two jobs on one source, a final name each, either strategy on every call;
\* the producer may reuse the source name.
CONSTANTS
  j1 = j1
  j2 = j2
  s1 = s1
  s2 = s2
  f1 = f1
  f2 = f2
  NoObject = NoObject
  Jobs = {j1, j2}
  Sources = {s1}
  Finals = {f1, f2}
  Objects = {o1, o2, o3}
  Regular = {o1, o2}
  SourceOf <- SameSource
  FinalOf <- OwnFinal
  Strategies = {"RenameNoReplace", "LinkThenUnlink"}
  Occupants = {}
  MaxProbeFaults = 1
  MaxFaults = 2
  MaxCrashes = 2
  MaxRemovals = 2
  MaxArrivals = 1
SPECIFICATION Spec
CONSTRAINT Bounded
SYMMETRY Symmetry
INVARIANTS
  AttentionIsPastCommit
  NoObjectLost
  DoneIsDelivered
  FailedIsNotMoved
PROPERTIES
  ImplementsContract
