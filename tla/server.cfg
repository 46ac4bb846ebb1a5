\* Two handlers, three connections, restarts, one poll() failure.
CONSTANTS
  h1 = h1
  h2 = h2
  k1 = k1
  k2 = k2
  k3 = k3
  NoConn = NoConn
  Handlers = {h1, h2}
  Conns = {k1, k2, k3}
  MaxPollFaults = 1
SPECIFICATION FairSpec
INVARIANTS
  SlotsAreExact
  NothingDropped
PROPERTIES
  EveryConnectionEnds
  ShutdownReturns
  NewcomerIsAnswered
