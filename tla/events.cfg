\* Nested publications; callbacks subscribe and unsubscribe.
CONSTANTS
  t1 = t1
  t2 = t2
  t3 = t3
  x1 = x1
  x2 = x2
  Nobody = Nobody
  Threads = {t1, t2}
  Subscribers = {x1, x2}
  MaxDepth = 2
SPECIFICATION EFairSpec
INVARIANTS
  FreedIsNeverCalled
PROPERTIES
  UnsubscribeReturns
CHECK_DEADLOCK FALSE
