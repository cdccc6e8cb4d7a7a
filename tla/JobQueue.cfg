SPECIFICATION FairSpec
CONSTANTS
  j1 = j1
  j2 = j2
  w1 = w1
  w2 = w2
  e1 = e1
  k1 = k1
  k2 = k2
  Nothing = Nothing
  Job = {j1, j2}
  Key = {k1, k2}
  Consumed = {k1}
  Worker = {w1, w2}
  Enqueuer = {e1}
  Priority = {1}
  MaxAttempts = 2
  BatchLimit = 2
  LeaseTicks = 1
  BackoffCap = 1
  MaxAge = 0
  MaxStops = 2
INVARIANTS UniqueActive
PROPERTIES ImplementsLifecycle JobsSettle
