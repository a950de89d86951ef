CONSTANTS
  Workers = {w1, w2}
  Items = {i1, i2, i3}
  Waiters = {c1}
  QueueSize = 1
  MayStop = TRUE
SPECIFICATION FairSpec
INVARIANTS WaitGroupExact NoEarlyReturn
PROPERTIES ImplementsDispatch EveryItemRuns
CHECK_DEADLOCK FALSE
