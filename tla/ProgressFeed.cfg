CONSTANTS
  Conns = {c1, c2}
  Subs = {s1, s2}
  NoValue = NoValue
  BufferSize = 1
  WriteErrors = {"close status", "other"}
SPECIFICATION ProgressFairSpec
INVARIANT WatchersSeeCompletion
PROPERTY JobsEnd
CHECK_DEADLOCK FALSE
