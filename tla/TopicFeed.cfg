CONSTANTS
  Conns = {c1, c2}
  Subs = {s1, s2}
  NoValue = NoValue
  MaxEvents = 2
  BufferSize = 1
  WriteErrors = {"close status", "other"}
SPECIFICATION FairSpec
INVARIANTS NothingMissed ListedOnce
PROPERTY EventsKeepFlowing
CHECK_DEADLOCK FALSE
