SPECIFICATION Spec
CONSTANTS
  Requests = {r1, r2, r3}
  Priorities = {0, 1}
  MaxTasks = 3
  StartTasks = 1
  MaxListed = 3
INVARIANT SeriesGoesOn
PROPERTIES PlacedAfterPeers OnlyReorderReorders ReorderedAsAsked ArchivedOnlyWhenDone
CHECK_DEADLOCK FALSE
SYMMETRY AnyRequest
