SPECIFICATION Spec
CONSTANTS
  Requests = {r1, r2, r3}
  MaxPairs = 4
  MaxChanges = 1
INVARIANTS CacheIsCurrent SessionKept SignOutRevokesAll
PROPERTIES RefusedOnlyWhenRaced RequestsAnswered
CHECK_DEADLOCK FALSE
