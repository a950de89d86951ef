SPECIFICATION Spec
CONSTANTS
  r1 = r1
  r2 = r2
  r3 = r3
  ada = ada
  bob = bob
  Requests = {r1, r2, r3}
  Users = {ada, bob}
  UserOf <- TwoRequestsAndOne
  Books = {b1, b2}
  NoBook = NoBook
INVARIANT DeletedOnlyWhenUnreferenced
CHECK_DEADLOCK FALSE
