SPECIFICATION Spec
CONSTANTS
  Requests = {r1, r2}
  Devices = {d1}
  Books = {b1}
  NoBook = NoBook
INVARIANTS
  CopiesAreTracked
  SyncedOrRemoved
PROPERTY DevicesCatchUp
