SPECIFICATION Spec
CONSTANTS
  PresenterConns = {p1, p2}
  ViewerConns = {v1, v2}
  NoConn = NoConn
  NoMsg = NoMsg
  Tracks = {"cam", "screen"}
  MaxSent = 2
  MayLeave = TRUE
SYMMETRY ConnNames
INVARIANTS OffersInSync BufferedForNobody OthersAtMostOnce InOrder
CHECK_DEADLOCK FALSE
