SPECIFICATION Spec
CONSTANTS
  List = {0}
  MaxIpp = 3
  MaxAddr = 15
  MaxPool = 8
  U32 = 32
  Conf <- MCEdge
  Claim = {10}
  Round = TRUE
  InOrder = TRUE
  Late = TRUE
  MaxAdds = 2
  MaxHeld = 2
INVARIANTS UsedFollowsMap
PROPERTIES SeqLowest
CHECK_DEADLOCK FALSE
