SPECIFICATION Spec
CONSTANTS
  List = {0, 1}
  MaxIpp = 3
  MaxAddr = 15
  MaxPool = 8
  U32 = 32
  Conf <- MCConf
  Claim = {6, 12}
  Round = FALSE
  InOrder = FALSE
  Late = FALSE
  MaxAdds = 3
  MaxHeld = 2
INVARIANTS TypeOK Exclusive MapExact ReservedKept FullIsFull SearchEnds
PROPERTIES NoReuse
