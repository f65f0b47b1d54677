SPECIFICATION Spec
CONSTANTS
  List = {0, 1}
  MaxIpp = 3
  MaxAddr = 15
  MaxPool = 8
  U32 = 32
  Conf <- MCConf
  Claim = {}
  Round = FALSE
  InOrder = FALSE
  Late = FALSE
  MaxAdds = 4
  MaxHeld = 2
INVARIANTS NumberOfPools
