SPECIFICATION Spec
CONSTANTS
  Msg = {m1, m2, m3}
  Size = {1, 2}
  Limit = {0, 2}
  Nil = Nil
  LHead = {h1, h2}
  LEntry = {e1, e2, e3}
  Poison = Poison
  HHead = {g1, g2}
  HNode = {n1, n2, n3}
  None = None
  HPoison = HPoison
INVARIANTS Linked
PROPERTIES IsAQueue InItsPlace AreLists AreChains
SYMMETRY Symmetry
