CONSTANTS
  c1 = c1
  c2 = c2
  w1 = w1
  w2 = w2
  None = None
  LastPage = 3
  Page <- MCPage
  Cell = {c1, c2}
  SlotsIn <- MCSlotsIn
  LargeSizes = {1, 2}
  Workers = {w1, w2}

SPECIFICATION Spec

SYMMETRY MCSymmetry

INVARIANTS
  HeapInOrder

PROPERTIES
  ImplementsStore
