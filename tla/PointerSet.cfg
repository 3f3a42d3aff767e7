CONSTANTS
  p1 = p1
  p2 = p2
  p3 = p3
  p4 = p4
  Ptr = {p1, p2, p3, p4}
  nullptr = nullptr
  HashValue <- HashModulo
  kInitialCapacity = 4
  MaxReserve = 5

SPECIFICATION Spec

SYMMETRY Symmetry

INVARIANTS
  TableOK

PROPERTIES
  ImplementsSet
