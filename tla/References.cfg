CONSTANTS
  Obj = {o1, o2}
  Ref = {r1, r2, r3}
  NoObj = NoObj
  NoRef = NoRef
  BlockSize = 1
  MaxBlocks = 3
  MaxCount = 1
  Available = TRUE

SPECIFICATION Spec

SYMMETRY Symmetry

INVARIANTS
  TypeOK
  HandlesMatch
  CountedIsPinned

PROPERTIES
  ImplementsReferences
