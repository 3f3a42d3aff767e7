CONSTANTS
  o1 = o1
  o2 = o2
  g = g
  f = f
  w1 = w1
  w2 = w2
  Null = Null
  Obj = {o1, o2, g}
  Slot = {f}
  Workers = {w1, w2}
  Frame = {g}
  Host = {}
  Native = {}
  Targets = {}
  Record = record
  NodeSize = 1
  CallbacksStore = FALSE
  BusyMode = TRUE

SPECIFICATION Spec

SYMMETRY Symmetry

INVARIANTS
  TypeOK
  ReachableIsMarked

PROPERTIES
  ImplementsHeap
