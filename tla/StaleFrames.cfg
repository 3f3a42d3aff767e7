CONSTANTS
  o1 = o1
  g = g
  f = f
  w1 = w1
  Null = Null
  Obj = {o1, g}
  Slot = {f}
  Workers = {w1}
  Frame = {g}
  Host = {}
  Native = {}
  Targets = {}
  Record = record
  NodeSize = 1
  CallbacksStore = FALSE
  BusyMode = TRUE

SPECIFICATION Spec

INVARIANTS
  RecordedFramesAreAllocated
