CONSTANTS
  o1 = o1
  o2 = o2
  o3 = o3
  f = f
  record = record
  w1 = w1
  Null = Null
  Obj = {o1, o2, o3}
  Slot = {f, record}
  Workers = {w1}
  Frame = {}
  Host = {}
  Native = {}
  Targets = {o1, o2}
  Record = record
  NodeSize = 1
  CallbacksStore = TRUE
  BusyMode = FALSE

SPECIFICATION Spec

INVARIANTS
  CheckConMark
