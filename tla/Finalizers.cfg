CONSTANTS
  o1 = o1
  o2 = o2
  h = h
  f = f
  record = record
  w1 = w1
  w2 = w2
  Null = Null
  Obj = {o1, h}
  Slot = {f, record}
  Workers = {w1, w2}
  Frame = {}
  Host = {h}
  Native = {o1}
  Targets = {o1}
  Record = record
  NodeSize = 1
  CallbacksStore = FALSE
  BusyMode = TRUE

SPECIFICATION Spec

INVARIANTS
  FinalizersAreAllocated
  ReachableIsAllocated
  MarkStackIsAllocated

PROPERTIES
  CollectionReachesSweep
  SweepEnds
