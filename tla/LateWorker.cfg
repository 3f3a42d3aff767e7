CONSTANTS
  Works = {k1, k2}
  Items = {i1, i2}
  Threads = {n1}
  JS = js_thread
  Worker = worker_thread
  NoWork = NoWork
  NoItem = NoItem
  MaxQueue = 1
  InitCounts = {0, 1}
  MaxCount = 2
  LateWorker = TRUE

SPECIFICATION Spec

PROPERTY
  ClosedAlone
