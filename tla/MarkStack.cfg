CONSTANTS
  o1 = o1
  o2 = o2
  o3 = o3
  w1 = w1
  Obj = {o1, o2, o3}
  Worker = {w1}
  Client = client
  Barrier = barrier
  None = None
  LastNode = 11
  Node <- MCNode
  NodeSize = 1
  InitialNodes <- MCInitialNodes
  PageNodes = 2
  MaxPages = 1
  RootTasks = 1

SYMMETRY Symmetry
SPECIFICATION Spec

INVARIANTS
  TypeOK
  NodesInOnePlace
  NothingLost

PROPERTIES
  ImplementsWorklist
