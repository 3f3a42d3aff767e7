CONSTANTS
  proc1 = proc1
  proc2 = proc2
  t1 = t1
  t2 = t2
  a = a
  b = b
  small = small
  large = large
  NoThread = NoThread
  Process = {proc1, proc2}
  Thread = {t1, t2}
  Homes <- OneOrTwo
  Name = {a, b}
  Data = {small, large}
  Size <- LengthOf
  Capacity <- CapacityOfEach
  FirstFile <- AnyFile
  MaxUsed = 1
  MaxOutput <- OutputOfEach

SPECIFICATION Spec

INVARIANTS
  TypeOK
  CleanMeansPublished

PROPERTIES
  PublishedInOrder
  GrowsWithinCapacity
  NeverTorn
