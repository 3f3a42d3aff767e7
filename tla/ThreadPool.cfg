CONSTANTS
  Workers = {w1, w2, w3}
  Tasks = {t1, t2, t3}
  NoTask = NoTask
  MaxSpurious = 1

SPECIFICATION Spec

INVARIANTS
  TypeOK
  StoppedIsQuiet
  CountersExact
  IsStoppedMeansIdle
  NoLostWakeup
  NotifyOnlyWhenIdle

PROPERTIES
  WaitFinishReturns
  DeleteReturns
  ImplementsTaskPool
