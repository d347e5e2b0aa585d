SPECIFICATION FairAuditSpec
CONSTANTS
  a1 = a1
  a2 = a2
  a3 = a3
  a4 = a4
  w1 = w1
  w2 = w2
  NoTask = NoTask
  Tasks <- FourTasks
  Workers <- TwoWorkers
  BufferSize = 1
CHECK_DEADLOCK FALSE
INVARIANTS
  AuditTypeOK
  NoLostWakeup
  Accounted
  ExitLoss
  HandlersHaveDb
PROPERTIES
  DropsAreBacklog
  Implements
  RecordsSettle
  ShutdownReturns
  DrainEnds
