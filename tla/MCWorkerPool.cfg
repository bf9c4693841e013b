SPECIFICATION FairSpec
CONSTANTS
  Worker = {w1, w2, w3}
  Main = main
  Idle = idle
  t1 = t1
  t2 = t2
  t3 = t3
  t4 = t4
  Task = {t1, t2, t3, t4}
  LastStage = 2
  Stage <- TwoStages
  Spawns <- OneSpawns
  EarlyDestroy = TRUE
INVARIANTS
  TypeOK
  HeldOnce
  NoLostWakeup
  OwnersTasksNeverDropped
  StageBarrier
  DestroyedIsQuiet
PROPERTIES
  AcceptedIsResolved
  OwnerReturns
  ImplementsExecutor
