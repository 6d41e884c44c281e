SPECIFICATION Spec
CONSTANTS
  Workers = {w1, w2}
  InitialWorkers = {w1}
  Callers = {c1, c2}
  Scaler = scaler
  AutoScaling = TRUE
  Tasks = {t1, t2, t3}
  Priority <- OneUrgent
  QueueLimits = {1, 2}
  Api <- Everything
  NoTask = NoTask
  Free = Free
  t1 = t1
SYMMETRY Alike
INVARIANT TasksAccounted
INVARIANT ClosedForGood
INVARIANT NoWorkerSleepsThroughStop
INVARIANT GracefulShutdownRanEverything
PROPERTY ImplementsTaskService
CHECK_DEADLOCK FALSE
