SPECIFICATION FairSpec
CONSTANTS
  Workers = {w1, w2}
  InitialWorkers = {w1}
  Callers = {c1, c2}
  Scaler = scaler
  AutoScaling = TRUE
  Tasks = {t1, t2}
  Priority <- OneUrgent
  QueueLimits = {0}
  Api <- NoWaiting
  NoTask = NoTask
  Free = Free
  t1 = t1
PROPERTY ForceShutdownReturns
PROPERTY AcceptedTasksRun
CHECK_DEADLOCK FALSE
