SPECIFICATION Spec
CONSTANTS
  a = a
  b = b
  c = c
  x = x
  t1 = t1
  t2 = t2
  None = None
  Clients = {t1, t2}
  Applications <- Both
  Priority <- Priorities
  Timeout <- Timeouts
  Constraints <- Known
INVARIANT OrderedOrReported
INVARIANT AnalysisTrue
 
CHECK_DEADLOCK FALSE
