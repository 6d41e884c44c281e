SPECIFICATION FairBackground
CONSTANTS
  Threads = {t1, t2}
  Interruptible = {t1, t2, main}
  CsvFiles = {f1, f2}
  Cleanups = {k1}
  Calls <- Operations
  Free = Free
  NoThread = NoThread
  Callers = {t1, t2}
  Cleaners = {w1, w2}
INVARIANT OneFullShutdown
PROPERTY BothGetOn
INVARIANT SerialCallsSafe
CHECK_DEADLOCK FALSE
