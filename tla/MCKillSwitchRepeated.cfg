SPECIFICATION Spec
CONSTANTS
  Callers = {c1, c2}
  Components = {k1, k2}
  Api <- Repeated
  MaxTriggers = 2
  Free = Free
INVARIANT NeverTerminates
 
CHECK_DEADLOCK FALSE
