\* The same callers; start() after stop(false).
CONSTANTS
  c1 = c1
  c2 = c2
  Callers = {c1, c2}
  Owner = c1
SPECIFICATION Spec
INVARIANT StartNeverTerminates
CHECK_DEADLOCK FALSE
