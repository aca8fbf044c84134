\* The owner and one more caller: wake, wait and stop racing the loop.
CONSTANTS
  c1 = c1
  c2 = c2
  Callers = {c1, c2}
  Owner = c1
SPECIFICATION FairSpec
INVARIANTS
  QuietAfterJoin
  NoTaskAfterStop
  CompletionServed
PROPERTIES
  CallsReturn
  WakeServed
CHECK_DEADLOCK FALSE
