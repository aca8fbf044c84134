\* Three threads and room for two tasks: two sleepers and a pusher, a thief,
\* a queue that is full, and tasks that push while the queue is drained.
CONSTANTS
  t1 = t1
  t2 = t2
  t3 = t3
  Threads = {t1, t2, t3}
  Capacity = 2
  MaxTasks = 2
SPECIFICATION FairSpec
INVARIANTS
  NoIdleSleeper
PROPERTY BoundedCallsReturn
