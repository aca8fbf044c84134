\* Three threads around a barrier built for two: a full generation, a late
\* third thread that opens the next one, timeouts racing both, and resets to
\* the same count, to one (every arrival is the last) and to none.
CONSTANTS
  t1 = t1
  t2 = t2
  t3 = t3
  NoThread = NoThread
  Threads = {t1, t2, t3}
  InitThreads = 2
  ResetCounts = {0, 1, 3}
  MaxGen = 2
SPECIFICATION FairSpec
INVARIANTS
  CountExact
  NoForgottenSleeper
PROPERTIES
  ReturnsTellTheTruth
  BlockedCallsReturn
