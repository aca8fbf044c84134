\* A reset() while a waitFor() is asleep.
CONSTANTS
  t1 = t1
  t2 = t2
  t3 = t3
  NoThread = NoThread
  Threads = {t1, t2, t3}
  InitThreads = 3
  ResetCounts = {2}
  MaxGen = 2
SPECIFICATION Spec
PROPERTY TrueMeansAllArrived
