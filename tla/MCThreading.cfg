SPECIFICATION SuiteSpec
CONSTANTS
  Thread = {t1, t2, t3}
  InitState = TRUE
  MaxSets = 3
  Producer = {p1, p2}
  Consumer = {c1, c2}
  MaxPush = 4
  Object = {1, 2, 3, 4}
  GroupSize = 3
  MaxStarts = 3
  Closure = {k1, k2}
  Interval = {1}
  RevisionMod = 256
  MaxTimers = 2
  MaxOps = 3
  MaxTime = 2
  None = None
  PoolAdder = {a1}
  PoolNode = {n1, n2}
  PoolTask = {x1, x2, x3}
  PoolThreads = 2
  Parents = {1, 2}
  MaxCreates = 2
  Callers = {1, 2, 3}
  MaxForks = 3
INVARIANTS OneReleasePerSet NoLostWakeup FifoOnce ThreadsComplete ProcessesAccounted ValueIsOwn
PROPERTIES WaitersWake  WorkIsDone
CHECK_DEADLOCK FALSE
