CONSTANTS
  Key = {k1, k2, k3, k4}
  Value = {v1, v2}
  Node = {n1, n2, n3, n4}
  Capacity = 2
  Thread = {t1, t2}
  Object = {o1, o2, o3}
  MaxQuota = 2
  AutoCreate = TRUE
  Block = {b1, b2, b3}
  None = None
  MapKey = {a, b}
  MaxUpdates = 3
  MaxTimers = 3
  NumKeys = 3
  kMaxHeight = 2
  kBitsPerWord = 2
  MaxBits = 5
  Buffer = {b1, b2, b3}
  Element = {e1, e2, e3, e4}
  List = {l1, l2}
  Overload = {"default", "one"}
  MaxClosures = 3
  MaxObjects = 2
  MaxDepth = 3
  MaxAsked = 2
  Caller = {1, 2, 3}
  LockUser = {1, 2}
  MaxLockers = 2
  Handle = {"g", "h"}
  SemName = {"n"}
  Tokens = {0, 1}
  MaxSemaphores = 2
  MaxValue = 2
  CharBit = 2
  kBlockSize = 8
  Align = 2
  Sizes = {1, 2, 3}
  MaxBlocks = 3
  StlKey = {"j", "k"}
  MaxSize = 2
  BigLimit = 2
SPECIFICATION SuiteSpec
INVARIANTS
  CacheIsLru ObjectsAccounted  ReadersMissNothing 
  OwnersAreClear LocksAreScoped
CHECK_DEADLOCK FALSE
