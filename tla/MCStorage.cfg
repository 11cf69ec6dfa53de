SPECIFICATION SuiteSpec
CONSTANTS
  TableKey = {0, 1, 3}
  Value = {0, 1}
  SeekKeys = {0, 2, 3, 4}
  BlockSize = 4
  BatchSize = 4
  ShardNum = 2
  MaxItems = 3
  MaxMeta = 1
  SizeBytes = 2
  MaxNext = 4
  MaxWrites = 3
  SyncInterval = 2
  BufferSize = 4
  StepSize = 5
  TornAt = {1, 4}
  MaxOps = 2
  Tails = {0, 1, 2}
  PathChars = {"/", ".", "a"}
  MaxBase = 3
  MaxFile = 4
  MaxCreates = 2
  ReadSizes = {1, 2, 3}
  LineSizes = {2, 3, 4}
  MaxWritten = 2
  MaxOpened = 3
  MaxMocks = 2
INVARIANTS  PathsLead 
PROPERTIES CallsAreExact 
CHECK_DEADLOCK FALSE
