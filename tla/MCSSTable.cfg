SPECIFICATION Spec
CONSTANTS
  Key = {1, 3, 4}
  Value = {0}
  SeekKeys = {0, 1, 2, 3, 4, 5}
  BlockSize = 4
  BatchSize = 4
  ShardNum = 2
  MaxItems = 3
  MaxMeta = 0
INVARIANT SeekFindsKeyOrNext
CHECK_DEADLOCK FALSE
