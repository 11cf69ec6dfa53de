SPECIFICATION WrapSpec
CONSTANTS
  Closure = {c1}
  Interval = {2}
  RevisionMod = 256
  MaxTimers = 1
  MaxOps = 258
  MaxTime = 1
  None = None
INVARIANT OutdatedNeverLive
CHECK_DEADLOCK FALSE
