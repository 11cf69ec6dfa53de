SPECIFICATION Spec
CONSTANTS
  Closure = {c1, c2}
  Interval = {0, 2}
  RevisionMod = 256
  MaxTimers = 2
  MaxOps = 4
  MaxTime = 2
  None = None
SYMMETRY Symmetry
INVARIANTS ClosureOwnership RemovedNotRunning TimersWillFire OutdatedNeverLive
CHECK_DEADLOCK FALSE
