SPECIFICATION SingleSpec
CONSTANTS
  Object = {1, 2}
  MaxStarts = 3
  GroupSize = 0
INVARIANT DestructorWaits
CHECK_DEADLOCK FALSE
