SPECIFICATION Spec
CONSTANTS
  Years = {2011}
  StartDays = {1, 15, 28, 30, 31}
  Months = {1}
  Days = {}
  MaxCalls = 2
INVARIANT DatesStayValid
CHECK_DEADLOCK FALSE
