SPECIFICATION Spec
CONSTANTS
  Adder = {a1, a2}
  Node = {n1, n2, n3, n4}
  Task = {t1, t2, t3, t4}
  MinThreadNum = 0
  MaxThreadNum = 2
  None = None
SYMMETRY Symmetry
PROPERTY ImplementsTaskQueue
INVARIANTS TasksAccounted  CountsDrift ThreadBound
CHECK_DEADLOCK FALSE
