CONSTANTS
  Tasks = {t1, t2}
  P2PObjects = {p1}
  CollObjects = {c1}
  MaxEvents = 1
  Capacity = 2
  NoTask = NoTask
SYMMETRY Symmetry
SPECIFICATION Spec
INVARIANT IssuedAsCalled
\* ErrorHandler::fail ends the program.
CHECK_DEADLOCK FALSE
