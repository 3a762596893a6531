\* Calls from outside have returned before Stop; items queue others.
SPECIFICATION Spec
CONSTANTS
  Items = {x1, x2, x3}
  Outside = outside
  ShutdownDelay = 2
  LateCallers = FALSE
  EventMayFail = TRUE
INVARIANTS CountExact Drained
PROPERTIES StopEnds
CHECK_DEADLOCK FALSE
