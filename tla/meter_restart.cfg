SPECIFICATION MCSpec
CONSTANTS
  p1 = p1
  p2 = p2
  Proc = {p1}
  Limit = 2
  Cap = 2
  Ops = {"connect", "stop", "restart"}
  Faults = {}
  Alone = {}
INVARIANTS MeteredWhileRunning
CHECK_DEADLOCK FALSE
