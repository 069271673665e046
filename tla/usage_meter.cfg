SPECIFICATION MCFairSpec
CONSTANTS
  p1 = p1
  p2 = p2
  Proc = {p1, p2}
  Limit = 2
  Cap = 2
  Ops = {"connect", "stop", "force", "check", "sweep", "destroy", "remove", "reset", "apply", "restart", "upgrade", "erase"}
  Faults = {"docker", "notReady", "bindBusy", "exit"}
  Alone = {"connect", "reset", "apply", "upgrade", "remove", "erase"}
INVARIANTS TypeOK BilledOnce RevokedLimited
PROPERTIES LimitEnforced
CHECK_DEADLOCK FALSE
