SPECIFICATION MCFairSpec
CONSTANTS
  t1 = t1
  t2 = t2
  p1 = p1
  p2 = p2
  NoAddr = NoAddr
  Addr = {t1}
  Proc = {p1, p2}
  BasePort = 2
  MaxPort = 3
  InternalPort <- Apart
  MaxAttempts = 2
  MaxRequests = 2
  FreeOps = {"sweep", "heal"}
  Ops = {"connect", "destroy", "remove", "reset", "apply", "restart", "stop", "erase", "sweep", "heal", "upgrade"}
  Faults = {"docker", "bindBusy", "internalTaken"}
PROPERTIES OperationsEnd DriftHealed RouteHealed
CHECK_DEADLOCK FALSE
