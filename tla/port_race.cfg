SPECIFICATION MCSpec
CONSTANTS
  t1 = t1
  t2 = t2
  p1 = p1
  p2 = p2
  NoAddr = NoAddr
  Addr = {t1, t2}
  Proc = {p1, p2}
  BasePort = 2
  MaxPort = 3
  InternalPort <- Apart
  MaxAttempts = 2
  MaxRequests = 2
  FreeOps = {}
  Ops = {"connect"}
  Faults = {}
INVARIANTS PortsUnique
CHECK_DEADLOCK FALSE
