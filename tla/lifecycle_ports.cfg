SPECIFICATION PortsSpec
CONSTANTS
  t1 = t1
  t2 = t2
  p1 = p1
  p2 = p2
  NoAddr = NoAddr
  Addr = {t1, t2}
  Proc = {p1, p2}
  BasePort = 2
  MaxPort = 3
  InternalPort <- Apart
  MaxAttempts = 2
  MaxRequests = 3
  SerialRequests = 5
  FreeOps = {}
  Ops = {"connect", "destroy", "remove", "reset", "apply", "restart", "stop", "erase", "sweep", "heal", "upgrade"}
  Faults = {"docker", "exit", "notReady", "bindBusy", "refuse"}
SYMMETRY Symmetry
INVARIANTS TypeOK NextPortFresh SerialPorts SerialPool
CHECK_DEADLOCK FALSE
