SPECIFICATION Spec
CONSTANTS
  Addr = {"a1", "u1"}
  Admins = {"a1"}
  NoAddr = "none"
  Flow = {"f1", "f2"}
  MaxFlows = 3
  Faults = {}
INVARIANTS DeniedNotAdmin
CHECK_DEADLOCK FALSE
