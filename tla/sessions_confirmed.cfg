SPECIFICATION Spec
CONSTANTS
  a1 = a1
  u1 = u1
  u2 = u2
  Token = {a1, u1, u2}
  Scope = {"admin", "user"}
  ScopeOf <- Owner
  FileTokens = {u1}
  MaxQueue = 2
  MaxBoots = 2
  Faults = {"crash"}
  Lapse = {a1, u1, u2}
INVARIANTS TypeOK
PROPERTIES Refines DrainKeepsLogins
CHECK_DEADLOCK FALSE
