SPECIFICATION FairSpec
CONSTANTS
  a1 = a1
  u1 = u1
  u2 = u2
  Token = {u1, u2}
  Scope = {"admin", "user"}
  ScopeOf <- Owner
  FileTokens = {u1}
  MaxQueue = 2
  MaxBoots = 2
  Faults = {"crash", "write", "early", "gateway"}
  Lapse = {u2}
PROPERTIES SessionsKept Mirrored LogoutAnswered
CHECK_DEADLOCK FALSE
