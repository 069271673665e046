SPECIFICATION PartSpec
CONSTANTS
  a1 = a1
  a2 = a2
  p1 = p1
  p2 = p2
  Addr = {a1, a2}
  w1 = w1
  w2 = w2
  Wallet = {w1, w2}
  Known = {a1}
  MaxApps = 2
  Proc = {p1, p2}
  MaxPending = 2
  Keep = 1
  Faults = {"crash", "write"}
  LastPort = 2
  MaxOps = 3
  MaxStarts = 2
  Op = {p1, p2}
  NoOp = NoOp
  MaxNonce = 3
  MaxPool = 2
  MaxReplay = 2
  Tenant = {w1, w2, "t3"}
  Job = {p1, p2}
  MaxBoxes = 1
  MaxQueue = 2
  Mode = "enforce"
  v1 = v1
  v2 = v2
  Volume = {v1, v2}
  Round = {p1, p2}
  MaxTier = 2
  NoVolume = NoVolume
  Guest = {p1, p2}
  NoAddr = NoAddr
  MaxBoots = 3
  MaxEarly = 1
  StartFaults = {"docker", "bind", "write", "hydrate"}
SYMMETRY Symmetry
INVARIANTS TypesOK AuditTrail ConfirmedKept ApplicationsSettled RecordsKept SignedOnce LastWorks Overshoot RaisedOnce SizesTrue RestoredTrue PatchSynced
PROPERTIES QueueFair
CHECK_DEADLOCK FALSE
