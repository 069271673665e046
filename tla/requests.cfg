SPECIFICATION PartSpec
CONSTANTS
  x1 = x1
  x2 = x2
  y1 = y1
  y2 = y2
  Req = {x1, x2}
  Host = {y1, y2}
  NoReq = NoReq
  MaxGen = 3
  Addr = {x1, x2}
  Name = {y1, y2}
  Job = {x1, x2}
  MaxActive = 2
  MaxRequest = 4
  Route = {x1, x2}
  Official = "deepseek"
  RefOf <- Refs
  MaxConfig = 3
  Key = {"k1", "k2"}
  Version = {y1, y2}
  Latest = Latest
  Tenant = {"t1"}
  MaxImages = 2
  MaxFetch = 3
  Account = {y1, y2}
  Flow = {x1, x2}
  NoAddr = NoAddr
  MaxFlows = 4
  Visitor = {"admin", "tenant"}
  Admins = {"admin"}
  Handler = {"h1", "h2"}
  MaxHandlers = 4
  Faults = {"network"}
SYMMETRY Symmetry
INVARIANTS TypesOK GatewayRecovers NobodyStranded ShownTrue ListFinal NoOrphans CurrentRecorded LoadingEnds
PROPERTIES SharesKept EditsRight
CHECK_DEADLOCK FALSE
