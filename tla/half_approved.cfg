SPECIFICATION Spec
CONSTANTS
  a1 = a1
  a2 = a2
  p1 = p1
  p2 = p2
  Addr = {a1, a2}
  Known = {a1}
  MaxApps = 2
  Proc = {p1, p2}
  MaxPending = 2
  Keep = 1
  Faults = {"crash"}
SYMMETRY Symmetry
INVARIANTS ApprovedWhole
CHECK_DEADLOCK FALSE
