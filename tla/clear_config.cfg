SPECIFICATION Spec
CONSTANTS
  Route = {"r1", "r2"}
  Official = "deepseek"
  RefOf <- Refs
  MaxRequest = 3
INVARIANTS ClearedAll
CHECK_DEADLOCK FALSE
