SPECIFICATION Spec
CONSTANTS
  Actors = {"heartbeat", "pipeline"}
  MaxActions = 2
  MaxFails = 0
INVARIANTS
  ServerKept
CHECK_DEADLOCK FALSE
