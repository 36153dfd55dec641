SPECIFICATION Spec
SYMMETRY HostSymmetry
CONSTANTS
  h1 = h1
  h2 = h2
  Hosts = {h1, h2}
  Tactics = {"execution", "impact", "collection"}
  Entities = {"e1"}
  Window = 1
  QueryLimit = 4
  MaxEntities = 1
  AgentAlerts <- StageAlerts
  AutoIsolate = FALSE
  ClockSkew = 0
  MaxProcessed = 4
  CloseLimit = 4
  MaxConsole = 0
  MaxCrashes = 0
  MaxClock = 0
INVARIANT
  StagesAreReported
CHECK_DEADLOCK FALSE
