SPECIFICATION StoreSpec
SYMMETRY HostSymmetry
CONSTANTS
  h1 = h1
  h2 = h2
  Hosts = {h1, h2}
  Tactics = {"execution", "impact", "collection"}
  Entities = {"e1"}
  Window = 0
  QueryLimit = 5
  MaxEntities = 1
  AgentAlerts <- StoreAlerts
  AutoIsolate = TRUE
  ClockSkew = 0
  MaxProcessed = 4
  CloseLimit = 2
  MaxConsole = 1
  MaxCrashes = 1
  MaxClock = 1
INVARIANTS
  NothingForgotten
  RaisedOnce
  ClosedTogether
  IsolationsExplained
PROPERTY
  ImplementsCorrelation
CHECK_DEADLOCK FALSE
