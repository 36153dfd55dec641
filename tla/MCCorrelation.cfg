SPECIFICATION Spec
SYMMETRY HostSymmetry
CONSTANTS
  h1 = h1
  h2 = h2
  Hosts = {h1, h2}
  Tactics = {"execution", "impact", "collection"}
  Entities = {"e1"}
  Window = 0
  QueryLimit = 2
  MaxEntities = 1
  AgentAlerts <- PlacingAlerts
  AutoIsolate = TRUE
  ClockSkew = 0
  MaxProcessed = 4
  CloseLimit = 2
  MaxConsole = 1
  MaxCrashes = 1
  MaxClock = 1
INVARIANTS
  UniqueOpenIncident
  OpenListsAreHomes
  AlertHome
  CountedOnce
  ClosedTogether
  RaisedOnce
  ReportedUnlessMerged
CHECK_DEADLOCK FALSE
