SPECIFICATION Spec
CONSTANTS
  e1 = e1
  e2 = e2
  Items = {e1, e2}
  Chunk = 1
  MaxBatch = 1
  OutboxCap = 1
  Backlog = 2
  MaxFaults = 2
  MaxRaises = 1
  MaxExits = 1
INVARIANTS
  NothingSilentlyLost
PROPERTIES
  AckedWasStored
  AlertsArrive
  OutboxDrains
