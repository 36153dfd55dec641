SPECIFICATION Spec
CONSTANTS
  c1 = c1
  c2 = c2
  Ids = {c1, c2}
  MaxFaults = 1
  MaxRaises = 1
  MaxRestarts = 1
INVARIANTS
  RunAtMostOnce
  
PROPERTIES
  CommandsEnd
