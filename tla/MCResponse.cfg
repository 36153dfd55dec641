SPECIFICATION Spec
SYMMETRY ResponseSymmetry
CONSTANTS
  p1 = p1
  Paths = {p1}
  c1 = c1
  c2 = c2
  Contents = {c1, c2}
  n1 = n1
  n2 = n2
  Pids = {n1, n2}
  MaxActions = 2
  MaxChanges = 2
  MaxFaults = 1
  MaxClock = 2
INVARIANTS
  
  AlreadyIsTrue
  KillsWhatItMeant
CHECK_DEADLOCK FALSE
