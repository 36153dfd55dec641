SPECIFICATION Spec
CONSTANTS
  MaxFaults = 1
INVARIANTS
  OneRow
  RefusedAfterOverlap
PROPERTIES
  HeardAgain
