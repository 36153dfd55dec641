SPECIFICATION SensorSpec
CONSTANTS
  i1 = i1
  i2 = i2
  Items = {i1, i2}
  Own = {i2}
  Members = {i2}
  MaxFiles = 1
  QueueSize = 1
  MaxChanges = 2
  MaxFaults = 2
INVARIANTS
  TellsWhatItKnows
  StopsAreTrue
PROPERTIES
  ToldOnce
  ChangesTold
