SPECIFICATION Spec
CONSTANTS
  i1 = i1
  i2 = i2
  a1 = a1
  Indicators = {i1, i2}
  Shipped = {i1}
  Agents = {a1}
  MaxChanges = 2
  MaxFaults = 1
INVARIANTS
  IocsSurvive
  AgentsAreCurrent
PROPERTIES
  IndicatorsArrive
