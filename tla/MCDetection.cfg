SPECIFICATION Spec
CONSTANTS
  WindowOf <- Lengths
  LimitOf <- Pairs
  CooldownOf <- Cooldowns
  DedupWindow = 3
  Settings <- Scenes
INVARIANTS
  AttackReported
  IntrusionReported
  AlertsApart
  NewSourceReported
PROPERTIES
  NeverNewsAgain
CHECK_DEADLOCK FALSE
