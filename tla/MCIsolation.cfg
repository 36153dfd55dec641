SPECIFICATION Spec
CONSTANTS
  Actors = {"heartbeat"}
  MaxActions = 6
  MaxFails = 2
INVARIANTS
  ChannelKept
  IsolatedAsReported
  BlockedAsReported
CHECK_DEADLOCK FALSE
