SPECIFICATION Spec
CONSTANTS
  Protocols = {"tcp"}
  MaxPubs = 1
  MaxBacklog = 2
  Resends = TRUE
  MayShutDown = TRUE
INVARIANTS
  OneTimerAtATime
CHECK_DEADLOCK FALSE
