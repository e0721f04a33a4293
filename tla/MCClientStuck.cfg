SPECIFICATION Spec
CONSTANTS
  Protocols = {"tcp"}
  MaxPubs = 2
  MaxBacklog = 2
  Resends = FALSE
  MayShutDown = FALSE
PROPERTIES
  PublishedIsWritten
CHECK_DEADLOCK FALSE
