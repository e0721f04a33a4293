SPECIFICATION Spec
CONSTANTS
  Protocols = {"tcp", "udp"}
  MaxPubs = 2
  MaxBacklog = 2
  Resends = TRUE
  MayShutDown = TRUE
INVARIANTS
  OneWriteOfTheHead
  WrittenOnceInOrder
  ConnectionStateIsTrue
  SubscriberListens
PROPERTIES
  PublishedIsWritten
CHECK_DEADLOCK FALSE
