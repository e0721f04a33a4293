SPECIFICATION Spec
CONSTANTS
  Incoming <- ManyPackets
  MaxPacketSize = 3
  MaxSends = 3
  MaxQueue = 2
INVARIANTS
  WholePacketsInOrder
  SentOneByOne
PROPERTIES
  StalledPeerIsCutOff
  LostConnectionIsNoticed
CHECK_DEADLOCK FALSE
