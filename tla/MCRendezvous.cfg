SPECIFICATION Spec
CONSTANTS
  TcpClients = {"t1"}
  UdpClients = {"u1", "u2"}
  TcpKinds = {"PubToRp", "ignored"}
  UdpKinds = {"PubToRp", "garbage"}
  TcpSends = 2
  UdpSends = 1
  MaxSockets = 2
  MaxQueue = 1
INVARIANTS
  AnsweredToPublisher
PROPERTIES
  PublicationComesBack
CHECK_DEADLOCK FALSE
