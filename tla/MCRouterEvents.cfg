SPECIFICATION Spec
CONSTANTS
  SubCds <- FlexibleOnly
  PubCds <- NoCds
  FibNames <- RootOnly
  Costs = {0}
  TcpRemotes = {"t1"}
  UdpRemotes = {"u1"}
  MaxFaces = 2
  MaxQueue = 3
INVARIANTS
  TypeOK
  EveryHopWillExpire
  RemovalIsOrderly
  FaceIsReadOnce
