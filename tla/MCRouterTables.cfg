SPECIFICATION Spec
CONSTANTS
  SubCds <- TwoSubs
  PubCds <- OnePub
  FibNames <- RootAndOne
  Costs = {0}
  TcpRemotes = {"t1"}
  UdpRemotes = {}
  MaxFaces = 2
  MaxQueue = 1
INVARIANTS
  HopsAreFaces
  NoEmptyEntry
PROPERTIES
  FreshHopSurvives
  MatchedPacketsLeave
  LostFaceIsRemoved
  ResubscriberIsHeard
  ImplementsPubSubTable
