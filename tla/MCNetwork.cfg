SPECIFICATION Spec
CONSTANTS
  Routers = {1, 2}
  Publishers = {3}
  Subscribers = {4, 5}
  Links <- Triangle
  SubsOf <- SubsOfEach
  PubCds <- TwoPubs
  FirstRoutes <- BothDirect
  FirstHops <- SecondWasBehindFirst
  NewRoutes <- Across
  MaxPublished = 2
  MaxChanges = 1
INVARIANTS
  DeliveredAsPublished
  SubscriberHears
PROPERTIES
  CirculationEnds
