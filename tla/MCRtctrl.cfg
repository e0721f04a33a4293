SPECIFICATION Spec
CONSTANTS
  CommandLines <- MCCommandLines
  MaxCommands = 2
  Remotes <- MCRemotes
  Self <- MCSelf
  AddressOf <- MCAddresses
  DefaultPort <- P9876
  SubCds <- MCSubs
  MaxFaces = 3
INVARIANTS
  RequestsAreUnderstood
  LoadIsTheFile
  DeletedRouteIsGone
  DumpNamesEveryHop
CHECK_DEADLOCK FALSE
