SPECIFICATION Spec
CONSTANTS
  CommandLines <- RemoteLines
  MaxCommands = 1
  Remotes <- MCRemotes
  Self <- MCSelf
  AddressOf <- MCAddresses
  DefaultPort <- P9876
  SubCds <- MCSubs
  MaxFaces = 3
INVARIANTS
  UsageIsTrue
CHECK_DEADLOCK FALSE
