SPECIFICATION Spec
CONSTANTS
  Cids = {1, 5, 6}
  HasApn = TRUE
  MaxEvents = 2
  MaxFaults = 1
INVARIANTS
  TypeOK
  SelectionIsBest
  NeverRedefinesActive
  IpFlagHonest
PROPERTIES
  StackFollowsContext
  ConnectSucceeds
