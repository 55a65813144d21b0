SPECIFICATION Spec
CONSTANTS
  SocketCount = 2
  MaxSockets = 3
  Protocols = {"TCP"}
  Families = {"v4"}
  Features = {"close_all"}
  RemoteCloseFrees = FALSE
  MaxFaults = 0
  MaxCrashes = 0
PROPERTIES
  SweepLeavesNone
