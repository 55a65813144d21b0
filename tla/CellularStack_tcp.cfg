SPECIFICATION Spec
CONSTANTS
  SocketCount = 2
  MaxSockets = 3
  Protocols = {"TCP"}
  Families = {"v4"}
  Features = {"remote_close"}
  RemoteCloseFrees = FALSE
  MaxFaults = 1
  MaxCrashes = 1
INVARIANTS
  UniqueIds
  OpenTracked
  HasBuffer
  ClosedIsShut
