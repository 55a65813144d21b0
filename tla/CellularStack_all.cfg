SPECIFICATION Spec
CONSTANTS
  SocketCount = 2
  MaxSockets = 2
  Protocols = {"TCP", "UDP"}
  Families = {"v4", "v6"}
  Features = {"session", "close_all", "remote_close"}
  RemoteCloseFrees = TRUE
  MaxFaults = 1
  MaxCrashes = 0
INVARIANTS
  TypeOK
  PoolAccounting
PROPERTIES
  LockReleased
