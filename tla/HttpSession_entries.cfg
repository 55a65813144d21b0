SPECIFICATION SessionSpec
CONSTANTS
  Attempts = 1
  MaxPolls = 1
  MaxFaults = 0
  SocketCount = 2
  MaxSockets = 2
  MaxRequests = 0
  MaxRefused = 0
INVARIANTS
  EntriesReturned
