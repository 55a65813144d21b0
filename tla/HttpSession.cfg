SPECIFICATION SessionSpec
CONSTANTS
  Attempts = 2
  MaxPolls = 1
  MaxFaults = 1
  SocketCount = 2
  MaxSockets = 2
  MaxRequests = 2
  MaxRefused = 1
INVARIANTS
  SessionTypeOK
  SessionHasLink
  RequestsUseSession
  NoClientLeft
  SocketsAccounted
PROPERTIES
  NoDuplicateConnect
  AnswersItsRequest
  CallShortens
