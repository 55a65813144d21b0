SPECIFICATION Spec
CONSTANTS
  Tcp = {"t1", "t2"}
  Udp = {"u1"}
  MaxRetries = 3
INVARIANTS
  TypeOK
  MarkHasTimeout
  NoTimeoutStartsOnDeleted
PROPERTIES
  HoldShortens
  MarkedSenderWoken
CHECK_DEADLOCK FALSE
