SPECIFICATION Spec
CONSTANTS
  Tcp = {"t1", "t2"}
  Udp = {}
  MaxRetries = 3
PROPERTIES
  BlockedSenderWoken
CHECK_DEADLOCK FALSE
