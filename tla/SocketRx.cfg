SPECIFICATION Spec
CONSTANTS
  Protocols = {"TCP", "UDP"}
  BufSize = 3
  SegSizes = {1, 2, 4}
  ReadSizes = {1, 3}
  MaxSegs = 3
  MaxFaults = 1
INVARIANTS
  TypeOK
  PendingCounts
  NoLostWakeup
PROPERTIES
  OrderedDelivery
  ReaderWoken
CHECK_DEADLOCK FALSE
