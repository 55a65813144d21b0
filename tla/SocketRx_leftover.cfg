SPECIFICATION Spec
CONSTANTS
  Protocols = {"TCP"}
  BufSize = 3
  SegSizes = {1, 2}
  ReadSizes = {1, 3}
  MaxSegs = 3
  MaxFaults = 1
INVARIANTS
  LeftoverKept
CHECK_DEADLOCK FALSE
