SPECIFICATION FairSpec
CONSTANTS
  Device = {e1, e2}
  MaxEvents = 2
  MaxFd = 3
  ReadSize = 2
  QueueSize = 2
  MaxPlugs = 3
  MaxScans = 1
  Faults = {}
  NULL = NULL
PROPERTY InputRead
CHECK_DEADLOCK FALSE
