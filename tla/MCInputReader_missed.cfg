SPECIFICATION Spec
CONSTANTS
  Device = {e1}
  MaxEvents = 2
  MaxFd = 3
  ReadSize = 2
  QueueSize = 2
  MaxPlugs = 2
  MaxScans = 1
  Faults = {}
  NULL = NULL
INVARIANT NoDeviceMissed
CHECK_DEADLOCK FALSE
