SPECIFICATION Spec
CONSTANTS
  Device = {e1, e2}
  MaxEvents = 2
  MaxFd = 3
  ReadSize = 2
  QueueSize = 3
  MaxPlugs = 4
  MaxScans = 2
  Faults = {"open", "epoll", "inotify", "overflow"}
  NULL = NULL
SYMMETRY Symmetry
INVARIANTS IInv SlotsOwnFiles Settled LiveOnce AppInformed BlocksOnlyOnReuse
CHECK_DEADLOCK FALSE
