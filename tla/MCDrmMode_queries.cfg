SPECIFICATION FairSpec
CONSTANTS
  MaxCount = 2
  MaxHotplug = 2
INVARIANTS IInv KernelWritesOwnArrays NoLeak FreedOnce
PROPERTIES SnapshotSpec CallReturns
CHECK_DEADLOCK FALSE
