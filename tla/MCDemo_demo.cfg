SPECIFICATION Spec
CONSTANTS
  BUFFER_TASK_SIZE = 2
  MaxCount = 2
  WordSize = 8
  MaxPos = 3
  Movement <- MCMovement
  REL_X = REL_X
  Axis = {REL_X}
  Low = 1
  High = 4
INVARIANTS IInv CrashExplained OnScreenLast ColourInRange
PROPERTY MouseStep
CHECK_DEADLOCK FALSE
