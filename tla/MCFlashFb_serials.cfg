SPECIFICATION FairSpec
CONSTANTS
  FRAMEBUFFER_NUMBER = 3
  SemValueMax = 1
  MaxSerial = 3
INVARIANTS IInv FrameTakenOnce NoSerialLost
PROPERTY DisplayGoesOn
