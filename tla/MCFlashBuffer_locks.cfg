SPECIFICATION FairSpec
CONSTANTS
  FRAMEBUFFER_NUMBER = 2
  SemValueMax = 2
  Flasher = Flasher
  Nobody = Nobody
INVARIANTS IInv NotDrawnOnShow
PROPERTY EveryBufferDrawn
