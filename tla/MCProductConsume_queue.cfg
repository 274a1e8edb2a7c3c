SPECIFICATION FairSpec
CONSTANTS
  Producer = {p1, p2, p3}
  Consumer = Consumer
  Nobody = Nobody
  BUFFER_SIZE = 2
  MaxItem = 2
  NULL = NULL
INVARIANTS IInv SlotsAccounted
PROPERTIES RingIsQueue EveryItemConsumed
CHECK_DEADLOCK FALSE
