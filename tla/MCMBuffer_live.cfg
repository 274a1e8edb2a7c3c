SPECIFICATION FairSpec
CONSTANTS
  MaxProduceThreadNum = 2
  MaxTaskNum = 2
  SemValueMax = 1
  NoProduce = {}
  NoConsume = {}
  Consumer = Consumer
  Nobody = Nobody
  NULL = NULL
PROPERTY EveryFrameShown
CHECK_DEADLOCK FALSE
