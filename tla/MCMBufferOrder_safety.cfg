SPECIFICATION OrderSpec
CONSTANTS
  MaxProduceThreadNum = 2
  MaxTaskNum = 4
  SemValueMax = 2
  NoProduce = {2}
  NoConsume = {3}
  Consumer = Consumer
  Nobody = Nobody
  NULL = NULL
INVARIANTS IInv OwnersRun FrameExclusive NoFrameLost OrderInv DisorderBounded
PROPERTY PipelineSpec
CHECK_DEADLOCK FALSE
