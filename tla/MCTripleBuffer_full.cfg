SPECIFICATION FairSpec
CONSTANTS
  Producer = {p1, p2, p3}
  Consumer = Consumer
  Nobody = Nobody
  BUFFER_SIZE = 10
PROPERTY ProducesAfterFull
