SPECIFICATION ProducersSpec
CONSTANTS
  BASE_FILL_RATE = 2
  MIN_FILL_RATE = 1
  QUEUE_DEPTH_THRESHOLD = 1
  LATENCY_THRESHOLD = 1
  BUCKET_CAPACITY = 1
  TICKS = 3
  Latencies = {0, 20}
  MaxElapsed = 3
  p1 = p1
  p2 = p2
  Producers <- TwoProducers
  Batch <- OneAndTwo
  MAX_RETRIES = 1
  BASE_DELAY = 3
  MAX_DELAY = 3
  MaxLosses = 1
INVARIANTS
  ProducersTypeOK
  BetweenFloorAndNominal
  AcceptedOnce
PROPERTIES
  RetryHintHolds
  EveryCallEnds
