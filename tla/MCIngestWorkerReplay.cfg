SPECIFICATION Spec
CONSTANTS
  NoWorker = NoWorker
  Workers = {w1}
  Malformed <- NoBatch
  RefreshLag = FALSE
  Window = 2
  Attempts = 3
  MaxBatch = 2
  MaxKafka = 3
PROPERTIES
  ReplayConverges
