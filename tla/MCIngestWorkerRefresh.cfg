SPECIFICATION Spec
CONSTANTS
  NoWorker = NoWorker
  Workers = {w1}
  Malformed <- NoBatch
  RefreshLag = TRUE
  Window = 1
  Attempts = 3
  MaxBatch = 2
  MaxKafka = 3
INVARIANTS
  HistoryMerged
