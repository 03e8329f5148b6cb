SPECIFICATION FairSpec
CONSTANTS
  NoWorker = NoWorker
  Workers = {w1, w2}
  Malformed <- SecondBatch
  RefreshLag = TRUE
  Window = 1
  Attempts = 2
  MaxBatch = 2
  MaxKafka = 2
INVARIANTS
  TypeOK
  CommittedProjected
  NothingSkipped
PROPERTIES
  EventuallyProjected
