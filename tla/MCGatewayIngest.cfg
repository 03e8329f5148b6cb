SPECIFICATION Spec
CONSTANTS
  Agents = {a1}
  Handlers = {h1, h2}
  MaxBatch = 2
  MaxKafka = 4
  MaxCrashes = 2
INVARIANTS
  TypeOK
  AckedInKafka
SYMMETRY Symmetry
