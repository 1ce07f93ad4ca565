CONSTANTS
  Capacity = 2
  QueueCapacity = 1
  Kinds = {"fifo", "coalescing", "dirty", "immediate"}
  Tasks = {t1, t2}
  Producers = {p1, p2}
  Main = p1
  DrainBudgets = {1}
  MaxOffers = 2
  MaxHandles = 3
  SparseKeys = {1, 2, 3}
  MaxMarks = 2
  MaxTransitions = 1
  Size <- MCSize
  ChunkSize <- MCChunkSize
  Straight = 2
  Oblique = 3
  Infinite = 24
  MaxBucketCost = 9
  SearchModels <- MCModels
  Queries <- MCQueries
SYMMETRY Symmetry
VIEW View
SPECIFICATION MCSpec
INVARIANTS NoWorkIsForgotten ReleaseCancelsNothing ProductsAreTruthful AnswersAreExact ClosedIsFinal
