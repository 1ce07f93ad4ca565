CONSTANTS
    Size <- MCSize
    ChunkSize <- MCChunkSize
    Straight = 2
    Oblique = 3
    Infinite = 24
    MaxBucketCost = 9
    SearchModels <- MCModels
    Queries <- MCQueries
SPECIFICATION SearchSpec
INVARIANT GroupingKeepsStatus
