CONSTANTS
    Chunks = {c1, c2, c3}
    Entities = {e1}
    Tiles = {t1, t2}
    Nowhere = Nowhere
    ChunkCapacity = 3
    EntityCapacity = 2
    CoalesceMoves = TRUE
    MovesWithBaselinePending = FALSE
    MaxVersion = 5
    MaxEntityVersion = 3
SPECIFICATION Spec
CONSTRAINT OneHalf
SYMMETRY Symmetry
INVARIANTS StaleChunksAreCovered EntitiesAreCovered
PROPERTY MovedFromFrameIsRefused
