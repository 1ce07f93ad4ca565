CONSTANTS
    Chunks = {c1, c2}
    Entities = {}
    Tiles = {t1, t2}
    Nowhere = Nowhere
    ChunkCapacity = 2
    EntityCapacity = 0
    CoalesceMoves = TRUE
    MovesWithBaselinePending = TRUE
    MaxVersion = 4
    MaxEntityVersion = 1
SPECIFICATION Spec
SYMMETRY Symmetry
PROPERTY MovedFromFrameIsRefused
