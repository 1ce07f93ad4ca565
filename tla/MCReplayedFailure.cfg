CONSTANTS
    Size <- MCSize
    ChunkSize <- MCChunkSize
    MaxCost = 2
    MaxEdits = 2
    Models = {"walker", "jumper", "climber"}
    Callers = {"walker", "jumper"}
    Passes <- MCPasses
    Special <- MCSpecial
    EntryCaps = {1, 3}
    NodeCaps = {8}
    DependencyCaps = {4, 8}
    Requests <- MCRequests
    EditedTiles <- MCEditedTiles
    NewCosts = {0, 1}
    MaxEpoch = 3
    Straight = 2
    Oblique = 3
    Infinite = 24
    MaxBucketCost = 9
    ProductModels <- MCProductModels
    AskedModels = {"walker", "stepper", "rider"}
    Providers = {"rider"}
    ProviderEdges <- MCProviderEdges
    GoalLists <- MCGoalLists
    ProductBudgets = {10, 18}
    RouteModels <- MCRouteModels
    RouteRequests <- MCRouteRequests
    WaypointLists <- MCWaypointLists
    SegmentBudgets = {0, 2}
    Scenes = {"portals"}
    UnitPasses <- MCUnitPasses
    WeightedPasses <- MCWeightedPasses
    ClassOf <- MCClassOf
    Batches <- MCBatches
    RuntimeEdits <- MCRuntimeEdits
    ThrowStages = {3}
    MaxGeneration = 1
    MaxPasses = 2
    MaxProductEdits = 1
SPECIFICATION MCSpec
INVARIANT ReplayedFailuresAreCurrent
CHECK_DEADLOCK FALSE
