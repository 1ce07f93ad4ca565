CONSTANTS
    Tiles = {1, 2, 3, 4}
    NoTile = 0
    Neighbors <- TriangleWithTail
    Starts <- StartsInTriangle
    FirstGoals <- GoalChoices
    GoalTiles = {1, 4}
    EditTiles = {3}
    MaxRetries = 1
    DeadlockTicks = 1
    StepBudgets = {0, 1, 2}
    Oracles <- OracleChoices
    ElapsedLimit = 2
    MaxEdits = 1
SPECIFICATION Spec
VIEW View
INVARIANTS OneAgentPerTile GoalsConserved PlansAreCurrent
PROPERTIES QueuesDrain MovesObeyRules
