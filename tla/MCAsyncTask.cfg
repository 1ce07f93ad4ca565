CONSTANTS
    d = d
    e = e
    DirtyBits = {d}
    EventBits = {e}
    TickModulus = 3
    MayThrow = {3, 4}
    Poked = {2, 3, 6}
    Toggled = {4}
    Tasks <- MCTasks
    Kind <- MCKind
    Phase <- MCPhase
    EveryN <- MCEveryN
    Subscribed <- MCSubscribed
    Adapter = 3
    MaxAdapted = 2
    MaxSlots = 2
    MaxGeneration = 2
    MaxSubmissions = 3
    MaxTick = 1
    MaxReplies = 1
    Budgets = {1, 2}
    Versions = {v1, v2}
SPECIFICATION SceneLiveSpec
INVARIANTS CadenceIsLockstep NoTriggerLost WorkStaysArmed FlowConserved
PROPERTIES TriggersServed ImplementsLifecycle PendingSettles
CHECK_DEADLOCK FALSE
