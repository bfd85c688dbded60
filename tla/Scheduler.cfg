SPECIFICATION FairSpec
CONSTANTS
    NumThreads = 2
    MaxTasks = 3
    Capacity = 2
    SpawnWhileRunning = FALSE
    Client = client
    Null = 0
    Workers <- WorkerIds
    Spawners <- ClientOnly
    Task <- TaskIds
    MayPush <- ClientPushes
INVARIANTS
    NoUseAfterFree
    StopLosesNothing
PROPERTIES
    TasksRun
    CallsReturn
