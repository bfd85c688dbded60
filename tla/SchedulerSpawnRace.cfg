SPECIFICATION SchedSpec
CONSTANTS
    NumThreads = 1
    MaxTasks = 3
    Capacity = 4
    SpawnWhileRunning = TRUE
    Client = client
    Null = 0
    Workers <- WorkerIds
    Spawners <- ClientOnly
    Task <- TaskIds
    MayPush <- ClientPushes
INVARIANT AtMostOnce
