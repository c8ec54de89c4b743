\* Threadpool.tla: its safety, TaskPool.tla and its liveness, flag being TRUE.
CONSTANTS
    Workers = {w1, w2}
    Owner = Owner
    Tasks = {t1, t2, t3}
    NoTask = NoTask
    NoThread = NoThread
    QueSize = 2
    FlagInit = {TRUE}
SPECIFICATION FairSpec
INVARIANTS
    TypeOK
    TakeFindsTask
    QueuedTaskWakes
    PusherSleepsWhenFull
    DestroyedClean
    StopLosesNoTask
PROPERTIES
    ImplementsFairTaskPool
    AddTaskReturns
    WakeReachesSleepers
    QueuedTaskIsRun
\* A destroyed pool stops, and so does one whose stop() never returns.
CHECK_DEADLOCK FALSE
