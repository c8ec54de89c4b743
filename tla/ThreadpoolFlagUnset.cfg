\* Is a queued task run?  TaskQueue::flag is never initialised.
CONSTANTS
    Workers = {w1, w2}
    Owner = Owner
    Tasks = {t1, t2, t3}
    NoTask = NoTask
    NoThread = NoThread
    QueSize = 1
    FlagInit = {TRUE, FALSE}
SPECIFICATION FairSpec
PROPERTIES
    QueuedTaskIsRun
CHECK_DEADLOCK FALSE
