\* Does stop() always return?  wake_up broadcasts without the mutex.
CONSTANTS
    Workers = {w1, w2}
    Owner = Owner
    Tasks = {t1, t2, t3}
    NoTask = NoTask
    NoThread = NoThread
    QueSize = 1
    FlagInit = {TRUE}
SPECIFICATION FairSpec
PROPERTIES
    StopAlwaysReturns
CHECK_DEADLOCK FALSE
