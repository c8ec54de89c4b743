\* EventLoop.tla: functors posted by two workers and by functors.
CONSTANTS
    Callers = {w1, w2}
    IO = IO
    Functors = {f1, f2, f3}
    NoFunctor = NoFunctor
    NoThread = NoThread
SPECIFICATION FairSpec
INVARIANTS
    NoFunctorStranded
PROPERTIES
    ImplementsFunctorQueue
    RunInLoopReturns
    FunctorIsCalled
    UnloopEndsLoop
\* After unloop() the IO thread leaves loop().
CHECK_DEADLOCK FALSE
