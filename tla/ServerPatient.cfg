\* Server.tla with clients that wait for their answers: what they are sent.
CONSTANTS
    Conns = {c1, c2}
    NoConn = NoConn
    Workers = {w1, w2}
    NoTask = NoTask
    Listen = Listen
    Wake = Wake
    Welcome = Welcome
    QueSize = 1
    MaxFds = 2
    MaxReqs = 2
    Patient = TRUE
SPECIFICATION Spec
SYMMETRY Symmetry
INVARIANTS
    OwnAnswersOnce
    NotCrashed
\* Clients that have closed send nothing more.
CHECK_DEADLOCK FALSE
