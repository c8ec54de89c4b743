\* Server.tla: does every request get its answer, and every client its turn?
CONSTANTS
    Conns = {c1, c2, c3}
    NoConn = NoConn
    Workers = {w1}
    NoTask = NoTask
    Listen = Listen
    Wake = Wake
    Welcome = Welcome
    QueSize = 1
    MaxFds = 2
    MaxReqs = 1
    Patient = TRUE
SPECIFICATION FairClientSpec
PROPERTIES
    EveryRequestAnswered
    EveryConnectionServed
\* Clients that have closed send nothing more.
CHECK_DEADLOCK FALSE
