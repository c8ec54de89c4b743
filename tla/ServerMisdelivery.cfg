\* Server.tla with clients that do not wait: who gets the answer?
CONSTANTS
    Conns = {c1, c2}
    NoConn = NoConn
    Workers = {w1}
    NoTask = NoTask
    Listen = Listen
    Wake = Wake
    Welcome = Welcome
    QueSize = 1
    MaxFds = 1
    MaxReqs = 1
    Patient = FALSE
SPECIFICATION Spec
INVARIANTS
    AnswerToItsConnection
CHECK_DEADLOCK FALSE
