\* Server.tla with clients that close at any time.
CONSTANTS
    Conns = {c1, c2}
    NoConn = NoConn
    Workers = {w1, w2}
    NoTask = NoTask
    Listen = Listen
    Wake = Wake
    Welcome = Welcome
    QueSize = 1
    MaxFds = 2
    MaxReqs = 1
    Patient = FALSE
SPECIFICATION Spec
SYMMETRY Symmetry
INVARIANTS
    TypeOK
    EventFindsConnection
    DescriptorsOwned
PROPERTIES
    RunsItsLoop
\* A process that was killed stops, and so do clients that have nothing to send.
CHECK_DEADLOCK FALSE
