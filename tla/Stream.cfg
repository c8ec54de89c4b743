SPECIFICATION FairSpec
CONSTANTS
    LenBytes = 2
    BufSize = 2
    PipeSize = 3
    Sizes <- MCSizes
    WelcomeSize = 1
    Broken = Broken
INVARIANTS
    TypeOK
    AnswersAreFrames
PROPERTIES
    ImplementsChannel
    AnswersArrive
\* Once the client has closed, the connection comes to its end.
CHECK_DEADLOCK FALSE
