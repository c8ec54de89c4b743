SPECIFICATION FairSpec
CONSTANTS
    Threads = {t1, t2}
    IntSize = 3
    ByteSize = 3
    CharSigned = TRUE
    Headers <- MCHeaders
INVARIANTS
    LookupFindsRegister
    LockFreeWhenIdle
PROPERTY
    TestReturns
