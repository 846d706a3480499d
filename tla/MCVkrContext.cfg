CONSTANTS
    Ctxs = {1}
    Res = {1, 2}
    PoolSize = 8
    MaxRings = 2
    MaxStreams = 1
SPECIFICATION Spec
INVARIANTS
    PoolExact
    TablesAgree
    RingMemoryLive
    ThreadsWithinContext
    CrashOnlyAfterFailure
PROPERTIES
    CallsReturn
CHECK_DEADLOCK FALSE
