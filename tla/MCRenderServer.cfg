CONSTANTS
    Ctxs = {1}
    MaxWorkers = 3
    MaxCount = 2
    Pids = {1, 2}
    Res = {1}
    MaxQueue = 2
SPECIFICATION Spec
INVARIANTS
    JailConsistent
    AttachedIsHeld
    RepliesAwaited
PROPERTIES
    KillsOnlyItsOwn
    CallsReturn
    SlotsReturn
    WorkersEnd
CHECK_DEADLOCK FALSE
