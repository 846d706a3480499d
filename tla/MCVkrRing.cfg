\* Sequence numbers that wrap (M = 4, buffer of 2); the driver may overrun the
\* buffer, waits only for what it has published.
CONSTANTS
    M = 4
    BufSize = 2
    MaxCmds = 4
    MaxVq = 1
    MaxWaits = 1
    WaitBeyond = 0
    Overrun = TRUE
SPECIFICATION Spec
INVARIANTS
    NoLostWakeup
    HeadIsExecuted
PROPERTIES
    DispatchInOrder
    WaitRingSound
    PublishedIsDispatched
    WaitRingReturns
    StopReturns
CHECK_DEADLOCK FALSE
