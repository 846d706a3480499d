\* A ring wait for a seqno past the tail.
CONSTANTS
    M = 8
    BufSize = 2
    MaxCmds = 1
    MaxVq = 0
    MaxWaits = 1
    WaitBeyond = 1
    Overrun = FALSE
SPECIFICATION Spec
PROPERTIES
    WaitRingReturns
CHECK_DEADLOCK FALSE
