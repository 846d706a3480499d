\* Seqnos of ring 0 wrap at M = 6; a stall of two looks stands for 100.
CONSTANTS
    NumRings = 2
    M = 6
    StallLimit = 2
    MaxPending = 2
    MaxFences <- MCMaxFences
SPECIFICATION FairSpec
INVARIANTS
    BusyConsistent
PROPERTIES
    RetiresSignaled
    ImplementsFenceTimeline
    PendingFencesRetire
    DestroyReturns
