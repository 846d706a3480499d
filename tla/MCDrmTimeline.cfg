\* Two queues on one ring, both ways of waiting.
CONSTANTS
    Queues = {q1, q2}
    MaxSubmits = 2
    MaxFences = 3
SPECIFICATION FairSpec
INVARIANTS
    WaitConsistent
PROPERTIES
    RetiresPassed
    QueuedInOrder
    QueuedFenceRetires
    FiniReturns
