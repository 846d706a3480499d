\* One queue; a fence without a submission of its own.
CONSTANTS
    Queues = {q1}
    MaxSubmits = 2
    MaxFences = 3
SPECIFICATION Spec
INVARIANTS
    SignaledInFifoOrder
