\* Four fences over two syncs, so that syncs are recycled.
CONSTANTS
    Rings = {1, 2}
    Queues = {q1, q2}
    on_worker_thread = TRUE
    MaxSyncs = 2
    MaxFences = 2
SPECIFICATION FairSpec
INVARIANTS
    SyncsConsistent
    RingsBound
PROPERTIES
    ImplementsFenceTimeline
    AcceptedFencesRetire
