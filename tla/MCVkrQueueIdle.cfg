SPECIFICATION Spec
CONSTANTS
  Rings = {1}
  Queues = {q1}
  on_worker_thread = FALSE
  MaxSyncs = 1
  MaxFences = 1
INVARIANTS
  IdleAtThreadFini
