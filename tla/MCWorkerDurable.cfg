\* README.md:93 calls the queue durable; one batch and one stop are enough.
SPECIFICATION Spec
CONSTANTS
    Topics = {classify, notify}
    Bodies = {b1}
    Delays = {1}
    MaxTasks = 2
    MaxNow = 1
    MaxEvictions = 0
    Workers = {w1}
    Batch = 5
    MaxAttempts = 3
    MaxInterruptions = 1
INVARIANTS
    Durable
CHECK_DEADLOCK FALSE
