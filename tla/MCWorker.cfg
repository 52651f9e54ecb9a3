\* Safety: three tasks, so that a batch of two can be lost and leave a third.
SPECIFICATION Spec
CONSTANTS
    Topics = {classify, notify}
    Bodies = {b1}
    Delays = {1}
    MaxTasks = 3
    MaxNow = 1
    MaxEvictions = 1
    Workers = {w1}
    Batch = 2
    MaxAttempts = 2
    MaxInterruptions = 1
SYMMETRY Symmetry
INVARIANTS
    TypeOK
    NothingVanishes
    DuplicateNeedsInterruption
    EffectsBounded
    LossBounded
PROPERTIES
    TakenInOrder
    RefinesDelivery
\* The bounds on tasks and time let the system run out of steps.
CHECK_DEADLOCK FALSE
