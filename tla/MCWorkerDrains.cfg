\* Liveness: no symmetry, fewer tasks, two interruptions.
SPECIFICATION FairSpec
CONSTANTS
    Topics = {classify, notify}
    Bodies = {b1}
    Delays = {1}
    MaxTasks = 2
    MaxNow = 1
    MaxEvictions = 0
    Workers = {w1}
    Batch = 1
    MaxAttempts = 2
    MaxInterruptions = 2
PROPERTIES
    EventuallyTaken
CHECK_DEADLOCK FALSE
