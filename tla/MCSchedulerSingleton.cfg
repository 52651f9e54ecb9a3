\* One renewal that raises is enough: nobody is stopped, evicted or late.
SPECIFICATION Spec
CONSTANTS
    Instances = {s1, s2}
    LockTTL = 3
    RenewInterval = 2
    MaxStops = 0
    MaxFaults = 1
    MaxEvictions = 0
    MaxOverruns = 0
    MaxSlots = 0
INVARIANTS
    Singleton
