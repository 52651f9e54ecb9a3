\* Three instances, so that a split may be wider than one disturbance explains; no symmetry,
\* for the liveness property.
SPECIFICATION FairSpec
CONSTANTS
    Instances = {s1, s2, s3}
    LockTTL = 3
    RenewInterval = 2
    MaxStops = 1
    MaxFaults = 1
    MaxEvictions = 1
    MaxOverruns = 1
    MaxSlots = 1
INVARIANTS
    TypeOK
    FewSchedulers
    FewRuns
PROPERTIES
    SomeoneSchedules
