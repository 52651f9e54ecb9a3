SPECIFICATION Spec
CONSTANTS
    n1 = n1
    n2 = n2
    Notes = {n1, n2}
    Everyone = Everyone
    Emitters = {"job", "user"}
    Retries = 1
    MaxFaults = 0
    LastDay = 3
    Due = 2
    Deadlines = {3}
    ReminderDays = {1}
    StaleDays = 2
    ArchiveDays = 1
    UrgentDays = 1
    SnoozeDays = {1}
    Lag = 0
    Together = {{"stale", "keep"}}
    MaxRuns = 2
    MaxEdits = 1
SYMMETRY Symmetry
CHECK_DEADLOCK FALSE
PROPERTIES
    KeepsItsWord
