SPECIFICATION Spec
CONSTANTS
    n1 = n1
    n2 = n2
    Notes = {n1, n2}
    Everyone = Everyone
    Emitters = {"job", "user"}
    Retries = 2
    MaxFaults = 1
    LastDay = 3
    Due = 2
    Deadlines = {3}
    ReminderDays = {1}
    StaleDays = 2
    ArchiveDays = 1
    UrgentDays = 1
    SnoozeDays = {1}
    Lag = 1
    Together = {{"deadline", "reschedule", "snooze", "delete"}, {"stale", "keep", "put away", "delete"},
                {"archive", "complete", "delete"}, {"escalation", "reschedule", "delete"}, {"deadline", "complete"}, {"digest"}, {"review"}, {"stale", "escalation", "keep"}}
    MaxRuns = 2
    MaxEdits = 1
SYMMETRY Symmetry
CHECK_DEADLOCK FALSE
INVARIANTS
    TypeOK
    PostsBounded
    PendingNeedsFault
    RepeatNeedsLoss
    RecordsTrue
    ReportedTogether
PROPERTIES
    QuietAfterKeep
    KeepsPromise
    EveryoneAttempted
