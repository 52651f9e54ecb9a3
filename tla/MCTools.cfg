SPECIFICATION Spec
CONSTANTS
    Callers = {c1, c2}
    MaxNotes = 4
    Written = 2
    Today = 1
    Interval = 2
    Days = {2}
    Categories = {"projects", "areas"}
    ToolsTogether = {{}, {"para_move", "para_reclassify", "para_update"}, {"para_archive", "para_move", "para_add_note"},
        {"para_complete", "para_update", "para_delete"}, {"para_complete", "remove"},
        {"link", "para_add_link"}, {"link", "remove"}, {"/move", "/done"}}
    MaxCalls = 3
    Topics = {n1}
    Reporters = {a1}
    MaxRuns = 2
    MaxTasks = 3
    MaxOthers = 3
    Chats = {k1}
    Handlers = {u1, u2}
    Limits = {2, 3, 4}
    MaxUpdates = 4
    Posts = {p1, p2}
    Texts = {x1}
    Window = 2
    MaxTime = 4
    MaxRows = 3
    MaxPosts = 4
    Sessions = {s1, s2}
    Slots = {i1, i2, i3}
    MaxEdits = 3
CHECK_DEADLOCK FALSE
INVARIANTS
    HistoryAgrees
    AutoLinksBounded
    OneOpenTask
    WindowIsLatest
    TurnsWhole
    CronOnce
    ProgressSane
PROPERTIES
    SeriesAdvances
