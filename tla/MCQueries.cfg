SPECIFICATION Spec
CONSTANTS
    n1 = n1
    n2 = n2
    n3 = n3
    n4 = n4
    n5 = n5
    Notes = {n1, n2, n3, n4, n5}
    Shapes <- MCShapes
    Archives <- MCArchives
    Depth = 3
    Limit = 2
    MinSize = 2
    MaxChanges = 1
    Pages = {p1}
    Shelves <- MCShelves
    Readers = {r1, r2}
    Ttl = 1
    MaxSlow = 1
    MaxMoves = 2
    Jobs = {j1, j2}
    Deadlines <- MCDeadlines
    Horizon = 1
    Rows <- MCRows
    MaxAlterations = 1
SYMMETRY MCAlike
CHECK_DEADLOCK FALSE
INVARIANTS
    PathTrue
    GraphTrue
    AnswersFresh
    PlanSane
