\* Safety: a note is created and three requests race for it.
SPECIFICATION Spec
CONSTANTS
    Requests = {r1, r2, r3}
    Texts = {t1, t2}
    Categories = {"inbox", "archives"}
    NoText = NoText
    Nobody = Nobody
    MaxFaults = 1
SYMMETRY Symmetry
INVARIANTS
    TypeOK
    UserTextStands
    StaleNeedsCause
    FeedbackNeedsMove
CHECK_DEADLOCK FALSE
