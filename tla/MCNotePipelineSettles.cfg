\* Liveness: no symmetry.
SPECIFICATION FairSpec
CONSTANTS
    Requests = {r1, r2}
    Texts = {t1, t2}
    Categories = {"inbox", "archives"}
    NoText = NoText
    Nobody = Nobody
    MaxFaults = 1
PROPERTIES
    RequestsEnd
    EventuallySearchable
CHECK_DEADLOCK FALSE
