\* One create_note and nothing that fails.
SPECIFICATION FairSpec
CONSTANTS
    Requests = {r1}
    Texts = {t1, t2}
    Categories = {"inbox", "archives"}
    NoText = NoText
    Nobody = Nobody
    MaxFaults = 0
PROPERTIES
    Backfilled
CHECK_DEADLOCK FALSE
