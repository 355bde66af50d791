SPECIFICATION FairSpec
CONSTANTS
    Tags = {a, b}
    Rounds = {r1, r2}
    Init0 = Init0
    None = None
PROPERTIES
    CleanupKeepsSelected
CHECK_DEADLOCK FALSE
