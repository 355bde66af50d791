SPECIFICATION Spec
CONSTANTS
    Ids = {i1}
    MaxConns = 3
    None = None
INVARIANTS
    StartSucceeds
CHECK_DEADLOCK FALSE
