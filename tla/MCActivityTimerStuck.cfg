SPECIFICATION Spec
CONSTANTS
    Setters = {s1}
    Zeros = {}
    MaxUpdates = 1
    None = None
CHECK_DEADLOCK FALSE
PROPERTIES
    TimeoutHappens
