SPECIFICATION HalfGoneSpec
CONSTANTS
    f1 = f1
    f2 = f2
    Flows = {f1, f2}
    MaxConcurrency = 2
    MaxConnection = 3
    IdSpace = 4
    LinkCap = 1
    MaxSend = 2
    MaxFaults = 2
    Tickers = {}
PROPERTIES
    UnknownKeepNotifies
CHECK_DEADLOCK FALSE
