SPECIFICATION MCSpec
CONSTANTS
    Flows = {f1}
    MaxConcurrency = 2
    MaxConnection = 3
    IdSpace = 4
    LinkCap = 6
    MaxSend = 1
    MaxFaults = 1
    Tickers = {"client"}
    Workers = {w1, w2}
    MaxObjects = 2
    MaxLinks = 2
    MaxSessions = 2
INVARIANTS
    IdleCloseIsClean
    FlowHasOneOwner
PROPERTIES
    
    DeathClosesSessions
    LinksAreReleased
CHECK_DEADLOCK FALSE
