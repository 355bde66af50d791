SPECIFICATION MCSpec
CONSTANTS
    Flows = {u1, u2}
    MaxConcurrency = 2
    MaxConnection = 3
    IdSpace = 4
    LinkCap = 2
    MaxSend = 1
    MaxFaults = 1
    Tickers = {}
    Users = {u1, u2}
    Clients = {c1, c2, c3}
    MaxRequests = 2
    Limits <- MCLimits
    Handlers = {"a1", "a2", "b1", "u"}
    Tags = {"a", "b"}
    Tag <- MCTag
    Selectors = {"ab"}
    Matches <- MCMatches
    Conns = {u1, u2}
    MaxChanges = 5
    None = None
SYMMETRY Symmetry
INVARIANTS
    SessionsAreSeparate
    ClientsRetire
    SelectIsCurrent
    
    DefaultHasItsTag
CHECK_DEADLOCK FALSE
