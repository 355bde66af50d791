SPECIFICATION WindowSpec
CONSTANTS
    SendWindow = 1
    InFlight = 2
    CwndMultiplier = 1
    RecvWindow = 2
    RemoteInit = 1
    MaxNumber = 3
    MaxNet = 2
    Updaters = {"ping"}
    Closers = {"a"}
    Writes = TRUE
    MaxUnderWay = 1
    MaxReleases = 1
INVARIANTS
    SafeRelease
PROPERTIES
    PushedIsRead
    WindowDrains
CHECK_DEADLOCK FALSE
