SPECIFICATION MCSpec
CONSTANTS
    N = 4
    maxConcurrentTry = 2
    p1 = p1
    p2 = p2
    p3 = p3
    p4 = p4
    p5 = p5
    Posts = {p1, p2, p3, p4, p5}
    Scripts <- MCScripts
    MaxPackets = 1
    PacketSize = 2
    Gets = {g1, g2}
    Uploads = {p1, p2}
    Capacity = 1
    Closers = {c1, c2}
    Readers = {r1, r2}
    MaxEntries = 2
    MaxReplies = 2
    Senders = {p1, p2}
    CacheSize = 1
    None = None
CHECK_DEADLOCK FALSE
INVARIANTS
    InOrder
    NoSplitSession
    BodyIsClosed
    EndedOnce
PROPERTIES
    AcceptedIsRead
    SessionsEnd
    RaceEnds
    LinksEnd
