SPECIFICATION MCSpec
CONSTANTS
    Msgs = {m1, m2, m3}
    Late = m3
    Listeners = {l1, l2}
    Modes <- MCModes
    BufferSize = 1
    MaxStarts = 2
    Setters = {s1, s2}
    Zeros = {z1}
    MaxUpdates = 2
    Subs = {s1, s2, s3}
    Capacity = 1
    MaxPublish = 2
    Tags = {a}
    Rounds = {r1, r2}
    Init0 = init
    None = None
CHECK_DEADLOCK FALSE
INVARIANTS
    NothingMissed
    SameOrder
    OneRoundPings
PROPERTIES
    SilenceEnds
    Delivered
    RemovedAreForgotten
