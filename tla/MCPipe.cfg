SPECIFICATION FairSpec
CONSTANTS
    Readers = {r1}
    Writers = {w1, w2}
    Limit = 1
    MaxWrite = 1
    MaxBytes = 3
INVARIANTS
    NoLostWakeup
PROPERTIES
    ImplementsStream
    AcceptedIsDelivered
    
