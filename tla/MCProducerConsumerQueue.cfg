SPECIFICATION FairSpec
CONSTANTS
    Values = {v1, v2, v3}
    Consumers = {c1, c2, c3}
    NoValue = NoValue
    MaxCancels = 2
INVARIANTS
    NoLostWakeup
PROPERTIES
    ImplementsBlockingQueue
