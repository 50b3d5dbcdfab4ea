SPECIFICATION FairSpec
CONSTANTS
    c1 = c1
    b1 = b1
    i1 = i1
    i2 = i2
    Continents = {c1}
    BaseMaps = {b1}
    Instances = {i1, i2}
    BaseOf <- MCBaseOf
    LoopWorkers = {w1, w2}
    NoMap = NoMap
INVARIANTS
    PendingCountsRequests
    ExclusiveUpdate
    NoDanglingRequest
    WorldThreadAlone
    TickCoversMaps
    ThreadPerOnceMap
PROPERTIES
    TickTerminates
    ShutdownTerminates
