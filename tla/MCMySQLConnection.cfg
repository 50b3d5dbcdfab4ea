SPECIFICATION FairSpec
CONSTANTS
    AsyncConns = {a1, a2}
    SyncConns = {s1}
    Transactions = {t1, t2}
    NoTx = NoTx
    NoConn = NoConn
    TxSize = 2
    ReconnectAttempts = 2
    LoopBreaker = 2
    MaxLost = 1
    MaxDeadlocks = 2
    MaxErrors = 1
CHECK_DEADLOCK FALSE
INVARIANTS
    AtomicUnlessInterrupted
PROPERTY
    TransactionEnds
