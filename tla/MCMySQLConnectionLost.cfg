SPECIFICATION Spec
CONSTANTS
    AsyncConns = {a1, a2}
    SyncConns = {s1}
    Transactions = {t1}
    NoTx = NoTx
    NoConn = NoConn
    TxSize = 2
    ReconnectAttempts = 2
    LoopBreaker = 2
    MaxLost = 1
    MaxDeadlocks = 0
    MaxErrors = 0
CHECK_DEADLOCK FALSE
INVARIANT
    AllOrNothing
