SPECIFICATION FairSpec
CONSTANTS
    AsyncThreads = 2
    AutoSetup = TRUE
    Writes = {w1}
    Callbacks = {q, t}
    Transactions = {t}
    MaxLinks = 2
    NoOp = NoOp
CHECK_DEADLOCK FALSE
INVARIANTS
    BoundedReordering
    OneFate
    ConnectionOutlivesWorker
    NoCallbackLost
    AnswersAreReal
PROPERTIES
    ExecutedIfOpenedOnce
    CallbackCompletes
    ShutdownEnds
