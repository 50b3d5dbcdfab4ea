SPECIFICATION Spec
CONSTANTS
    alice = alice
    bob = bob
    gm = gm
    alice1 = alice1
    alice2 = alice2
    bob1 = bob1
    gm1 = gm1
    Accounts <- MCAccounts
    Sessions <- MCSessions
    AccountOf <- MCAccountOf
    Privileged <- MCPrivileged
    NoSession = NoSession
    InitialLimit = 1
    Limits <- MCLimits
    Tolerance = 1
    ExpireTicks = 2
    MaxTime = 0
    MaxCommands = 1
INVARIANTS
    QueueSound
    NoIdleSlot
    OnlineFlags
    
PROPERTY
    LetInInTurn
SYMMETRY MCSymmetry
