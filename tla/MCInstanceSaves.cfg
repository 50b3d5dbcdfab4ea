SPECIFICATION SavesSpec
CONSTANTS
    anna = anna
    bert = bert
    Players <- MCPlayers
    NoPlayer = NoPlayer
    MaxId = 2
INVARIANTS
    SavesAndBindsAgree
    NeverAborts
    LockoutHolds
    SaveWhileOccupied
SYMMETRY MCSymmetry
