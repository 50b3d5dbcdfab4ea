SPECIFICATION SavesSpec
CONSTANTS
    anna = anna
    bert = bert
    Players <- MCPlayers
    NoPlayer = NoPlayer
    MaxId = 2
PROPERTY
    LockoutsNotReset
