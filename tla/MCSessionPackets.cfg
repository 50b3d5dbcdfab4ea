SPECIFICATION FairSpec
CONSTANTS
    MaxPackets = 5
    MaxChars = 2
    MaxTransfers = 1
    MaxProcessed = 1
    MaxMapUpdates = 1
    ExpireTicks = 1
    NoOwner = NoOwner
    NoPacket = NoPacket
INVARIANTS
    HandledInOrder
    HandledAsMeant
    
PROPERTIES
    EveryPacketLeaves
    ClosedIsDeleted
CHECK_DEADLOCK FALSE
