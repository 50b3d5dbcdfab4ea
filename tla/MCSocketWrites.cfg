SPECIFICATION FairSpec
CONSTANTS
    Producers = {net, world}
    Values = {challenge, error, pong, small, large}
    MaxNodes = 4
    NoValue = NoValue
    Net = net
    Challenge = challenge
    Error = error
    Pong = pong
    Large = large
    Size <- PacketSize
    BufferSize = 2
    Window = 2
INVARIANTS
    NoFreedNode
    RejectionTold
PROPERTIES
    ImplementsOrderedStream
CHECK_DEADLOCK FALSE
