\* Two reliable channels, acknowledged by the same packets.
CONSTANTS
    Modulus = 4
    SendQueueSize = 1
    ReceiveQueueSize = 2
    SentPacketsSize = 2
    MaxPerPacket = 1
    PacketBudget = 1000
    ResendTicks = 0
    FirstWait = 0
    MeasuredBits <- OneByte
    Kinds <- TwoReliable
    UsizeModulus = 65536
    OverflowChecks = TRUE
    CheckBits = 0
    BufferBits = 1000
    Lifetime = 1
    MaxMessages <- OneEach
    MaxPackets <- AnyNumber
SPECIFICATION FairSpec
PROPERTIES ErrorEndsSession OneGetsThrough
\* A panic ends the program.
CHECK_DEADLOCK FALSE
