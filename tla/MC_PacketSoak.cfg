\* No budgets: a channel may fill the packet.  A build that wraps.
CONSTANTS
    Modulus = 4
    SendQueueSize = 3
    ReceiveQueueSize = 3
    SentPacketsSize = 1
    MaxPerPacket = 2
    PacketBudget = 1000
    ResendTicks = 0
    FirstWait = 0
    MeasuredBits <- ItsSize
    Kinds <- ReliableFirst
    UsizeModulus = 65536
    OverflowChecks = FALSE
    CheckBits = 0
    CountModulus = 2
    BufferBits = 336
    Sizes = {8, 80, 256}
SPECIFICATION Spec
INVARIANT SoakAssertion
