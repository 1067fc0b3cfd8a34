\* The budgets fit the packet exactly: 16 + 2 * (128 + 32) bits.
CONSTANTS
    Modulus = 4
    SendQueueSize = 3
    ReceiveQueueSize = 3
    SentPacketsSize = 1
    MaxPerPacket = 2
    PacketBudget = 128
    ResendTicks = 1
    FirstWait = 1
    MeasuredBits <- ItsSize
    Kinds <- ReliableSecond
    UsizeModulus = 65536
    OverflowChecks = TRUE
    CheckBits = 0
    CountModulus = 2
    BufferBits = 336
    Sizes = {32, 96}
SPECIFICATION Spec
INVARIANTS TypeOK BudgetRespected ReservedNeverPanics RoundTrip
PROPERTY OldestGoesFirst
