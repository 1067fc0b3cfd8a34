\* Message ids and packet sequences both wrap.
CONSTANTS
    Modulus = 8
    SendQueueSize = 2
    ReceiveQueueSize = 2
    SentPacketsSize = 2
    MaxPerPacket = 1
    PacketBudget = 1000
    ResendTicks = 1
    FirstWait = 1
    AvailableBits = {1000}
    Lifetime = 2
    MaxIdle = 1
    MaxMessages = 9
    MeasuredBits <- OneByte
SPECIFICATION Spec
INVARIANTS TypeOK NoMessageLost OldestIsFirstInQueue PanicsOnlyIfUndrained
PROPERTIES ImplementsFifo AckFreesMessages
\* A panic ends the program.
CHECK_DEADLOCK FALSE
