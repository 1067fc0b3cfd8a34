\* Other channels send more than Half packets while this one is idle.
CONSTANTS
    Modulus = 8
    SendQueueSize = 2
    ReceiveQueueSize = 2
    SentPacketsSize = 2
    MaxPerPacket = 1
    PacketBudget = 1000
    ResendTicks = 1
    FirstWait = 1
    AvailableBits = {1000}
    Lifetime = 2
    MaxIdle = 6
    MaxMessages = 2
    MeasuredBits <- OneByte
SPECIFICATION Spec
PROPERTY AckFreesMessages
\* A panic ends the program.
CHECK_DEADLOCK FALSE
