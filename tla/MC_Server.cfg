\* Two slots fail in the same advance_time, or one does while the other is free.
CONSTANTS
    Modulus = 4
    SendQueueSize = 1
    ReceiveQueueSize = 1
    SentPacketsSize = 2
    MaxPerPacket = 1
    PacketBudget = 900
    ResendTicks = 0
    FirstWait = 0
    MeasuredBits <- OneByte
    Kinds <- OneUnreliable
    UsizeModulus = 65536
    OverflowChecks = TRUE
    CheckBits = 0
    BufferBits = 1000
    MaxClients = 2
    MaxSimulatorPackets = 2
    ClientNumbers = 3
SPECIFICATION Spec
INVARIANTS TypeOK PacketsForTheirClient MessagesOfTheirClient NothingPanics
PROPERTIES FailedAreDropped
\* A panic ends the program.
CHECK_DEADLOCK FALSE
