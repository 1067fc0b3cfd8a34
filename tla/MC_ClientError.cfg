\* An error of insecure_connect, and the next advance_time.
CONSTANTS
    Modulus = 4
    SendQueueSize = 2
    ReceiveQueueSize = 2
    SentPacketsSize = 2
    MaxPerPacket = 1
    PacketBudget = 900
    ResendTicks = 0
    FirstWait = 0
    MeasuredBits <- OneByte
    Kinds <- OneUnreliable
    UsizeModulus = 65536
    OverflowChecks = TRUE
    CheckBits = 0
    BufferBits = 1000
    MaxSimulatorPackets = 3
    HasSimulator = TRUE
    SessionNumbers = 3
SPECIFICATION Spec
PROPERTIES ErrorIsKept
\* A panic ends the program.
CHECK_DEADLOCK FALSE
