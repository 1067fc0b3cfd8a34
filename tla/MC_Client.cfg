\* Sessions fail at every step of a connect, and one follows another while the
\* simulator holds its packets.
CONSTANTS
    Modulus = 4
    SendQueueSize = 2
    ReceiveQueueSize = 2
    SentPacketsSize = 2
    MaxPerPacket = 1
    PacketBudget = 900
    ResendTicks = 0
    FirstWait = 0
    MeasuredBits <- OneByte
    Kinds <- OneUnreliable
    UsizeModulus = 65536
    OverflowChecks = TRUE
    CheckBits = 0
    BufferBits = 1000
    MaxSimulatorPackets = 3
    HasSimulator = TRUE
    SessionNumbers = 3
SPECIFICATION FairSpec
INVARIANTS TypeOK AllOrNothing NothingLeaks StateIsTrue NothingOfEarlierSessions NothingPanics
PROPERTIES AttemptEnds
\* A panic ends the program.
CHECK_DEADLOCK FALSE
