\* The unreliable channel takes its data in before the reliable one refuses.
CONSTANTS
    Modulus = 8
    SendQueueSize = 2
    ReceiveQueueSize = 2
    SentPacketsSize = 2
    MaxPerPacket = 1
    PacketBudget = 1000
    ResendTicks = 1
    FirstWait = 1
    MeasuredBits <- OneByte
    Kinds <- UnreliableThenReliable
    UsizeModulus = 65536
    OverflowChecks = TRUE
    CheckBits = 0
    BufferBits = 1000
    Lifetime = 2
    MaxMessages <- MostlyClient
    MaxPackets <- ThreeAndTwo
SPECIFICATION Spec
INVARIANTS TypeOK NothingLost NextInOrder NothingInvented PanicsOnlyIfUndrained
\* A panic ends the program.
CHECK_DEADLOCK FALSE
