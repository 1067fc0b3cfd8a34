\* Several messages to a packet; the send queue is longer than the receive queue,
\* the last message in it too large for any packet, and the clock too young for
\* the -1.0 of a new message to be long ago.
CONSTANTS
    Modulus = 8
    SendQueueSize = 4
    ReceiveQueueSize = 2
    SentPacketsSize = 2
    MaxPerPacket = 2
    PacketBudget = 1000
    ResendTicks = 1
    FirstWait = 0
    AvailableBits = {1000}
    Lifetime = 2
    MaxIdle = 0
    MaxMessages = 4
    MeasuredBits <- FourthTooLarge
SPECIFICATION FairSpec
PROPERTIES EventuallyDelivered EventuallyAcked
\* A panic ends the program.
CHECK_DEADLOCK FALSE
