------------------------------ MODULE PacketBudget ------------------------------
(***************************************************************************)
(* How the channels of a connection share the bits of a packet:             *)
(* generate_packet (src/src/connection.rs) gives every channel what the     *)
(* channels before it left, and ChannelPacketData::serialize                *)
(* (src/src/channel/channel_packet_data.rs) writes what they chose.  A      *)
(* message is its size, so that every mix of sizes in the send queues       *)
(* meets every packet.  That no assertion of send_message and process_ack   *)
(* fails is for ReliableChannel to show.                                    *)
(***************************************************************************)
EXTENDS PacketFormat

CONSTANTS BufferBits,   \* max_packet_size in bits
          Sizes         \* the sizes of messages

ASSUME BudgetAssumption ==
    /\ BufferBits \in Nat /\ BufferBits > PacketHeaderBits
    /\ Sizes \subseteq Nat

VARIABLES
    connection,      \* the sending connection
    next_sequence,   \* the sequence of the next packet
    packet           \* what the last generate_packet did

vars == <<connection, next_sequence, packet>>

Nothing == [data |-> <<>>, panic |-> NoPanic, available |-> 0]

Init ==
    /\ connection = NewConnection
    /\ next_sequence = 0
    /\ packet = Nothing

SendMessage(i, size) ==
    /\ packet.panic = NoPanic
    /\ ChannelCanSend(connection.channels[i])
    /\ connection' = [connection EXCEPT !.channels[i] = ChannelSend(@, size)]
    /\ packet' = Nothing
    /\ UNCHANGED next_sequence

SendGenerated(generated) ==
    /\ connection' = generated.connection
    /\ packet' = [data |-> generated.data, panic |-> generated.panic,
                  available |-> generated.available]
    /\ next_sequence' = IF generated.data = <<>> THEN next_sequence
                        ELSE WrappingAdd(next_sequence, 1)

SendPackets ==
    /\ packet.panic = NoPanic
    /\ SendGenerated(GeneratePacket(connection, next_sequence, BufferBits))

\* advance_time: nobody sends more than a queue holds, so no channel is in an error state.
AdvanceTime ==
    /\ packet.panic = NoPanic
    /\ connection' = AdvanceConnection(connection)
    /\ packet' = Nothing
    /\ UNCHANGED next_sequence

\* The packet just sent is acknowledged.
ProcessAcks ==
    LET sequence == WrappingSub(next_sequence, 1)
    IN  /\ packet.panic = NoPanic /\ packet.data # <<>>
        /\ connection' = ProcessConnectionAck(connection, sequence)
        /\ packet' = Nothing
        /\ UNCHANGED next_sequence

Next == \/ \E i \in ChannelIndexes, size \in Sizes : SendMessage(i, size)
        \/ SendPackets
        \/ ProcessAcks
        \/ AdvanceTime

Spec == Init /\ [][Next]_vars

-----------------------------------------------------------------------------

\* Of every entry of the packet, the bits serialize writes and those counted for
\* it before (packet_data_bits).
Written == [k \in DOMAIN packet.data |-> StreamBits(Serialize(packet.data[k], CheckBits))]
Counted == [k \in DOMAIN packet.data |-> SerializedBits(packet.data[k], 0)]

\* What generate_packet had left for the k-th entry of the packet.
Offered(k) ==
    FoldLeft(LAMBDA left, bits : left - bits - ChannelHeaderBits,
             BufferBits - PacketHeaderBits, SubSeq(Counted, 1, k - 1))

\* The packet has the channels in their order, each at most once, and never more
\* than MaxPerPacket messages of one.
TypeOK ==
    /\ next_sequence \in SeqNum
    /\ \A k, l \in DOMAIN packet.data :
          k < l => packet.data[k].channel_index < packet.data[l].channel_index
    /\ \A k \in DOMAIN packet.data : Len(packet.data[k].messages) \in 1 .. MaxPerPacket

\* A channel writes no more than its packet_budget and no more than it was
\* offered: what it counts before covers what serialize writes after.
BudgetRespected ==
    \A k \in DOMAIN packet.data :
        Written[k] <= PacketBudget /\ (packet.panic = NoPanic => Written[k] <= Offered(k))

\* If the packet has room for every channel's budget and a header each, no
\* packet overflows its buffer and available_bits never underflows, in whatever
\* mix the messages come.
Reserved == BufferBits >= PacketHeaderBits + Len(Kinds) * (PacketBudget + ChannelHeaderBits)

ReservedNeverPanics == Reserved => packet.panic = NoPanic

\* The receiver reads what the sender wrote, whatever the mix of channels, counts and
\* sizes and with check values or without: every entry begins where the reader
\* thinks it does, a count of MaxPerPacket fits its byte, and nothing is left
\* over.
RoundTrip ==
    \A check \in {0, 32} :
        LET stream == SerializeConnectionPacket(packet.data, check)
        IN  DeserializeConnectionPacket(stream, check) =
                [end |-> Len(stream), data |-> packet.data]

\* The message that holds the others up goes first: if the oldest message of a
\* reliable channel is due and fits its channel's budget, it is in the packet,
\* whatever the channels before have taken, as long as room is reserved for all.
OldestDue(r) ==
    /\ HasMessagesToSend(r)
    /\ LET q == r.message_send_queue
           id == r.oldest_unacked_message_id
           bits == MessageIdBits + MeasuredBits(Get(q, id).message)
       IN  /\ Exists(q, id) /\ Get(q, id).waited >= ResendTicks
           /\ MessageHeaderBits + Max({bits, GiveUpBits}) <= PacketBudget

OldestGoesFirst ==
    [][SendPackets /\ Reserved =>
         \A i \in ChannelIndexes :
            LET r == connection.channels[i].processor
            IN  Kinds[i] = ReliableOrdered /\ OldestDue(r) =>
                    \E entry \in ToSet(packet'.data) :
                        /\ entry.channel_index = i
                        /\ entry.messages[1].id = r.oldest_unacked_message_id]_vars

\* The assertion of the feature soak_debugging_asserts, "packet_data_bits +
\* CONSERVATIVE_CHANNEL_HEADER_BITS < available_bits".
SoakAssertion ==
    \A k \in DOMAIN packet.data : Counted[k] + ChannelHeaderBits < Offered(k)
==============================================================================
