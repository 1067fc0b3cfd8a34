------------------------------- MODULE Connection -------------------------------
(***************************************************************************)
(* Connection<M> (src/src/connection.rs): the channels of one connection    *)
(* and its error level.  A connection is a record and every method an        *)
(* operator; ConnectionPair joins two of them, PacketBudget looks at the     *)
(* bits of generate_packet.                                                  *)
(***************************************************************************)
EXTENDS Channel

CONSTANTS Kinds,           \* the kinds of the channels, in the order of the config
          UsizeModulus,    \* 2^64, or any number larger than every size in bits
          OverflowChecks,  \* whether arithmetic that underflows panics, as in debug builds
          CheckBits        \* 32 with the feature serialize_check, otherwise 0

ASSUME ConnectionAssumption ==
    /\ Kinds \in Seq({ReliableOrdered, UnreliableUnordered}) /\ Kinds # <<>>
    /\ UsizeModulus \in Nat \ {0}
    /\ OverflowChecks \in BOOLEAN
    /\ CheckBits \in {0, 32}

ChannelIndexes == DOMAIN Kinds

NewConnection ==
    [channels    |-> [i \in ChannelIndexes |-> NewChannel(Kinds[i])],
     error_level |-> "None"]

\* reset
ResetConnection(conn) ==
    [channels    |-> [i \in ChannelIndexes |-> ResetChannel(conn.channels[i])],
     error_level |-> "None"]

ErroredChannels(conn) ==
    {i \in ChannelIndexes : conn.channels[i].error_level # "None"}

\* Bug: only the first channel is looked at.
AdvanceFirst(conn) ==
    [channels    |-> [i \in ChannelIndexes |-> AdvanceChannel(conn.channels[i])],
     error_level |-> IF 1 \in ErroredChannels(conn) THEN "Channel"
                                                    ELSE conn.error_level]

\* advance_time stops at the first channel found in an error state.
AdvanceConnection(conn) ==
    LET errored == ErroredChannels(conn)
        last    == Min(errored \cup {Len(Kinds)})
    IN  [channels    |-> [i \in ChannelIndexes |->
                             IF i <= last THEN AdvanceChannel(conn.channels[i])
                                          ELSE conn.channels[i]],
         error_level |-> IF errored # {} THEN "Channel" ELSE conn.error_level]

\* process_acks, for one ack: every channel hears of it.
ProcessConnectionAck(conn, ack) ==
    [conn EXCEPT !.channels =
        [i \in ChannelIndexes |-> ChannelProcessAck(conn.channels[i], ack)]]

ConnectionAckPanics(conn, ack) ==
    \E i \in ChannelIndexes : AckPanics(conn.channels[i], ack)

-----------------------------------------------------------------------------
(* process_packet                                                            *)

\* Bug: the packet is acknowledged though a channel in an error state dropped its
\* data.
ProcessEntryAlways(state, entry, packet_sequence) ==
    LET index  == entry.channel_index
        result == ChannelProcess(state.connection.channels[index],
                                 entry.messages, packet_sequence)
    IN  IF state.panic # NoPanic
        THEN state
        ELSE [connection |-> [state.connection EXCEPT !.channels[index] = result.channel],
              accepted   |-> result.panic = NoPanic,
              panic      |-> result.panic]

\* One turn of its loop: the data of one channel.  An error state ends the loop;
\* the channels before keep what they took in.  Data for a channel that does not
\* exist are skipped, except that the test lets the first such index pass.
ProcessEntry(state, entry, packet_sequence) ==
    LET index  == entry.channel_index
        result == ChannelProcess(state.connection.channels[index],
                                 entry.messages, packet_sequence)
    IN  IF ~state.accepted \/ state.panic # NoPanic \/ index > Len(Kinds) + 1
        THEN state
        ELSE IF index = Len(Kinds) + 1
        THEN [state EXCEPT !.accepted = FALSE, !.panic = "out of bounds"]
        ELSE [connection |-> [state.connection EXCEPT !.channels[index] = result.channel],
              accepted   |-> result.channel.error_level = "None" /\ result.panic = NoPanic,
              panic      |-> result.panic]

\* process_packet: the connection afterwards, whether it returns true (the
\* endpoint acknowledges the packet only then), and the panic, if any.
ProcessPacket(conn, packet_sequence, data) ==
    LET process(state, entry) == ProcessEntry(state, entry, packet_sequence)
        start == [connection |-> conn, accepted |-> TRUE, panic |-> NoPanic]
    IN  IF conn.error_level # "None"
        THEN [start EXCEPT !.accepted = FALSE]
        ELSE FoldLeft(process, start, data)

-----------------------------------------------------------------------------
(* generate_packet                                                           *)

\* A difference of two sizes as a usize.
WrapUsize(n) == IF n < 0 THEN n + UsizeModulus ELSE n

\* A subtraction went below zero in a build that panics where others wrap.
Underflow(n) == OverflowChecks /\ n < 0

\* A channel's data go into the packet, if it has any, and leave fewer bits for
\* the channels after it.
AddEntry(state, index, result) ==
    LET left == state.available - ChannelHeaderBits - result.bits
        sent == [state EXCEPT !.connection.channels[index] = result.channel]
    IN  IF result.bits = 0
        THEN sent
        ELSE [sent EXCEPT !.available = WrapUsize(left),
                          !.data = Append(@, [channel_index |-> index,
                                              messages |-> result.messages]),
                          !.panic = IF Underflow(left) THEN "underflow" ELSE NoPanic]

\* One turn of its loop.
GenerateEntry(state, index, packet_sequence) ==
    LET c == state.connection.channels[index]
    IN  CASE state.panic # NoPanic -> state
          [] /\ state.panic = NoPanic
             /\ OverflowChecks /\ IsReliable(c)
             /\ BudgetUnderflows(c.processor, state.available) ->
                 [state EXCEPT !.panic = "underflow"]
          [] OTHER ->
             AddEntry(state, index, ChannelPacketData(c, packet_sequence, state.available))

\* What ChannelPacketData::serialize writes: the index, has_messages, the count,
\* the ids of a reliable channel's messages, and the messages; with the feature
\* serialize_check a check value after the ids and after every message.
SerializedBits(entry, check) ==
    LET sizes == [i \in DOMAIN entry.messages |->
                     IF Kinds[entry.channel_index] = ReliableOrdered
                     THEN MessageIdBits + MeasuredBits(entry.messages[i].message) + check
                     ELSE MeasuredBits(entry.messages[i]) + check]
        ids   == IF Kinds[entry.channel_index] = ReliableOrdered THEN check ELSE 0
    IN  FoldLeft(LAMBDA a, b : a + b, 16 + 8 + 8 + ids, sizes)

PacketBits(data) ==
    FoldLeft(LAMBDA a, entry : a + SerializedBits(entry, CheckBits), PacketHeaderBits, data)

\* The packet is serialized into its buffer; an error is unwrapped.
SerializePacket(state, buffer_bits) ==
    IF /\ state.panic = NoPanic /\ state.data # <<>>
       /\ PacketBits(state.data) > buffer_bits
    THEN [state EXCEPT !.panic = "buffer full"]
    ELSE state

\* Before its loop: there must be a buffer, and in it room for the header.
StartPacket(conn, buffer_bits) ==
    LET left == buffer_bits - PacketHeaderBits
    IN  [connection |-> conn, data |-> <<>>, available |-> WrapUsize(left),
         panic |-> CASE buffer_bits = 0 -> "empty buffer"
                     [] buffer_bits # 0 /\ Underflow(left) -> "underflow"
                     [] OTHER -> NoPanic]

\* generate_packet into a buffer of this many bits: the data that go out, none
\* if data = <<>>.
GeneratePacket(conn, packet_sequence, buffer_bits) ==
    LET generate(state, index) == GenerateEntry(state, index, packet_sequence)
    IN  SerializePacket(FoldLeft(generate, StartPacket(conn, buffer_bits),
                                 [i \in ChannelIndexes |-> i]),
                        buffer_bits)
==============================================================================
