--------------------------------- MODULE Channel ---------------------------------
(***************************************************************************)
(* Channel<M> (src/src/channel.rs): an error level around one of the two   *)
(* kinds of processor.  The counters of messages sent and received, which   *)
(* nothing reads but the user, are left out.                                *)
(***************************************************************************)
EXTENDS Reliable, Unreliable

ReliableOrdered == "ReliableOrdered"
UnreliableUnordered == "UnreliableUnordered"

IsReliable(c) == c.kind = ReliableOrdered

NewChannel(kind) ==
    [kind        |-> kind,
     error_level |-> "None",
     processor   |-> IF kind = ReliableOrdered THEN NewReliable ELSE NewUnreliable]

ResetChannel(c) ==
    [c EXCEPT !.error_level = "None",
              !.processor = IF IsReliable(c) THEN ResetReliable(@) ELSE ResetUnreliable(@)]

\* The clock is of no use to an unreliable channel.
AdvanceChannel(c) ==
    [c EXCEPT !.processor = IF IsReliable(c) THEN AdvanceReliable(@) ELSE @]

ChannelCanSend(c) ==
    IF IsReliable(c) THEN CanSendMessage(c.processor) ELSE UnreliableCanSend(c.processor)

\* send_message: a full send queue is an error, after which nothing is sent.
\* SendPanics (below) is false.
ChannelSend(c, m) ==
    CASE c.error_level # "None" -> c
      [] c.error_level = "None" /\ ~ChannelCanSend(c) ->
             [c EXCEPT !.error_level = "SendQueueFull"]
      [] OTHER ->
             [c EXCEPT !.processor = IF IsReliable(c) THEN EnqueueMessage(@, m)
                                                      ELSE UnreliableSend(@, m)]

\* The assertion of Reliable::send_message fails.
SendPanics(c) ==
    /\ c.error_level = "None"
    /\ IsReliable(c) /\ CanSendMessage(c.processor) /\ SendFails(c.processor)

\* receive_message returns a message, and what it is.
ChannelCanReceive(c) ==
    /\ c.error_level = "None"
    /\ IF IsReliable(c) THEN CanReceiveMessage(c.processor)
                        ELSE UnreliableCanReceive(c.processor)

ChannelNext(c) ==
    IF IsReliable(c) THEN NextMessage(c.processor)
                     ELSE UnreliableNext(c.processor).message

ChannelReceive(c) ==
    [c EXCEPT !.processor = IF IsReliable(c) THEN DequeueMessage(@)
                                             ELSE UnreliableReceive(@)]

\* packet_data, in any error level: the messages for the packet and their bits.
ChannelPacketData(c, packet_sequence, bits) ==
    LET of_channel(data) == [data EXCEPT !.channel = [c EXCEPT !.processor = data.channel]]
    IN  of_channel(IF IsReliable(c) THEN PacketData(c.processor, packet_sequence, bits)
                                    ELSE UnreliablePacketData(c.processor, bits))

\* process_packet_data: a channel in an error state takes nothing in.
ChannelProcess(c, messages, packet_sequence) ==
    LET result == IF IsReliable(c)
                  THEN ProcessPacketData(c.processor, messages)
                  ELSE [channel |-> UnreliableProcess(c.processor, messages,
                                                      packet_sequence),
                        panic   |-> NoPanic]
    IN  IF c.error_level # "None"
        THEN [channel |-> c, panic |-> NoPanic]
        ELSE [channel |-> [c EXCEPT !.processor = result.channel],
              panic   |-> result.panic]

\* process_ack, in any error level, where AckPanics (below) is false.
ChannelProcessAck(c, ack) ==
    [c EXCEPT !.processor = IF IsReliable(c) THEN ProcessAck(@, ack) ELSE @]

\* An assertion of Reliable::process_ack fails.
AckPanics(c, ack) == IsReliable(c) /\ AckFails(c.processor, ack)
==============================================================================
