------------------------------ MODULE ChannelConfig ------------------------------
(***************************************************************************)
(* ChannelConfig (src/src/config.rs) and the constants of src/src/channel.rs *)
(* shared by the two kinds of channel.  All channels of a model have the    *)
(* same configuration.  Times are counted in steps of the clock, sizes in   *)
(* bits.                                                                    *)
(***************************************************************************)
EXTENDS SequenceNumbers

CONSTANTS SendQueueSize,      \* message_send_queue_size
          ReceiveQueueSize,   \* message_receive_queue_size
          SentPacketsSize,    \* sent_packet_buffer_size
          MaxPerPacket,       \* max_messages_per_packet
          PacketBudget,       \* packet_budget; for None, more than a packet holds
          ResendTicks,        \* message_resend_time
          FirstWait,          \* what a new message seems to have waited (see Reliable)
          MeasuredBits(_)     \* how many bits a message serializes to

ASSUME ConfigAssumption ==
    /\ SendQueueSize \in 1 .. Modulus - 1
    /\ ReceiveQueueSize \in 1 .. Modulus - 1
    /\ SentPacketsSize \in 1 .. Modulus - 1
    /\ MaxPerPacket \in Nat \ {0}
    /\ PacketBudget \in Nat
    /\ ResendTicks \in Nat
    /\ FirstWait \in 0 .. ResendTicks

MessageHeaderBits == 32    \* CONSERVATIVE_MESSAGE_HEADER_BITS
ChannelHeaderBits == 32    \* CONSERVATIVE_CHANNEL_HEADER_BITS
PacketHeaderBits  == 16    \* CONSERVATIVE_PACKET_HEADER_BITS
GiveUpBits        == 32    \* give_up_bits
==============================================================================
