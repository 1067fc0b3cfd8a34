---------------------------- MODULE ReliableChannel ----------------------------
(***************************************************************************)
(* One direction of a reliable ordered channel: the sending Channel at one *)
(* peer, the receiving one at the other (src/src/channel.rs around         *)
(* src/src/channel/reliable.rs), and between them the reliable endpoints   *)
(* and the network, which are external and modelled from their use in      *)
(* src/src/client.rs and src/src/server.rs:                                *)
(*   - the network loses, reorders and duplicates packets;                 *)
(*   - a packet that process_packet returned true for may be acknowledged, *)
(*     once, by any later packet of the other direction;                   *)
(*   - packets and acknowledgements of the last Lifetime packets only are  *)
(*     accepted, older ones are stale.                                     *)
(* A packet carries the data of every channel, so one may be sent that has *)
(* none of this channel's.  The n-th message accepted is the number n; its *)
(* id is n - 1 modulo Modulus.                                              *)
(***************************************************************************)
EXTENDS Reliable

CONSTANTS AvailableBits,   \* what generate_packet may have left for this channel
          Lifetime,        \* for how many packets an ack is still possible
          MaxIdle,         \* how many packets in a row carry nothing of this channel
          MaxMessages      \* bound: how many messages a session sends

ASSUME ChannelAssumption ==
    /\ \A n \in AvailableBits \cup {PacketBudget} : n >= MessageHeaderBits
    /\ Lifetime \in 1 .. Half
    /\ MaxIdle \in Nat
    /\ MaxMessages \in Nat
    /\ \A m \in 1 .. MaxMessages : MeasuredBits(m) \in Nat

VARIABLES
    sender,            \* the Reliable at the sending peer
    error_level,       \* its Channel's error_level: "None" or "SendQueueFull"
    receiver,          \* the Reliable at the receiving peer
    panicked,          \* the panic that ended the program, or NoPanic
    packet_sequence,   \* the sending endpoint's next packet sequence
    network,           \* packets on their way
    received,          \* packets process_packet returned true for
    acked,             \* sequences of packets reported to process_ack
    accepted,          \* how many messages send_message accepted
    delivered,         \* how many messages receive_message returned
    out                \* what it returned last

local  == <<sender, error_level>>
remote == <<receiver, delivered, out>>
links  == <<packet_sequence, network, received, acked>>
vars   == <<sender, error_level, receiver, panicked, packet_sequence, network,
            received, acked, accepted, delivered, out>>

Init ==
    /\ sender = NewReliable
    /\ error_level = "None"
    /\ receiver = NewReliable
    /\ panicked = NoPanic
    /\ packet_sequence = 0
    /\ network = {} /\ received = {} /\ acked = {}
    /\ accepted = 0 /\ delivered = 0 /\ out = <<>>

-----------------------------------------------------------------------------
(* The application and the clock.                                            *)

\* Channel::send_message: refused in an error state, an error when the send
\* queue is full.
SendMessage ==
    /\ panicked = NoPanic
    /\ error_level = "None"
    /\ CanSendMessage(sender) => accepted < MaxMessages
    /\ IF CanSendMessage(sender) /\ ~SendFails(sender)
       THEN /\ sender' = EnqueueMessage(sender, accepted + 1)
            /\ accepted' = accepted + 1
       ELSE UNCHANGED <<sender, accepted>>
    /\ error_level' = IF CanSendMessage(sender) THEN "None" ELSE "SendQueueFull"
    /\ panicked' = IF CanSendMessage(sender) /\ SendFails(sender)
                   THEN "send_message" ELSE NoPanic
    /\ UNCHANGED <<remote, links>>

\* Channel::receive_message when there is one.
ReceiveMessage ==
    /\ panicked = NoPanic
    /\ CanReceiveMessage(receiver)
    /\ receiver' = DequeueMessage(receiver)
    /\ delivered' = delivered + 1
    /\ out' = <<NextMessage(receiver)>>
    /\ UNCHANGED <<local, links, panicked, accepted>>

\* Channel::advance_time, one tick later.
AdvanceTime ==
    /\ panicked = NoPanic
    /\ sender' = AdvanceReliable(sender)
    /\ UNCHANGED <<error_level, remote, links, panicked, accepted>>

\* Channel::reset at both ends: the session is over and another may begin, in
\* which packets of this one are not accepted.
Reset ==
    /\ panicked = NoPanic
    /\ sender' = ResetReliable(sender)
    /\ receiver' = ResetReliable(receiver)
    /\ error_level' = "None"
    /\ packet_sequence' = 0
    /\ network' = {} /\ received' = {} /\ acked' = {}
    /\ accepted' = 0 /\ delivered' = 0 /\ out' = <<>>
    /\ UNCHANGED panicked

-----------------------------------------------------------------------------
(* Packets.                                                                  *)

Fresh(next, sequence) == Behind(next, sequence) < Lifetime

\* How many packets went out since the last with this channel's data.
Idle == (packet_sequence - sender.sent_packets.sequence) % Modulus

\* The endpoint sends a packet: older ones become stale.
Transmit(messages) ==
    LET next == WrappingAdd(packet_sequence, 1)
        fresh(packets) == {p \in packets : Fresh(next, p.sequence)}
    IN  /\ packet_sequence' = next
        /\ network' = fresh(network)
                        \cup {[sequence |-> packet_sequence, messages |-> messages]}
        /\ received' = fresh(received)
        /\ acked' = {s \in acked : Fresh(next, s)}

\* generate_packet for this channel; if it has nothing to send, the packet
\* goes out for the sake of another channel.
GenerateChannelPacket(bits) ==
    LET data == PacketData(sender, packet_sequence, bits)
    IN  /\ panicked = NoPanic
        /\ data.messages = <<>> => Idle < MaxIdle
        /\ sender' = data.channel
        /\ Transmit(data.messages)
        /\ UNCHANGED <<error_level, remote, panicked, accepted>>

LosePacket(p) ==
    /\ panicked = NoPanic
    /\ network' = network \ {p}
    /\ UNCHANGED <<local, remote, packet_sequence, received, acked, panicked, accepted>>

\* process_packet: returns true, so that the endpoint acknowledges p, unless it
\* panics.  A duplicate of p may still be on its way.
DeliverPacket(p, duplicated) ==
    LET result == ProcessPacketData(receiver, p.messages)
    IN  /\ panicked = NoPanic
        /\ receiver' = result.channel
        /\ panicked' = result.panic
        /\ received' = IF result.panic = NoPanic THEN received \cup {p} ELSE received
        /\ network' = IF duplicated THEN network ELSE network \ {p}
        /\ UNCHANGED <<local, packet_sequence, acked, accepted, delivered, out>>

\* process_acks for one of the acks the endpoint has.
ProcessAckOf(p) ==
    /\ panicked = NoPanic
    /\ p.sequence \notin acked
    /\ IF AckFails(sender, p.sequence)
       THEN panicked' = "process_ack" /\ UNCHANGED sender
       ELSE sender' = ProcessAck(sender, p.sequence) /\ UNCHANGED panicked
    /\ acked' = acked \cup {p.sequence}
    /\ UNCHANGED <<error_level, remote, packet_sequence, network, received, accepted>>

Next ==
    \/ SendMessage
    \/ ReceiveMessage
    \/ AdvanceTime
    \/ Reset
    \/ \E bits \in AvailableBits : GenerateChannelPacket(bits)
    \/ \E p \in network : LosePacket(p)
    \/ \E p \in network, duplicated \in BOOLEAN : DeliverPacket(p, duplicated)
    \/ \E p \in received : ProcessAckOf(p)

Spec == Init /\ [][Next]_vars

-----------------------------------------------------------------------------
(* Safety.                                                                   *)

Numbers == 1 .. MaxMessages

IdOf(n) == (n - 1) % Modulus

MessageEntries == [message : Numbers, waited : 0 .. ResendTicks]

\* The shapes of the two ends and of the packets.
TypeOK ==
    /\ \A r \in {sender, receiver} :
          /\ r.send_message_id \in SeqNum
          /\ r.receive_message_id \in SeqNum
          /\ r.oldest_unacked_message_id \in SeqNum
          /\ r.message_send_queue \in BufferType(SendQueueSize, MessageEntries)
          /\ r.message_receive_queue \in BufferType(ReceiveQueueSize, Numbers)
          /\ Held(r.sent_packets) \subseteq SeqNum
    /\ packet_sequence \in SeqNum
    /\ delivered \in 0 .. accepted /\ accepted \in 0 .. MaxMessages

InSendQueue(n) ==
    /\ Exists(sender.message_send_queue, IdOf(n))
    /\ Get(sender.message_send_queue, IdOf(n)).message = n

InReceiveQueue(n) ==
    /\ Exists(receiver.message_receive_queue, IdOf(n))
    /\ Get(receiver.message_receive_queue, IdOf(n)) = n

\* No message is lost: one that left the send queue, because a packet with it
\* was acknowledged, was delivered or waits in the receive queue, whatever was
\* lost, duplicated or reordered and wherever the ids have wrapped.
NoMessageLost ==
    \A n \in delivered + 1 .. accepted : InSendQueue(n) \/ InReceiveQueue(n)

\* oldest_unacked_message_id is the id of the first message in the send queue,
\* or the next one to be used if there is none, and the queue holds no id
\* outside oldest .. send_message_id - 1: otherwise get_messages_to_send would
\* not look at the message that holds the others up, for ever.
OldestIsFirstInQueue ==
    LET s == sender
        q == s.message_send_queue
        offset(id) == (id - s.oldest_unacked_message_id) % Modulus
    IN  /\ q.sequence = s.send_message_id
        /\ \A id \in Held(q) : offset(id) < offset(s.send_message_id)
        /\ HasMessagesToSend(s) => Exists(q, s.oldest_unacked_message_id)

\* The only panic is the desync of a receiver that leaves its messages in the
\* receive queue ("are your handling client messages?"): no assertion fails,
\* "desync (2)" is as unreachable as its comment hopes, and the receive queue's
\* head is there to be taken when "desync (1)" strikes.
PanicsOnlyIfUndrained ==
    panicked # NoPanic => panicked = "desync (1)" /\ CanReceiveMessage(receiver)

\* The channel is a FIFO: accepted messages are delivered in order, once each.
Fifo == INSTANCE FifoChannel WITH
            Messages <- Numbers,
            queue    <- [i \in 1 .. accepted - delivered |-> delivered + i]

ImplementsFifo == Fifo!Spec

\* An acknowledged packet frees its messages: when the ack of a packet is
\* processed none of its messages stays in the send queue.  "As long as the
\* reciever sends something on *any channel* [...] that is enough for the ack to
\* be processed [...] and remove some messages from the send queue."
AckFreesMessages ==
    [][\A p \in received :
          ProcessAckOf(p) /\ panicked' = NoPanic =>
             \A i \in DOMAIN p.messages :
                ~InSendQueue(p.messages[i].message)']_vars

-----------------------------------------------------------------------------
(* Liveness.                                                                 *)

\* A message fits the packet budget on its own.  One that does not is passed over
\* by get_messages_to_send for ever, and all after it wait.
FitsBudget(m) == MessageHeaderBits + MessageIdBits + MeasuredBits(m) <= PacketBudget

\* A message is due: send_packets sends a packet with data of this channel.
SomethingDue ==
    \E id \in ToSet(Candidates(sender)) :
        /\ Exists(sender.message_send_queue, id)
        /\ Get(sender.message_send_queue, id).waited >= ResendTicks
        /\ FitsBudget(Get(sender.message_send_queue, id).message)

CarriesOldest(p) ==
    \E i \in DOMAIN p.messages : p.messages[i].id = sender.oldest_unacked_message_id

\* GenerateChannelPacket, DeliverPacket and ProcessAckOf by the one variable each of
\* them alone changes in this way.
SendsData == SomethingDue /\ packet_sequence' = WrappingAdd(packet_sequence, 1)

DeliversOldest ==
    \E p \in network :
        /\ CarriesOldest(p)
        /\ received' = received \cup {p}

AcksOldest ==
    \E p \in received :
        /\ CarriesOldest(p) /\ p.sequence \notin acked
        /\ acked' = acked \cup {p.sequence}

\* The application calls advance_time, receive_message and send_packets for ever
\* (the loop of the README); the network does not lose every packet with a
\* given message, nor every ack of one.
Fairness ==
    /\ WF_vars(AdvanceTime)
    /\ WF_vars(ReceiveMessage)
    /\ WF_packet_sequence(panicked = NoPanic /\ SendsData)
    /\ SF_received(panicked = NoPanic /\ DeliversOldest)
    /\ SF_acked(panicked = NoPanic /\ AcksOldest)

FairSpec == Spec /\ Fairness

\* The session of the first n messages ended.
Over(n) == panicked # NoPanic \/ accepted < n

\* The messages that no message too large precedes, themselves included.
Sendable == {n \in Numbers : \A k \in 1 .. n : FitsBudget(k)}

\* Every message accepted is delivered in the end, unless the session ends, also
\* when messages of any size queue behind it: README.md says that ReliableOrdered
\* is "perfect for sending authoritative RPC messages, among anything else that needs
\* to definitely happen and happen in order".
EventuallyDelivered ==
    \A n \in Sendable : accepted >= n ~> delivered >= n \/ Over(n)

\* ... and leaves the send queue in the end, making room for others.
EventuallyAcked ==
    \A n \in Sendable : accepted >= n ~> ~InSendQueue(n) \/ Over(n)
==============================================================================
