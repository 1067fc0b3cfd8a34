------------------------------- MODULE Unreliable -------------------------------
(***************************************************************************)
(* Unreliable<M> (src/src/channel/unreliable.rs): one end of an unreliable  *)
(* unordered channel, as a record of its two queues and one operator per   *)
(* method of Processor that does something.  The capacities of the          *)
(* VecDeques are those asked of with_capacity.                              *)
(***************************************************************************)
EXTENDS ChannelConfig, SequencesExt

NewUnreliable == [message_send_queue |-> <<>>, message_receive_queue |-> <<>>]

\* Bug: only the send queue is cleared.
ResetSendQueue(u) == [u EXCEPT !.message_send_queue = <<>>]

\* reset: both queues are cleared.
ResetUnreliable(u) == NewUnreliable

UnreliableCanSend(u) == Len(u.message_send_queue) < SendQueueSize

UnreliableSend(u, m) == [u EXCEPT !.message_send_queue = Append(@, m)]

UnreliableCanReceive(u) == u.message_receive_queue # <<>>

\* What receive_message returns: a message and the packet it came in.
UnreliableNext(u) == Head(u.message_receive_queue)

UnreliableReceive(u) == [u EXCEPT !.message_receive_queue = Tail(@)]

\* Bug: max_messages_per_packet is not looked at.
PackOneUnlimited(available, packed, m) ==
    LET bits == MeasuredBits(m)
        full == available - packed.used < GiveUpBits
        fits == packed.used + bits <= available
    IN  [messages |-> IF ~full /\ fits THEN Append(packed.messages, m)
                                       ELSE packed.messages,
         used     |-> IF ~full /\ fits THEN packed.used + bits ELSE packed.used,
         popped   |-> IF full THEN packed.popped ELSE packed.popped + 1]

\* One turn of the loop of packet_data, for the message at the front of the
\* queue.  A message that does not fit has left the queue all the same.
PackOne(available, packed, m) ==
    LET bits == MeasuredBits(m)
        full == \/ available - packed.used < GiveUpBits
                \/ Len(packed.messages) = MaxPerPacket
        fits == packed.used + bits <= available
    IN  [messages |-> IF ~full /\ fits THEN Append(packed.messages, m)
                                       ELSE packed.messages,
         used     |-> IF ~full /\ fits THEN packed.used + bits ELSE packed.used,
         popped   |-> IF full THEN packed.popped ELSE packed.popped + 1]

\* packet_data: the messages for the packet, the bits they take and the channel
\* without the messages popped.
UnreliablePacketData(u, bits) ==
    LET available == Min({PacketBudget, bits})
        pack(packed, m) == PackOne(available, packed, m)
        data(packed) ==
            [channel  |-> [u EXCEPT !.message_send_queue =
                                        SubSeq(@, packed.popped + 1, Len(@))],
             messages |-> packed.messages,
             bits     |-> IF packed.messages = <<>> THEN 0 ELSE packed.used]
    IN  data(FoldLeft(pack,
                      [messages |-> <<>>, used |-> MessageHeaderBits, popped |-> 0],
                      u.message_send_queue))

\* Bug: there is always room.
UnreliableProcessAll(u, messages, packet_sequence) ==
    [u EXCEPT !.message_receive_queue =
         @ \o [i \in DOMAIN messages |->
                   [id |-> packet_sequence, message |-> messages[i]]]]

\* process_packet_data: what the receive queue has no room for is dropped.
UnreliableProcess(u, messages, packet_sequence) ==
    LET arrived == [i \in DOMAIN messages |->
                       [id |-> packet_sequence, message |-> messages[i]]]
        room    == ReceiveQueueSize - Len(u.message_receive_queue)
    IN  [u EXCEPT !.message_receive_queue =
             @ \o SubSeq(arrived, 1, Min({room, Len(arrived)}))]
==============================================================================
