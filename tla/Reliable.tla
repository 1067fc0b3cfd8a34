-------------------------------- MODULE Reliable --------------------------------
(***************************************************************************)
(* Reliable<M> (src/src/channel/reliable.rs): one end of a reliable        *)
(* ordered channel, as a record and one operator per method of Processor.  *)
(* ReliableChannel puts two of them on a network.                          *)
(*                                                                         *)
(* Abstractions.  The message ids of a sent packet are kept in its entry   *)
(* of sent_packets, not in sent_packet_message_ids, whose region for a     *)
(* packet is chosen by the same index as the slot and written only when    *)
(* the slot is.  time_last_sent is kept as `waited`, the time since then   *)
(* in ticks up to ResendTicks: all the code asks is whether                *)
(* message_resend_time has passed.  A new message's -1.0 says that it has  *)
(* (FirstWait = ResendTicks) unless message_resend_time is more than a     *)
(* second longer than the clock has run: then the first send must wait too. *)
(***************************************************************************)
EXTENDS SequenceBuffer, ChannelConfig, SequencesExt

MessageIdBits == 16

NewReliable ==
    [send_message_id            |-> 0,
     receive_message_id         |-> 0,
     oldest_unacked_message_id  |-> 0,
     sent_packets               |-> NewBuffer(SentPacketsSize),
     message_send_queue         |-> NewBuffer(SendQueueSize),
     message_receive_queue      |-> NewBuffer(ReceiveQueueSize)]

\* Bug: the receive queue is not reset.
ResetKeepsReceived(r) ==
    [NewReliable EXCEPT !.message_receive_queue = r.message_receive_queue]

\* reset: the state of a new channel, in the buffers it has.
ResetReliable(r) ==
    [send_message_id            |-> 0,
     receive_message_id         |-> 0,
     oldest_unacked_message_id  |-> 0,
     sent_packets               |-> ResetBuffer(r.sent_packets),
     message_send_queue         |-> ResetBuffer(r.message_send_queue),
     message_receive_queue      |-> ResetBuffer(r.message_receive_queue)]

\* Bug: the clock of the messages stands still.
AdvanceNoTime(r) == r

\* Bug: the time waited is not bounded.
AdvanceUnbounded(r) ==
    LET tick(slot) == IF slot = Empty THEN Empty
                      ELSE [slot EXCEPT !.val.waited = @ + 1]
    IN  [r EXCEPT !.message_send_queue.slots = [i \in DOMAIN @ |-> tick(@[i])]]

\* advance_time: every message in the send queue has waited one tick more.
AdvanceReliable(r) ==
    LET tick(slot) ==
            IF slot = Empty THEN Empty
            ELSE [slot EXCEPT !.val.waited = Min({@ + 1, ResendTicks})]
    IN  [r EXCEPT !.message_send_queue.slots = [i \in DOMAIN @ |-> tick(@[i])]]

-----------------------------------------------------------------------------
(* The application's side.                                                   *)

CanSendMessage(r) == Available(r.message_send_queue, r.send_message_id)

\* send_message finds its id too old for the send queue: the assertion "can_send_message
\* should make this impossible" fails.
SendFails(r) == TooOld(r.message_send_queue, r.send_message_id)

\* send_message, called only where CanSendMessage, where SendFails is false.
EnqueueMessage(r, m) ==
    [r EXCEPT !.message_send_queue =
                  InsertWith(@, r.send_message_id,
                             [message |-> m, waited |-> FirstWait]),
              !.send_message_id = WrappingAdd(@, 1)]

\* receive_message returns None unless the next message is here.
CanReceiveMessage(r) == Exists(r.message_receive_queue, r.receive_message_id)

NextMessage(r) == Get(r.message_receive_queue, r.receive_message_id)

DequeueMessage(r) ==
    [r EXCEPT !.message_receive_queue = Take(@, r.receive_message_id),
              !.receive_message_id = WrappingAdd(@, 1)]

-----------------------------------------------------------------------------
(* Generating a packet.                                                      *)

HasMessagesToSend(r) == r.oldest_unacked_message_id # r.send_message_id

\* Bug: the loop starts after the oldest unacked message.
CandidatesLate(r) ==
    [i \in 1 .. Min({SendQueueSize, ReceiveQueueSize}) |->
        WrappingAdd(r.oldest_unacked_message_id, i)]

\* The ids the loop of get_messages_to_send looks at, from the oldest unacked:
\* its own queue capacities stand for those of the other end.
Candidates(r) ==
    [i \in 1 .. Min({SendQueueSize, ReceiveQueueSize}) |->
        WrappingAdd(r.oldest_unacked_message_id, i - 1)]

\* Bug: the two bytes of the message's id are not counted.
ConsiderNoId(r, available, chosen, id) ==
    LET q    == r.message_send_queue
        bits == MeasuredBits(Get(q, id).message)
    IN  IF /\ available - chosen.used >= GiveUpBits
           /\ Len(chosen.ids) < MaxPerPacket
           /\ Exists(q, id)
           /\ Get(q, id).waited >= ResendTicks
           /\ chosen.used + bits <= available
        THEN [ids |-> Append(chosen.ids, id), used |-> chosen.used + bits]
        ELSE chosen

\* One turn of that loop.  A message that is not due or does not fit is passed
\* over; the loop stops at max_messages_per_packet or when few bits are left.  (The
\* code's give_up_counter never passes the queue's capacity.)
Consider(r, available, chosen, id) ==
    LET q     == r.message_send_queue
        entry == Get(q, id)
        bits  == MeasuredBits(entry.message) + MessageIdBits
    IN  IF /\ available - chosen.used >= GiveUpBits
           /\ Len(chosen.ids) < MaxPerPacket
           /\ Exists(q, id)
           /\ entry.waited >= ResendTicks
           /\ chosen.used + bits <= available
        THEN [ids |-> Append(chosen.ids, id), used |-> chosen.used + bits]
        ELSE chosen

\* Bug: packet_budget is not looked at.
GetMessagesNoBudget(r, bits) ==
    LET consider(chosen, id) == Consider(r, bits, chosen, id)
    IN  FoldLeft(consider, [ids |-> <<>>, used |-> MessageHeaderBits], Candidates(r))

\* get_messages_to_send: the ids for a packet with this many bits to spare.
GetMessagesToSend(r, bits) ==
    LET available == Min({PacketBudget, bits})
        consider(chosen, id) == Consider(r, available, chosen, id)
    IN  FoldLeft(consider, [ids |-> <<>>, used |-> MessageHeaderBits], Candidates(r))

\* available_bits - used_bits of the first turn is below zero: a build with
\* overflow checks panics, any other wraps and then finds no message that fits.
BudgetUnderflows(r, bits) ==
    HasMessagesToSend(r) /\ Min({PacketBudget, bits}) < MessageHeaderBits

\* The send queue with the timers of these messages restarted.
Restarted(queue, ids) ==
    LET sent(slot) == IF slot.seq \in ToSet(ids)
                      THEN [slot EXCEPT !.val.waited = 0] ELSE slot
    IN  [queue EXCEPT !.slots = [i \in DOMAIN @ |-> sent(@[i])]]

\* What goes into the packet for these ids, and the channel afterwards: the
\* packet is entered in sent_packets, unless that buffer refuses its sequence
\* number.
PackMessages(r, packet_sequence, ids, used) ==
    [channel |->
        [r EXCEPT !.message_send_queue = Restarted(@, ids),
                  !.sent_packets =
                      InsertWith(@, packet_sequence,
                                 [acked |-> FALSE, message_ids |-> ids])],
     messages |->
        [i \in DOMAIN ids |->
            [id |-> ids[i], message |-> Get(r.message_send_queue, ids[i]).message]],
     bits |-> used]

\* packet_data: the messages for the packet, the bits they take and the channel
\* afterwards.
PacketData(r, packet_sequence, bits) ==
    LET chosen == GetMessagesToSend(r, bits)
    IN  IF ~HasMessagesToSend(r) \/ chosen.ids = <<>>
        THEN [channel |-> r, messages |-> <<>>, bits |-> 0]
        ELSE PackMessages(r, packet_sequence, chosen.ids, chosen.used)

-----------------------------------------------------------------------------
(* Processing a packet and its acknowledgement.                              *)

NoPanic == "none"

\* Bug: a message the receive queue has no room for is dropped in silence.
ReceiveOneDropping(r, state, m) ==
    LET max == WrappingAdd(r.receive_message_id, ReceiveQueueSize - 1)
    IN  IF \/ SequenceLessThan(m.id, r.receive_message_id)
           \/ SequenceGreaterThan(m.id, max)
        THEN state
        ELSE [state EXCEPT !.queue = InsertWith(@, m.id, m.message)]

\* Bug: the window is one message too narrow.
ReceiveOneNarrow(r, state, m) ==
    LET max == WrappingAdd(r.receive_message_id, ReceiveQueueSize - 2)
    IN  CASE \/ state.panic # NoPanic
             \/ SequenceLessThan(m.id, r.receive_message_id) -> state
          [] OTHER ->
             IF SequenceGreaterThan(m.id, max)
             THEN [state EXCEPT !.panic = "desync (1)"]
             ELSE [state EXCEPT !.queue = InsertWith(@, m.id, m.message)]

\* Bug: the messages are queued in the order in which they arrive.
ReceiveOneAsItComes(r, state, m) ==
    LET next == WrappingAdd(r.receive_message_id, Cardinality(Held(state.queue)))
        held == {Get(state.queue, id) : id \in Held(state.queue)}
    IN  IF \/ state.panic # NoPanic
           \/ SequenceLessThan(m.id, r.receive_message_id) \/ m.message \in held
        THEN state
        ELSE [state EXCEPT !.queue = InsertWith(@, next, m.message)]

\* One message of a packet: an old one is skipped, one the receive queue has no
\* room for is a desync, for which the code panics.
ReceiveOne(r, state, m) ==
    LET max == WrappingAdd(r.receive_message_id, ReceiveQueueSize - 1)
    IN  CASE \/ state.panic # NoPanic
             \/ SequenceLessThan(m.id, r.receive_message_id) -> state
          [] OTHER ->
             IF SequenceGreaterThan(m.id, max)
             THEN [state EXCEPT !.panic = "desync (1)"]
             ELSE IF TooOld(state.queue, m.id)
             THEN [state EXCEPT !.panic = "desync (2)"]
             ELSE [state EXCEPT !.queue = InsertWith(@, m.id, m.message)]

\* The messages of a packet one after the other.
ReceiveAll(r, messages) ==
    LET receive(state, m) == ReceiveOne(r, state, m)
    IN  FoldLeft(receive, [queue |-> r.message_receive_queue, panic |-> NoPanic],
                 messages)

\* process_packet_data: the channel afterwards and the panic, if any.
ProcessPacketData(r, messages) ==
    LET end == ReceiveAll(r, messages)
    IN  [channel |-> [r EXCEPT !.message_receive_queue = end.queue],
         panic   |-> end.panic]

\* Bug: moves on by one only.
UpdateOldestByOne(oldest, queue) == WrappingAdd(oldest, 1)

\* Bug: does not move on.
UpdateOldestNever(oldest, queue) == oldest

\* update_oldest_unacked_message_id: the first id from `oldest` that is in the
\* queue or is the next one to be used.
UpdateOldest(oldest, queue) ==
    LET stops(k) == \/ WrappingAdd(oldest, k) = queue.sequence
                    \/ Exists(queue, WrappingAdd(oldest, k))
    IN  WrappingAdd(oldest, Min({k \in SeqNum : stops(k)}))

\* The queue without these messages.
TakeAll(queue, ids) == FoldLeft(Take, queue, ids)

\* The assertion at the end of update_oldest_unacked_message_id fails, after one of
\* these messages was taken.
OldestPasses(r, ids) ==
    \E n \in DOMAIN ids :
        LET queue == TakeAll(r.message_send_queue, SubSeq(ids, 1, n))
        IN  /\ queue # r.message_send_queue
            /\ SequenceGreaterThan(UpdateOldest(r.oldest_unacked_message_id, queue),
                                   queue.sequence)

\* process_ack fails an assertion: !entry.acked or the one above.
AckFails(r, ack) ==
    /\ Exists(r.sent_packets, ack)
    /\ LET entry == Get(r.sent_packets, ack)
       IN  entry.acked \/ OldestPasses(r, entry.message_ids)

\* process_ack, where AckFails is false: the messages of the packet leave the send
\* queue.  An ack for a packet this channel has no entry of is ignored.
ProcessAck(r, ack) ==
    LET entry == Get(r.sent_packets, ack)
        queue == TakeAll(r.message_send_queue, entry.message_ids)
        index == SequenceIndex(r.sent_packets, ack)
    IN  IF ~Exists(r.sent_packets, ack)
        THEN r
        ELSE [r EXCEPT !.sent_packets.slots[index].val.acked = TRUE,
                       !.message_send_queue = queue,
                       !.oldest_unacked_message_id =
                           IF queue = r.message_send_queue
                           THEN @ ELSE UpdateOldest(@, queue)]
==============================================================================
