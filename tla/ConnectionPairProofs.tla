-------------------------- MODULE ConnectionPairProofs --------------------------
(***************************************************************************)
(* The invariant of ConnectionPair, for all channels in all configurations: *)
(* the queues of the unreliable ones and the packets on their way hold only  *)
(* messages that the sender accepted in this session, within their bounds,  *)
(* and no two packets of a peer have the same sequence.  Of the reliable     *)
(* ones, whose queues ReliableChannelProofs is about, it needs nothing.      *)
(***************************************************************************)
EXTENDS ConnectionPair, OperatorLemmas, FiniteSetTheorems

\* The first n messages of channel i.
Numbered(i, n) == {<<i, k>> : k \in 1 .. n}

\* What a receive queue holds when its messages are of R.
Arrived(R) == [id : SeqNum, message : R]

\* The ends of an unreliable channel that holds messages of S to be sent and of R
\* to be received.
EndsHold(u, S, R) ==
    /\ u = [message_send_queue    |-> u.message_send_queue,
            message_receive_queue |-> u.message_receive_queue]
    /\ u.message_send_queue \in Seq(S)
    /\ u.message_receive_queue \in Seq(Arrived(R))
    /\ Len(u.message_send_queue) <= SendQueueSize
    /\ Len(u.message_receive_queue) <= ReceiveQueueSize

\* The same for channel i of a connection, if it is an unreliable one.
ChannelHolds(c, i, S, R) ==
    /\ c = [kind |-> Kinds[i], error_level |-> c.error_level, processor |-> c.processor]
    /\ c.error_level \in ErrorLevels
    /\ i \notin Ordered => EndsHold(c.processor, S, R)

\* The same for all channels of a connection.
ConnectionHolds(conn, S, R) ==
    /\ conn = [channels |-> conn.channels, error_level |-> conn.error_level]
    /\ conn.channels = [i \in ChannelIndexes |-> conn.channels[i]]
    /\ \A i \in ChannelIndexes : ChannelHolds(conn.channels[i], i, S[i], R[i])

\* An entry of a packet: the messages of an unreliable channel are of S.
EntryHolds(e, S) ==
    /\ e.channel_index \in ChannelIndexes
    /\ e.channel_index \notin Ordered => e.messages \in Seq(S[e.channel_index])

\* The data of a packet.
DataHold(data, S) == \E E : data \in Seq(E) /\ \A e \in E : EntryHolds(e, S)

-----------------------------------------------------------------------------
(* Messages and queues.                                                      *)

\* Accepting more messages takes none away.
LEMMA NumberedMore ==
  ASSUME NEW i, NEW n \in Nat, NEW m \in Nat, n <= m
  PROVE  Numbered(i, n) \subseteq Numbered(i, m)
BY DEF Numbered

\* Of no messages there is none, and the last is among them.
LEMMA NumberedEnds ==
  ASSUME NEW i, NEW n \in Nat
  PROVE  /\ Numbered(i, 0) = {}
         /\ <<i, n + 1>> \in Numbered(i, n + 1)
         /\ \A m \in Numbered(i, n) : m[1] = i /\ m[2] \in 1 .. n
BY DEF Numbered

\* A sequence of members of S is one of members of a larger set.
LEMMA WiderSeq ==
  ASSUME NEW S, NEW T, S \subseteq T, NEW s \in Seq(S)
  PROVE  s \in Seq(T)
<1>1. Len(s) \in Nat /\ DOMAIN s = 1 .. Len(s) /\ s = [k \in 1 .. Len(s) |-> s[k]]
      /\ \A k \in 1 .. Len(s) : s[k] \in T
  OBVIOUS
<1> DEFINE n == Len(s)
<1> HIDE DEF n
<1>2. s \in [1 .. n -> T] /\ n \in Nat
  BY <1>1 DEF n
<1> QED
  BY <1>2

\* The kind of a channel is that of the configuration.
LEMMA KindOf ==
  ASSUME NEW i \in ChannelIndexes, NEW c, NEW S, NEW R, ChannelHolds(c, i, S, R)
  PROVE  c.kind = Kinds[i] /\ (IsReliable(c) <=> i \in Ordered)
BY DEF ChannelHolds, IsReliable, Ordered

\* A channel with another processor, which is of the right kind.
LEMMA AnotherProcessor ==
  ASSUME NEW i \in ChannelIndexes, NEW c, NEW S, NEW R, ChannelHolds(c, i, S, R),
         NEW u, NEW T, NEW Q, i \notin Ordered => EndsHold(u, T, Q)
  PROVE  ChannelHolds([c EXCEPT !.processor = u], i, T, Q)
<1>1. [c EXCEPT !.processor = u]
        = [kind |-> Kinds[i], error_level |-> c.error_level, processor |-> u]
  BY DEF ChannelHolds
<1> QED
  BY <1>1 DEF ChannelHolds

\* Ends with another send queue.
LEMMA AnotherSendQueue ==
  ASSUME NEW u, NEW S, NEW R, EndsHold(u, S, R), NEW q \in Seq(S), Len(q) <= SendQueueSize
  PROVE  EndsHold([u EXCEPT !.message_send_queue = q], S, R)
<1> DEFINE r == u.message_receive_queue
<1>1. /\ r \in Seq(Arrived(R)) /\ Len(r) <= ReceiveQueueSize
      /\ [u EXCEPT !.message_send_queue = q]
           = [message_send_queue |-> q, message_receive_queue |-> r]
  BY DEF EndsHold
<1> HIDE DEF r
<1> QED
  BY <1>1 DEF EndsHold

\* Ends with another receive queue.
LEMMA AnotherReceiveQueue ==
  ASSUME NEW u, NEW S, NEW R, EndsHold(u, S, R), NEW q \in Seq(Arrived(R)),
         Len(q) <= ReceiveQueueSize
  PROVE  EndsHold([u EXCEPT !.message_receive_queue = q], S, R)
<1> DEFINE s == u.message_send_queue
<1>1. /\ s \in Seq(S) /\ Len(s) <= SendQueueSize
      /\ [u EXCEPT !.message_receive_queue = q]
           = [message_send_queue |-> s, message_receive_queue |-> q]
  BY DEF EndsHold
<1> HIDE DEF s
<1> QED
  BY <1>1 DEF EndsHold

\* What holds messages of S and R holds those of larger sets.
LEMMA WiderChannel ==
  ASSUME NEW i, NEW c, NEW S, NEW R, ChannelHolds(c, i, S, R),
         NEW T, NEW Q, S \subseteq T, R \subseteq Q
  PROVE  ChannelHolds(c, i, T, Q)
<1>1. Arrived(R) \subseteq Arrived(Q)
  BY DEF Arrived
<1>2. ASSUME NEW u, EndsHold(u, S, R) PROVE EndsHold(u, T, Q)
  <2>1. u.message_send_queue \in Seq(T)
    BY <1>2, WiderSeq DEF EndsHold
  <2>2. u.message_receive_queue \in Seq(Arrived(Q))
    BY <1>1, <1>2, WiderSeq DEF EndsHold
  <2> QED
    BY <1>2, <2>1, <2>2 DEF EndsHold
<1> QED
  BY <1>2 DEF ChannelHolds

-----------------------------------------------------------------------------
(* Channels.                                                                 *)

\* The queues have room for something.
LEMMA QueueSizes == SendQueueSize \in Nat /\ ReceiveQueueSize \in Nat
BY ConfigAssumption, ModulusAssumption

\* New ends are empty.
LEMMA NewEndsHold ==
  ASSUME NEW S, NEW R PROVE EndsHold(NewUnreliable, S, R)
BY QueueSizes DEF EndsHold, NewUnreliable

\* A new channel and one that was reset have no messages.
LEMMA EmptyChannelHolds ==
  ASSUME NEW i \in ChannelIndexes, NEW S, NEW R, NEW T, NEW Q
  PROVE  /\ ChannelHolds(NewChannel(Kinds[i]), i, S, R)
         /\ \A c : ChannelHolds(c, i, T, Q) => ChannelHolds(ResetChannel(c), i, S, R)
<1>1. ChannelHolds(NewChannel(Kinds[i]), i, S, R)
  BY NewEndsHold, Strings DEF ChannelHolds, NewChannel, Ordered
<1>2. ASSUME NEW c, ChannelHolds(c, i, T, Q) PROVE ChannelHolds(ResetChannel(c), i, S, R)
  <2> DEFINE u == IF IsReliable(c) THEN ResetReliable(c.processor)
                                   ELSE ResetUnreliable(c.processor)
  <2>1. i \notin Ordered => EndsHold(u, S, R)
    BY <1>2, KindOf, NewEndsHold DEF ResetUnreliable
  <2> DEFINE d == [c EXCEPT !.error_level = "None"]
  <2>2. d = [kind |-> Kinds[i], error_level |-> "None", processor |-> c.processor]
    BY <1>2 DEF ChannelHolds
  <2>3. ResetChannel(c) = [d EXCEPT !.processor = u]
    BY <2>2 DEF ResetChannel
  <2> HIDE DEF u, d
  <2>4. [d EXCEPT !.processor = u]
          = [kind |-> Kinds[i], error_level |-> "None", processor |-> u]
    BY <2>2
  <2> QED
    BY <2>1, <2>3, <2>4, Strings DEF ChannelHolds
<1> QED
  BY <1>1, <1>2

\* send_message puts a message of S in the queue if there is room, or sets the
\* error.
LEMMA SendHolds ==
  ASSUME NEW i \in ChannelIndexes, NEW c, NEW S, NEW R, ChannelHolds(c, i, S, R),
         NEW m, ChannelCanSend(c) => m \in S
  PROVE  ChannelHolds(ChannelSend(c, m), i, S, R)
<1>1. ChannelHolds([c EXCEPT !.error_level = "SendQueueFull"], i, S, R)
  <2>1. [c EXCEPT !.error_level = "SendQueueFull"]
          = [kind |-> Kinds[i], error_level |-> "SendQueueFull", processor |-> c.processor]
    BY DEF ChannelHolds
  <2> QED
    BY <2>1, Strings DEF ChannelHolds
<1>2. ASSUME ChannelCanSend(c)
      PROVE  ChannelHolds([c EXCEPT !.processor = IF IsReliable(c) THEN EnqueueMessage(@, m)
                                                  ELSE UnreliableSend(@, m)], i, S, R)
  <2> DEFINE u == c.processor
             q == u.message_send_queue
             n == IF IsReliable(c) THEN EnqueueMessage(u, m) ELSE UnreliableSend(u, m)
  <2>1. ASSUME i \notin Ordered PROVE EndsHold(n, S, R)
    <3>1. ~IsReliable(c) /\ EndsHold(u, S, R)
      BY <2>1, KindOf DEF ChannelHolds
    <3>2. q \in Seq(S) /\ Len(q) < SendQueueSize
      BY <1>2, <3>1 DEF ChannelCanSend, UnreliableCanSend, EndsHold
    <3>3. Append(q, m) \in Seq(S) /\ Len(Append(q, m)) = Len(q) + 1 /\ Len(q) \in Nat
      <4> HIDE DEF q
      <4> QED
        BY <1>2, <3>2
    <3>4. Len(Append(q, m)) <= SendQueueSize
      BY <3>2, <3>3, QueueSizes
    <3>5. n = [u EXCEPT !.message_send_queue = Append(q, m)]
      BY <3>1 DEF UnreliableSend
    <3> HIDE DEF u, q, n
    <3> QED
      BY <3>1, <3>3, <3>4, <3>5, AnotherSendQueue
  <2> HIDE DEF n
  <2>2. ChannelHolds([c EXCEPT !.processor = n], i, S, R)
    BY <2>1, AnotherProcessor
  <2> QED
    BY <2>2 DEF n
<1> QED
  BY <1>1, <1>2 DEF ChannelSend

\* receive_message takes a message out.
LEMMA ReceiveHolds ==
  ASSUME NEW i \in ChannelIndexes, NEW c, NEW S, NEW R, ChannelHolds(c, i, S, R),
         ChannelCanReceive(c)
  PROVE  ChannelHolds(ChannelReceive(c), i, S, R)
<1> DEFINE u == c.processor
           q == u.message_receive_queue
           n == IF IsReliable(c) THEN DequeueMessage(u) ELSE UnreliableReceive(u)
<1>1. ASSUME i \notin Ordered PROVE EndsHold(n, S, R)
  <2>1. ~IsReliable(c) /\ EndsHold(u, S, R)
    BY <1>1, KindOf DEF ChannelHolds
  <2>2. q \in Seq(Arrived(R)) /\ q # <<>> /\ Len(q) <= ReceiveQueueSize
    BY <2>1 DEF ChannelCanReceive, UnreliableCanReceive, EndsHold
  <2>3. Tail(q) \in Seq(Arrived(R)) /\ Len(Tail(q)) = Len(q) - 1 /\ Len(q) \in Nat
    <3> HIDE DEF q
    <3> QED
      BY <2>2
  <2>4. Len(Tail(q)) <= ReceiveQueueSize
    BY <2>2, <2>3, QueueSizes
  <2>5. n = [u EXCEPT !.message_receive_queue = Tail(q)]
    BY <2>1 DEF UnreliableReceive
  <2> HIDE DEF u, q, n
  <2> QED
    BY <2>1, <2>3, <2>4, <2>5, AnotherReceiveQueue
<1> HIDE DEF n
<1>2. ChannelHolds([c EXCEPT !.processor = n], i, S, R)
  BY <1>1, AnotherProcessor
<1> QED
  BY <1>2 DEF ChannelReceive, n

\* advance_time and process_ack do not touch the queues of an unreliable channel.
LEMMA AdvanceAndAckHold ==
  ASSUME NEW i \in ChannelIndexes, NEW c, NEW S, NEW R, ChannelHolds(c, i, S, R), NEW ack
  PROVE  /\ ChannelHolds(AdvanceChannel(c), i, S, R)
         /\ ChannelHolds(ChannelProcessAck(c, ack), i, S, R)
<1> DEFINE a == IF IsReliable(c) THEN AdvanceReliable(c.processor) ELSE c.processor
           p == IF IsReliable(c) THEN ProcessAck(c.processor, ack) ELSE c.processor
<1>1. i \notin Ordered => EndsHold(a, S, R) /\ EndsHold(p, S, R)
  BY KindOf DEF ChannelHolds
<1> HIDE DEF a, p
<1>2. /\ ChannelHolds([c EXCEPT !.processor = a], i, S, R)
      /\ ChannelHolds([c EXCEPT !.processor = p], i, S, R)
  BY <1>1, AnotherProcessor
<1> QED
  BY <1>2 DEF AdvanceChannel, ChannelProcessAck, a, p

-----------------------------------------------------------------------------
(* packet_data and process_packet_data.                                      *)

\* get_packet_data takes its messages from the queue, whatever their sizes.
LEMMA PackHolds ==
  ASSUME NEW u, NEW S, NEW R, EndsHold(u, S, R), NEW bits
  PROVE  LET data == UnreliablePacketData(u, bits)
         IN  EndsHold(data.channel, S, R) /\ data.messages \in Seq(S)
<1> DEFINE q == u.message_send_queue
           available == Min({PacketBudget, bits})
           base == [messages |-> <<>>, used |-> MessageHeaderBits, popped |-> 0]
           packed == Packing!Fold(available, available, base, q)
           ok(d) == d.messages \in Seq(S) /\ d.popped \in Nat
<1>1. q \in Seq(S) /\ Len(q) <= SendQueueSize
  BY DEF EndsHold
<1>2. ok(base)
  OBVIOUS
<1>3. ASSUME NEW d, ok(d), NEW m \in S
      PROVE  ok(PackOneOf(available, available, d, m))
  <2> DEFINE messages == d.messages
             n == d.popped
  <2>1. messages \in Seq(S) /\ n \in Nat
    BY <1>3
  <2> HIDE DEF messages, n
  <2>2. Append(messages, m) \in Seq(S) /\ n + 1 \in Nat
    BY <2>1
  <2> HIDE DEF available
  <2> QED
    BY <2>1, <2>2 DEF PackOneOf, PackOne, messages, n
<1>4. UnreliablePacketData(u, bits)
        = [channel  |-> [u EXCEPT !.message_send_queue =
                                     SubSeq(q, packed.popped + 1, Len(q))],
           messages |-> packed.messages,
           bits     |-> IF packed.messages = <<>> THEN 0 ELSE packed.used]
  BY DEF UnreliablePacketData, PackOneOf, FoldLeft, MapThenFoldSet, Max, Packing!Fold,
         Packing!FoldLeft, Packing!MapThenFoldSet, Packing!Max, base, available
<1>5. ok(packed)
  <2> HIDE DEF base, available, ok, q
  <2>1. \E X : Packing!Visits(available, available, base, q, X)
    BY <1>1, Packing!FoldVisits
  <2>2. PICK X : Packing!Visits(available, available, base, q, X)
    BY <2>1
  <2> DEFINE T == {d \in X : ok(d)}
  <2>3. base \in T
    BY <1>2, <2>2 DEF Packing!Visits
  <2>4. \A k \in 1 .. Len(q) : q[k] \in S
    BY <1>1
  <2>5. \A d \in T, k \in 1 .. Len(q) :
           PackOneOf(available, available, d, q[k]) \in X
              => PackOneOf(available, available, d, q[k]) \in T
    BY <1>3, <2>4
  <2> HIDE DEF T, packed
  <2>6. packed \in T
    BY <2>2, <2>3, <2>5 DEF Packing!Visits, packed
  <2> QED
    BY <2>6 DEF T
<1> DEFINE n == packed.popped
           rest == SubSeq(q, n + 1, Len(q))
<1>6. n \in Nat /\ packed.messages \in Seq(S)
  BY <1>5
<1> HIDE DEF packed, base, n
<1>7. rest \in Seq(S) /\ Len(rest) <= SendQueueSize
  <2> HIDE DEF q
  <2>1. rest \in Seq(S) /\ Len(rest) <= Len(q) /\ Len(q) \in Nat /\ Len(rest) \in Nat
    BY <1>1, <1>6
  <2> QED
    BY <1>1, <2>1, QueueSizes
<1> HIDE DEF rest, q
<1>8. EndsHold([u EXCEPT !.message_send_queue = rest], S, R)
  BY <1>7, AnotherSendQueue
<1> QED
  BY <1>4, <1>6, <1>8 DEF n, rest

\* What packet_data returns is made of these three.
LEMMA PacketDataShape ==
  ASSUME NEW c, NEW packet_sequence, NEW bits
  PROVE  \E u, messages, used :
            /\ ChannelPacketData(c, packet_sequence, bits)
                 = [channel  |-> [c EXCEPT !.processor = u],
                    messages |-> messages, bits |-> used]
            /\ ~IsReliable(c) =>
                  /\ u = UnreliablePacketData(c.processor, bits).channel
                  /\ messages = UnreliablePacketData(c.processor, bits).messages
<1> DEFINE d == IF IsReliable(c) THEN PacketData(c.processor, packet_sequence, bits)
                                 ELSE UnreliablePacketData(c.processor, bits)
<1>1. \E a, b, n : PacketData(c.processor, packet_sequence, bits)
                     = [channel |-> a, messages |-> b, bits |-> n]
  BY DEF PacketData, PackMessages
<1>2. \E a, b, n : UnreliablePacketData(c.processor, bits)
                     = [channel |-> a, messages |-> b, bits |-> n]
  BY DEF UnreliablePacketData
<1>3. \E a, b, n : d = [channel |-> a, messages |-> b, bits |-> n]
  BY <1>1, <1>2
<1>4. ChannelPacketData(c, packet_sequence, bits)
        = [d EXCEPT !.channel = [c EXCEPT !.processor = d.channel]]
  BY DEF ChannelPacketData
<1>5. ~IsReliable(c) => d = UnreliablePacketData(c.processor, bits)
  OBVIOUS
<1> HIDE DEF d
<1>6. PICK a, b, n : d = [channel |-> a, messages |-> b, bits |-> n]
  BY <1>3
<1>7. ChannelPacketData(c, packet_sequence, bits)
        = [channel |-> [c EXCEPT !.processor = a], messages |-> b, bits |-> n]
  BY <1>4, <1>6
<1>8. ~IsReliable(c) => /\ a = UnreliablePacketData(c.processor, bits).channel
                        /\ b = UnreliablePacketData(c.processor, bits).messages
  BY <1>5, <1>6
<1> QED
  BY <1>7, <1>8

\* packet_data of a channel: the messages of an unreliable one are of S.
LEMMA PacketDataHolds ==
  ASSUME NEW i \in ChannelIndexes, NEW c, NEW S, NEW R, ChannelHolds(c, i, S, R),
         NEW packet_sequence, NEW bits
  PROVE  LET data == ChannelPacketData(c, packet_sequence, bits)
         IN  /\ ChannelHolds(data.channel, i, S, R)
             /\ i \notin Ordered => data.messages \in Seq(S)
<1> DEFINE packed == UnreliablePacketData(c.processor, bits)
<1>1. PICK u, messages, used :
         /\ ChannelPacketData(c, packet_sequence, bits)
              = [channel |-> [c EXCEPT !.processor = u], messages |-> messages, bits |-> used]
         /\ ~IsReliable(c) => u = packed.channel /\ messages = packed.messages
  BY PacketDataShape
<1>2. i \notin Ordered => EndsHold(packed.channel, S, R) /\ packed.messages \in Seq(S)
  BY PackHolds DEF ChannelHolds
<1> HIDE DEF packed
<1>3. i \notin Ordered => EndsHold(u, S, R) /\ messages \in Seq(S)
  BY <1>1, <1>2, KindOf
<1>4. ChannelHolds([c EXCEPT !.processor = u], i, S, R)
  BY <1>3, AnotherProcessor
<1> QED
  BY <1>1, <1>3, <1>4

\* process_packet_data puts messages of R in the queue of an unreliable channel, as
\* many as there is room for.
LEMMA ProcessHolds ==
  ASSUME NEW i \in ChannelIndexes, NEW c, NEW S, NEW R, ChannelHolds(c, i, S, R),
         NEW messages, i \notin Ordered => messages \in Seq(R),
         NEW packet_sequence \in SeqNum
  PROVE  ChannelHolds(ChannelProcess(c, messages, packet_sequence).channel, i, S, R)
<1> DEFINE result == IF IsReliable(c) THEN ProcessPacketData(c.processor, messages)
                     ELSE [channel |-> UnreliableProcess(c.processor, messages,
                                                         packet_sequence),
                           panic   |-> NoPanic]
<1>1. ASSUME i \notin Ordered PROVE EndsHold(result.channel, S, R)
  <2> DEFINE u == c.processor
             q == u.message_receive_queue
             arrived == [j \in DOMAIN messages |->
                            [id |-> packet_sequence, message |-> messages[j]]]
             n == Min({ReceiveQueueSize - Len(q), Len(arrived)})
             taken == SubSeq(arrived, 1, n)
  <2>1. EndsHold(u, S, R) /\ ~IsReliable(c)
    BY <1>1, KindOf DEF ChannelHolds
  <2>2. q \in Seq(Arrived(R)) /\ Len(q) <= ReceiveQueueSize
    BY <2>1 DEF EndsHold
  <2>3. arrived \in Seq(Arrived(R))
    <3> DEFINE l == Len(messages)
    <3>1. l \in Nat /\ DOMAIN messages = 1 .. l /\ \A j \in 1 .. l : messages[j] \in R
      BY <1>1
    <3>2. \A j \in DOMAIN messages :
             [id |-> packet_sequence, message |-> messages[j]] \in Arrived(R)
      BY <3>1 DEF Arrived
    <3> HIDE DEF l
    <3>3. arrived \in [1 .. l -> Arrived(R)]
      BY <3>1, <3>2
    <3> HIDE DEF arrived
    <3> QED
      BY <3>1, <3>3
  <2>4. result.channel = [u EXCEPT !.message_receive_queue = q \o taken]
    BY <2>1 DEF UnreliableProcess
  <2> HIDE DEF arrived, q, result
  <2>5. n \in Int /\ n <= Len(arrived) /\ n <= ReceiveQueueSize - Len(q)
        /\ Len(q) \in Nat /\ n >= 0
    <3>1. ReceiveQueueSize - Len(q) \in Nat /\ Len(arrived) \in Nat /\ Len(q) \in Nat
      BY <2>2, <2>3, QueueSizes
    <3> DEFINE room == ReceiveQueueSize - Len(q)
               size == Len(arrived)
    <3> HIDE DEF room, size
    <3>2. Min({room, size}) \in Nat /\ Min({room, size}) <= room /\ Min({room, size}) <= size
      BY <3>1 DEF Min, room, size
    <3> QED
      BY <3>1, <3>2 DEF room, size
  <2> HIDE DEF n
  <2>6. taken \in Seq(Arrived(R)) /\ Len(taken) = n
    BY <2>3, <2>5
  <2> HIDE DEF taken
  <2>7. /\ q \o taken \in Seq(Arrived(R)) /\ Len(q \o taken) = Len(q) + n
    BY <2>2, <2>6
  <2>8. Len(q \o taken) <= ReceiveQueueSize
    BY <2>5, <2>7, QueueSizes
  <2>9. EndsHold([u EXCEPT !.message_receive_queue = q \o taken], S, R)
    BY <2>1, <2>7, <2>8, AnotherReceiveQueue DEF q
  <2> QED
    BY <2>4, <2>9 DEF result
<1>2. \/ ChannelProcess(c, messages, packet_sequence).channel = c
      \/ ChannelProcess(c, messages, packet_sequence).channel
            = [c EXCEPT !.processor = result.channel]
  BY DEF ChannelProcess
<1> HIDE DEF result
<1>3. ChannelHolds([c EXCEPT !.processor = result.channel], i, S, R)
  BY <1>1, AnotherProcessor
<1> QED
  BY <1>2, <1>3

-----------------------------------------------------------------------------
(* Connections.                                                              *)

\* A connection with another channel.
LEMMA AnotherChannel ==
  ASSUME NEW conn, NEW S, NEW R, ConnectionHolds(conn, S, R),
         NEW i \in ChannelIndexes, NEW ch, ChannelHolds(ch, i, S[i], R[i])
  PROVE  ConnectionHolds([conn EXCEPT !.channels[i] = ch], S, R)
<1> DEFINE chs == conn.channels
           other == [chs EXCEPT ![i] = ch]
<1>1. /\ conn = [channels |-> chs, error_level |-> conn.error_level]
      /\ chs = [j \in ChannelIndexes |-> chs[j]]
      /\ \A j \in ChannelIndexes : ChannelHolds(chs[j], j, S[j], R[j])
  BY DEF ConnectionHolds
<1>2. [conn EXCEPT !.channels[i] = ch] = [channels |-> other, error_level |-> conn.error_level]
  BY <1>1
<1> HIDE DEF chs
<1>3. /\ other = [j \in ChannelIndexes |-> other[j]]
      /\ \A j \in ChannelIndexes : other[j] = IF j = i THEN ch ELSE chs[j]
  BY <1>1
<1> HIDE DEF other
<1>4. \A j \in ChannelIndexes : ChannelHolds(other[j], j, S[j], R[j])
  BY <1>1, <1>3
<1> QED
  BY <1>2, <1>3, <1>4 DEF ConnectionHolds

\* A connection made of channels.
LEMMA ChannelsHold ==
  ASSUME NEW S, NEW R, NEW chs, NEW e, chs = [i \in ChannelIndexes |-> chs[i]],
         \A i \in ChannelIndexes : ChannelHolds(chs[i], i, S[i], R[i])
  PROVE  ConnectionHolds([channels |-> chs, error_level |-> e], S, R)
BY DEF ConnectionHolds

\* A new connection and one that was reset have no messages.
LEMMA EmptyConnectionHolds ==
  ASSUME NEW S, NEW R, NEW T, NEW Q
  PROVE  /\ ConnectionHolds(NewConnection, S, R)
         /\ \A conn : ConnectionHolds(conn, T, Q) => ConnectionHolds(ResetConnection(conn), S, R)
<1>1. ConnectionHolds(NewConnection, S, R)
  <2> DEFINE chs == [i \in ChannelIndexes |-> NewChannel(Kinds[i])]
  <2>1. \A i \in ChannelIndexes : ChannelHolds(chs[i], i, S[i], R[i])
    BY EmptyChannelHolds
  <2>2. NewConnection = [channels |-> chs, error_level |-> "None"]
    BY DEF NewConnection
  <2>3. chs = [i \in ChannelIndexes |-> chs[i]]
    OBVIOUS
  <2> HIDE DEF chs
  <2> QED
    BY <2>1, <2>2, <2>3, ChannelsHold
<1>2. ASSUME NEW conn, ConnectionHolds(conn, T, Q)
      PROVE  ConnectionHolds(ResetConnection(conn), S, R)
  <2> DEFINE chs == [i \in ChannelIndexes |-> ResetChannel(conn.channels[i])]
  <2>1. \A i \in ChannelIndexes : ChannelHolds(chs[i], i, S[i], R[i])
    BY <1>2, EmptyChannelHolds DEF ConnectionHolds
  <2>2. ResetConnection(conn)
          = [channels |-> chs, error_level |-> "None"]
    BY DEF ResetConnection
  <2>3. chs = [i \in ChannelIndexes |-> chs[i]]
    OBVIOUS
  <2> HIDE DEF chs
  <2> QED
    BY <2>1, <2>2, <2>3, ChannelsHold
<1> QED
  BY <1>1, <1>2

\* advance_time keeps the messages.
LEMMA AdvanceConnectionHolds ==
  ASSUME NEW conn, NEW S, NEW R, ConnectionHolds(conn, S, R)
  PROVE  ConnectionHolds(AdvanceConnection(conn), S, R)
<1> DEFINE errored == ErroredChannels(conn)
           last == Min(errored \cup {Len(Kinds)})
           chs == [i \in ChannelIndexes |-> IF i <= last THEN AdvanceChannel(conn.channels[i])
                                                         ELSE conn.channels[i]]
           e == IF errored # {} THEN "Channel" ELSE conn.error_level
<1>1. \A i \in ChannelIndexes :
         /\ ChannelHolds(conn.channels[i], i, S[i], R[i])
         /\ ChannelHolds(AdvanceChannel(conn.channels[i]), i, S[i], R[i])
  BY AdvanceAndAckHold DEF ConnectionHolds
<1>2. AdvanceConnection(conn) = [channels |-> chs, error_level |-> e]
  BY DEF AdvanceConnection
<1> HIDE DEF last, e
<1>3. \A i \in ChannelIndexes : ChannelHolds(chs[i], i, S[i], R[i])
  BY <1>1
<1>4. chs = [i \in ChannelIndexes |-> chs[i]]
  OBVIOUS
<1> HIDE DEF chs
<1> QED
  BY <1>2, <1>3, <1>4, ChannelsHold

\* One round of the loop over get_acks, as an operator FoldTheory takes.
AckOf(unused, none, conn, ack) == ProcessConnectionAck(conn, ack)

\* The loop over get_acks.
Acking == INSTANCE FoldTheory WITH Op <- AckOf

\* process_acks keeps the messages.
LEMMA AcksHold ==
  ASSUME NEW conn, NEW S, NEW R, ConnectionHolds(conn, S, R),
         NEW E, NEW sequences \in Seq(E)
  PROVE  ConnectionHolds(Acking!Fold(0, 0, conn, sequences), S, R)
<1>1. ASSUME NEW d, ConnectionHolds(d, S, R), NEW ack
      PROVE  ConnectionHolds(AckOf(0, 0, d, ack), S, R)
  <2> DEFINE chs == [i \in ChannelIndexes |-> ChannelProcessAck(d.channels[i], ack)]
  <2>1. \A i \in ChannelIndexes : ChannelHolds(chs[i], i, S[i], R[i])
    BY <1>1, AdvanceAndAckHold DEF ConnectionHolds
  <2>2. AckOf(0, 0, d, ack)
          = [channels |-> chs, error_level |-> d.error_level]
    <3>1. AckOf(0, 0, d, ack) = [d EXCEPT !.channels = chs]
      BY DEF AckOf, ProcessConnectionAck
    <3>2. d = [channels |-> d.channels, error_level |-> d.error_level]
      BY <1>1 DEF ConnectionHolds
    <3> HIDE DEF chs
    <3>3. [d EXCEPT !.channels = chs] = [channels |-> chs, error_level |-> d.error_level]
      BY <3>2
    <3> QED
      BY <3>1, <3>3
  <2>3. chs = [i \in ChannelIndexes |-> chs[i]]
    OBVIOUS
  <2> HIDE DEF chs
  <2> QED
    BY <2>1, <2>2, <2>3, ChannelsHold
<1>2. \E X : Acking!Visits(0, 0, conn, sequences, X)
  BY Acking!FoldVisits
<1>3. PICK X : Acking!Visits(0, 0, conn, sequences, X)
  BY <1>2
<1> DEFINE T == {d \in X : ConnectionHolds(d, S, R)}
<1>4. conn \in T
  BY <1>3 DEF Acking!Visits
<1>5. \A d \in T, k \in 1 .. Len(sequences) :
         AckOf(0, 0, d, sequences[k]) \in X => AckOf(0, 0, d, sequences[k]) \in T
  BY <1>1
<1> HIDE DEF T
<1>6. Acking!Fold(0, 0, conn, sequences) \in T
  BY <1>3, <1>4, <1>5 DEF Acking!Visits
<1> QED
  BY <1>6 DEF T

\* The elements of a finite set in some order.
LEMMA SomeOrder ==
  ASSUME NEW S, IsFiniteSet(S)
  PROVE  SetToSeq(S) \in Seq(S)
<1>1. PICK n \in Nat : ExistsBijection(1 .. n, S)
  BY FS_NatBijection
<1>2. Cardinality(S) = n
  BY <1>1, FS_CountingElements
<1>3. PICK f : f \in Bijection(1 .. n, S)
  BY <1>1 DEF ExistsBijection
<1>4. f \in [1 .. n -> S] /\ IsInjective(f)
  BY <1>3 DEF Bijection, Injection, IsInjective
<1>5. SetToSeq(S) \in [1 .. n -> S]
  BY <1>2, <1>4 DEF SetToSeq
<1> QED
  BY <1>5

\* A connection that holds messages of these sets holds those of larger ones.
LEMMA WiderConnection ==
  ASSUME NEW conn, NEW S, NEW R, ConnectionHolds(conn, S, R), NEW T, NEW Q,
         \A i \in ChannelIndexes : S[i] \subseteq T[i] /\ R[i] \subseteq Q[i]
  PROVE  ConnectionHolds(conn, T, Q)
BY WiderChannel DEF ConnectionHolds

\* So do the data of a packet.
LEMMA WiderData ==
  ASSUME NEW data, NEW S, DataHold(data, S), NEW T,
         \A i \in ChannelIndexes : S[i] \subseteq T[i]
  PROVE  DataHold(data, T)
<1>1. PICK E : data \in Seq(E) /\ \A e \in E : EntryHolds(e, S)
  BY DEF DataHold
<1>2. \A e \in E : EntryHolds(e, T)
  BY <1>1, WiderSeq DEF EntryHolds
<1> QED
  BY <1>1, <1>2 DEF DataHold

-----------------------------------------------------------------------------
(* process_packet and generate_packet.                                       *)

\* process_packet takes in the messages of the packet and no others.
LEMMA ProcessPacketHolds ==
  ASSUME NEW conn, NEW S, NEW R, ConnectionHolds(conn, S, R),
         NEW packet_sequence \in SeqNum, NEW data, DataHold(data, R)
  PROVE  ConnectionHolds(ProcessPacket(conn, packet_sequence, data).connection, S, R)
<1> DEFINE start == [connection |-> conn, accepted |-> TRUE, panic |-> NoPanic]
           folded == Processing!Fold(packet_sequence, packet_sequence, start, data)
           ok(d) == ConnectionHolds(d.connection, S, R)
           step(d, e) == ProcessEntryOf(packet_sequence, packet_sequence, d, e)
<1>1. PICK E : data \in Seq(E) /\ \A e \in E : EntryHolds(e, R)
  BY DEF DataHold
<1>2. ASSUME NEW d, ok(d), NEW e \in E PROVE ok(step(d, e))
  <2> DEFINE index == e.channel_index
             k == d.connection
             result == ChannelProcess(k.channels[index], e.messages, packet_sequence)
             taken == [k EXCEPT !.channels[index] = result.channel]
  <2>1. index \in ChannelIndexes /\ (index \notin Ordered => e.messages \in Seq(R[index]))
    BY <1>1 DEF EntryHolds
  <2>2. ChannelHolds(k.channels[index], index, S[index], R[index])
    BY <1>2, <2>1 DEF ConnectionHolds
  <2>3. ChannelHolds(result.channel, index, S[index], R[index])
    BY <2>1, <2>2, ProcessHolds
  <2>4. step(d, e) = d \/ step(d, e).connection = taken
    <3>1. ~(index > Len(Kinds) + 1) /\ index # Len(Kinds) + 1
      <4> HIDE DEF index
      <4> QED
        BY <2>1, Indexes
    <3> QED
      BY <3>1 DEF ProcessEntryOf, ProcessEntry
  <2> HIDE DEF result, index, step
  <2>5. ConnectionHolds(taken, S, R)
    BY <1>2, <2>1, <2>3, AnotherChannel
  <2> HIDE DEF taken
  <2> QED
    BY <1>2, <2>4, <2>5
<1>3. ProcessPacket(conn, packet_sequence, data)
        = IF conn.error_level # "None" THEN [start EXCEPT !.accepted = FALSE] ELSE folded
  BY DEF ProcessPacket, ProcessEntryOf, FoldLeft, MapThenFoldSet, Max, Processing!Fold,
         Processing!FoldLeft, Processing!MapThenFoldSet, Processing!Max, start
<1>4. start.connection = conn /\ [start EXCEPT !.accepted = FALSE].connection = conn
  OBVIOUS
<1> HIDE DEF start
<1>5. ok(folded)
  <2> HIDE DEF ok, step
  <2>1. \E X : Processing!Visits(packet_sequence, packet_sequence, start, data, X)
    BY <1>1, Processing!FoldVisits
  <2>2. PICK X : Processing!Visits(packet_sequence, packet_sequence, start, data, X)
    BY <2>1
  <2> DEFINE T == {d \in X : ok(d)}
  <2>3. start \in T
    BY <1>4, <2>2 DEF Processing!Visits, ok
  <2>4. \A k \in 1 .. Len(data) : data[k] \in E
    BY <1>1
  <2>5. \A d \in T, k \in 1 .. Len(data) : step(d, data[k]) \in X => step(d, data[k]) \in T
    BY <1>2, <2>4
  <2> HIDE DEF T, folded
  <2>6. folded \in T
    BY <2>2, <2>3, <2>5 DEF Processing!Visits, folded, step
  <2> QED
    BY <2>6 DEF T
<1> HIDE DEF folded
<1> QED
  BY <1>3, <1>4, <1>5

\* The state of generate_packet's loop.
GenerationHolds(d, S, R) ==
    /\ d = [connection |-> d.connection, data |-> d.data, panic |-> d.panic,
            available  |-> d.available]
    /\ ConnectionHolds(d.connection, S, R)
    /\ DataHold(d.data, S)

\* A packet with one entry more.
LEMMA AnotherEntry ==
  ASSUME NEW data, NEW S, DataHold(data, S), NEW e, EntryHolds(e, S)
  PROVE  DataHold(Append(data, e), S)
<1>1. PICK E : data \in Seq(E) /\ \A x \in E : EntryHolds(x, S)
  BY DEF DataHold
<1> DEFINE F == E \cup {e}
<1>2. E \subseteq F /\ e \in F /\ \A x \in F : EntryHolds(x, S)
  BY <1>1
<1> HIDE DEF F
<1>3. data \in Seq(F)
  BY <1>1, <1>2, WiderSeq
<1>4. Append(data, e) \in Seq(F)
  BY <1>2, <1>3
<1> QED
  BY <1>2, <1>4 DEF DataHold

\* Adding a channel's data to the packet.
LEMMA AddEntryHolds ==
  ASSUME NEW d, NEW S, NEW R, GenerationHolds(d, S, R),
         NEW index \in ChannelIndexes, NEW result,
         ChannelHolds(result.channel, index, S[index], R[index]),
         index \notin Ordered => result.messages \in Seq(S[index])
  PROVE  GenerationHolds(AddEntry(d, index, result), S, R)
<1> DEFINE left == d.available - ChannelHeaderBits - result.bits
           conn == [d.connection EXCEPT !.channels[index] = result.channel]
           sent == [d EXCEPT !.connection.channels[index] = result.channel]
           entry == [channel_index |-> index, messages |-> result.messages]
           panic == IF Underflow(left) THEN "underflow" ELSE NoPanic
           size == WrapUsize(left)
           full == [sent EXCEPT !.available = size, !.data = Append(@, entry), !.panic = panic]
<1>1. /\ ConnectionHolds(d.connection, S, R) /\ DataHold(d.data, S)
      /\ d = [connection |-> d.connection, data |-> d.data, panic |-> d.panic,
              available  |-> d.available]
  BY DEF GenerationHolds
<1>2. ConnectionHolds(conn, S, R)
  BY <1>1, AnotherChannel
<1>3. sent = [d EXCEPT !.connection = conn]
  BY <1>1
<1>4. EntryHolds(entry, S)
  BY DEF EntryHolds
<1>5. AddEntry(d, index, result) = IF result.bits = 0 THEN sent ELSE full
  BY DEF AddEntry
<1> HIDE DEF conn, entry, panic, size
<1>6. sent = [connection |-> conn, data |-> d.data, panic |-> d.panic,
              available  |-> d.available]
  BY <1>1, <1>3
<1> HIDE DEF sent
<1>7. full = [connection |-> conn, data |-> Append(d.data, entry), panic |-> panic,
              available  |-> size]
  <2> DEFINE dd == d.data
             dp == d.panic
             da == d.available
             more == Append(dd, entry)
  <2>1. sent = [connection |-> conn, data |-> dd, panic |-> dp, available |-> da]
    BY <1>6
  <2> DEFINE first == [sent EXCEPT !.available = size]
             second == [first EXCEPT !.data = more]
             third == [second EXCEPT !.panic = panic]
  <2>2. first = [connection |-> conn, data |-> dd, panic |-> dp, available |-> size]
    <3> HIDE DEF dd, dp, da
    <3> QED
      BY <2>1
  <2>3. full = third
    BY <2>2
  <2> HIDE DEF full, dd, dp, da, more, first
  <2>4. second = [connection |-> conn, data |-> more, panic |-> dp, available |-> size]
    BY <2>2
  <2> HIDE DEF second
  <2>5. third = [connection |-> conn, data |-> more, panic |-> panic, available |-> size]
    BY <2>4
  <2> QED
    BY <2>3, <2>5 DEF more, dd
<1>8. DataHold(Append(d.data, entry), S)
  BY <1>1, <1>4, AnotherEntry
<1> HIDE DEF full
<1>9. GenerationHolds(sent, S, R)
  BY <1>1, <1>2, <1>6 DEF GenerationHolds
<1>10. GenerationHolds(full, S, R)
  BY <1>2, <1>7, <1>8 DEF GenerationHolds
<1> QED
  BY <1>5, <1>9, <1>10

\* One round of generate_packet.
LEMMA GenerateEntryHolds ==
  ASSUME NEW d, NEW S, NEW R, GenerationHolds(d, S, R),
         NEW index \in ChannelIndexes, NEW packet_sequence
  PROVE  GenerationHolds(GenerateEntry(d, index, packet_sequence), S, R)
<1> DEFINE c == d.connection.channels[index]
           data == ChannelPacketData(c, packet_sequence, d.available)
           failed == [d EXCEPT !.panic = "underflow"]
<1>1. ChannelHolds(c, index, S[index], R[index])
  BY DEF GenerationHolds, ConnectionHolds
<1>2. /\ ChannelHolds(data.channel, index, S[index], R[index])
      /\ index \notin Ordered => data.messages \in Seq(S[index])
  BY <1>1, PacketDataHolds
<1>3. GenerateEntry(d, index, packet_sequence) \in {d, failed, AddEntry(d, index, data)}
  BY DEF GenerateEntry
<1> HIDE DEF data
<1>4. GenerationHolds(AddEntry(d, index, data), S, R)
  BY <1>2, AddEntryHolds
<1>5. GenerationHolds(failed, S, R)
  <2>1. failed = [connection |-> d.connection, data |-> d.data, panic |-> "underflow",
                  available  |-> d.available]
    BY DEF GenerationHolds
  <2> QED
    BY <2>1 DEF GenerationHolds
<1> QED
  BY <1>3, <1>4, <1>5

\* generate_packet leaves the channels with messages that were there, and the
\* packet has no others.
LEMMA GeneratePacketHolds ==
  ASSUME NEW conn, NEW S, NEW R, ConnectionHolds(conn, S, R),
         NEW packet_sequence, NEW buffer_bits
  PROVE  LET generated == GeneratePacket(conn, packet_sequence, buffer_bits)
         IN  ConnectionHolds(generated.connection, S, R) /\ DataHold(generated.data, S)
<1> DEFINE base == StartPacket(conn, buffer_bits)
           order == [i \in ChannelIndexes |-> i]
           folded == Generating!Fold(packet_sequence, packet_sequence, base, order)
           step(d, e) == GenerateEntryOf(packet_sequence, packet_sequence, d, e)
<1>1. GenerationHolds(base, S, R)
  <2>1. DataHold(<<>>, S)
    <3> DEFINE E == {}
    <3>1. <<>> \in Seq(E) /\ \A e \in E : EntryHolds(e, S)
      OBVIOUS
    <3> HIDE DEF E
    <3> QED
      BY <3>1 DEF DataHold
  <2>2. /\ base.connection = conn /\ base.data = <<>>
        /\ base = [connection |-> base.connection, data |-> base.data, panic |-> base.panic,
                   available  |-> base.available]
    BY DEF StartPacket
  <2> HIDE DEF base
  <2> QED
    BY <2>1, <2>2 DEF GenerationHolds
<1>2. \A d : \A e \in ChannelIndexes :
         GenerationHolds(d, S, R) => GenerationHolds(step(d, e), S, R)
  BY GenerateEntryHolds DEF GenerateEntryOf
<1>3. order \in Seq(ChannelIndexes)
  BY Indexes
<1>4. GeneratePacket(conn, packet_sequence, buffer_bits) = SerializePacket(folded, buffer_bits)
  BY DEF GeneratePacket, GenerateEntryOf, FoldLeft, MapThenFoldSet, Max, Generating!Fold,
         Generating!FoldLeft, Generating!MapThenFoldSet, Generating!Max, base, order
<1> HIDE DEF base, order, step
<1>5. GenerationHolds(folded, S, R)
  <2>1. \E X : Generating!Visits(packet_sequence, packet_sequence, base, order, X)
    BY <1>3, Generating!FoldVisits
  <2>2. PICK X : Generating!Visits(packet_sequence, packet_sequence, base, order, X)
    BY <2>1
  <2> DEFINE T == {d \in X : GenerationHolds(d, S, R)}
  <2>3. base \in T
    BY <1>1, <2>2 DEF Generating!Visits
  <2>4. \A k \in 1 .. Len(order) : order[k] \in ChannelIndexes
    BY <1>3
  <2>5. \A d \in T, k \in 1 .. Len(order) : step(d, order[k]) \in X => step(d, order[k]) \in T
    BY <1>2, <2>4
  <2> HIDE DEF T, folded
  <2>6. folded \in T
    BY <2>2, <2>3, <2>5 DEF Generating!Visits, folded, step
  <2> QED
    BY <2>6 DEF T
<1> HIDE DEF folded
<1>6. SerializePacket(folded, buffer_bits) \in {folded, [folded EXCEPT !.panic = "buffer full"]}
  BY DEF SerializePacket
<1>7. /\ [folded EXCEPT !.panic = "buffer full"].connection = folded.connection
      /\ [folded EXCEPT !.panic = "buffer full"].data = folded.data
  BY <1>5 DEF GenerationHolds
<1> QED
  BY <1>4, <1>5, <1>6, <1>7 DEF GenerationHolds

-----------------------------------------------------------------------------
(* The inductive invariant.                                                  *)

\* What peer p was allowed to send, for each channel.
SentBy(counts, p) == [i \in ChannelIndexes |-> Numbered(i, counts[p][i])]

\* Nothing on any channel.
NoMessages == [i \in ChannelIndexes |-> {}]

\* The counters of the endpoints and of the messages are in their ranges.
CountersHold ==
    /\ next_sequence \in [Peers -> SeqNum]
    /\ received \in [Peers -> SUBSET SeqNum]
    /\ acks \in [Peers -> SUBSET SeqNum]
    /\ reported \in [Peers -> SUBSET SeqNum]
    /\ ended \subseteq Peers
    /\ accepted \in [Peers -> [ChannelIndexes -> Nat]]
    /\ \A p \in Peers, i \in ChannelIndexes : accepted[p][i] <= MaxMessages(p, i)

\* The unreliable channels hold what was sent in this session, and nothing when
\* it is over at their peer.
QueuesHold(connections, counts, over) ==
    /\ connections = [p \in Peers |-> connections[p]]
    /\ \A p \in Peers :
          /\ ConnectionHolds(connections[p], SentBy(counts, p), SentBy(counts, Other(p)))
          /\ p \in over => ConnectionHolds(connections[p], NoMessages, NoMessages)

\* A packet on its way.
PacketHolds(k, counts) ==
    /\ k = [from |-> k.from, sequence |-> k.sequence, data |-> k.data, acks |-> k.acks]
    /\ k.from \in Peers /\ k.sequence \in SeqNum /\ k.acks \subseteq SeqNum
    /\ DataHold(k.data, SentBy(counts, k.from))

\* The packets on their way carry what was sent in this session.
PacketsHold(packets, counts) == \A k \in packets : PacketHolds(k, counts)

\* A peer has sent one packet with a sequence.
OnePerSequence(packets) ==
    \A k, n \in packets : k.from = n.from /\ k.sequence = n.sequence => k = n

\* The packets of a peer are the last ones it has sent: before next, as long as the
\* session lasts.
RecentPackets(packets, next, over) ==
    \A p \in Peers : \E h \in SeqNum :
        /\ p \notin over => h = next[p]
        /\ \A k \in packets : k.from = p => Fresh(h, k.sequence)

\* The inductive invariant of ConnectionPair.
PairHolds ==
    /\ CountersHold
    /\ QueuesHold(connection, accepted, ended)
    /\ PacketsHold(network, accepted)
    /\ OnePerSequence(network)
    /\ RecentPackets(network, next_sequence, ended)

-----------------------------------------------------------------------------
(* Its parts.                                                                *)

\* There are two peers.
LEMMA TwoPeers ==
  ASSUME NEW p \in Peers
  PROVE  /\ Other(p) \in Peers /\ Other(p) # p
         /\ \A q \in Peers : q = p \/ q = Other(p)
<1>1. \E q \in Peers : q # p
  BY DEF Peers
<1>2. Other(p) \in Peers /\ Other(p) # p
  BY <1>1 DEF Other
<1> QED
  BY <1>2 DEF Peers

\* Every count is at least that of the other.
AtMost(counts, others) ==
    \A p \in Peers, i \in ChannelIndexes : counts[p][i] <= others[p][i]

\* The counts of all channels.
Counts == [Peers -> [ChannelIndexes -> Nat]]

\* With more messages accepted the queues hold no less.
LEMMA SentByMore ==
  ASSUME NEW counts \in Counts, NEW others \in Counts, AtMost(counts, others), NEW p \in Peers
  PROVE  \A i \in ChannelIndexes : SentBy(counts, p)[i] \subseteq SentBy(others, p)[i]
<1> TAKE i \in ChannelIndexes
<1>1. counts[p][i] \in Nat /\ others[p][i] \in Nat /\ counts[p][i] <= others[p][i]
  BY DEF Counts, AtMost
<1>2. Numbered(i, counts[p][i]) \subseteq Numbered(i, others[p][i])
  BY <1>1, NumberedMore
<1> QED
  BY <1>2 DEF SentBy

\* So the queues and the packets go on holding what was sent.
LEMMA MoreAccepted ==
  ASSUME NEW counts \in Counts, NEW others \in Counts, AtMost(counts, others),
         NEW connections, NEW over, NEW packets
  PROVE  /\ QueuesHold(connections, counts, over) => QueuesHold(connections, others, over)
         /\ PacketsHold(packets, counts) => PacketsHold(packets, others)
<1>1. ASSUME QueuesHold(connections, counts, over)
      PROVE  QueuesHold(connections, others, over)
  <2>1. ASSUME NEW p \in Peers
        PROVE  ConnectionHolds(connections[p], SentBy(others, p), SentBy(others, Other(p)))
    <3> DEFINE S == SentBy(counts, p)
               R == SentBy(counts, Other(p))
               T == SentBy(others, p)
               Q == SentBy(others, Other(p))
    <3>1. /\ ConnectionHolds(connections[p], S, R)
          /\ \A i \in ChannelIndexes : S[i] \subseteq T[i] /\ R[i] \subseteq Q[i]
      BY <1>1, TwoPeers, SentByMore DEF QueuesHold
    <3> HIDE DEF S, R, T, Q
    <3>2. ConnectionHolds(connections[p], T, Q)
      BY <3>1, WiderConnection
    <3> QED
      BY <3>2 DEF T, Q
  <2> QED
    BY <1>1, <2>1 DEF QueuesHold
<1>2. ASSUME NEW k, PacketHolds(k, counts) PROVE PacketHolds(k, others)
  <2> DEFINE S == SentBy(counts, k.from)
             T == SentBy(others, k.from)
  <2>1. DataHold(k.data, S) /\ \A i \in ChannelIndexes : S[i] \subseteq T[i]
    BY <1>2, SentByMore DEF PacketHolds
  <2> HIDE DEF S, T
  <2>2. DataHold(k.data, T)
    BY <2>1, WiderData
  <2> QED
    BY <1>2, <2>2 DEF PacketHolds, T
<1> QED
  BY <1>1, <1>2 DEF PacketsHold

\* One connection changes.
LEMMA OneConnection ==
  ASSUME NEW connections, NEW counts, NEW over, QueuesHold(connections, counts, over),
         NEW p \in Peers, NEW conn
  PROVE  /\ /\ p \notin over
            /\ ConnectionHolds(conn, SentBy(counts, p), SentBy(counts, Other(p)))
            => QueuesHold([connections EXCEPT ![p] = conn], counts, over)
         /\ /\ \A S, R : ConnectionHolds(conn, S, R)
            => QueuesHold([connections EXCEPT ![p] = conn], counts, over \cup {p})
<1> DEFINE new == [connections EXCEPT ![p] = conn]
<1>1. /\ new = [q \in Peers |-> new[q]] /\ new[p] = conn
      /\ \A q \in Peers : q # p => new[q] = connections[q]
  BY DEF QueuesHold
<1> HIDE DEF new
<1>2. ASSUME p \notin over,
             ConnectionHolds(conn, SentBy(counts, p), SentBy(counts, Other(p)))
      PROVE  QueuesHold(new, counts, over)
  BY <1>1, <1>2 DEF QueuesHold
<1>3. ASSUME \A S, R : ConnectionHolds(conn, S, R)
      PROVE  QueuesHold(new, counts, over \cup {p})
  BY <1>1, <1>3 DEF QueuesHold
<1> QED
  BY <1>2, <1>3 DEF new

\* When the session is over at both peers nothing is left of it.
LEMMA NothingLeft ==
  ASSUME NEW connections, NEW counts, QueuesHold(connections, counts, Peers)
  PROVE  QueuesHold(connections, Zero, {})
<1>1. ASSUME NEW p \in Peers
      PROVE  SentBy(Zero, p) = NoMessages
  BY <1>1, NumberedEnds DEF SentBy, Zero, NoMessages
<1> QED
  BY <1>1, TwoPeers DEF QueuesHold

\* Packets that are no longer on their way are no loss.
LEMMA FewerPackets ==
  ASSUME NEW packets, NEW fewer, fewer \subseteq packets, NEW counts, NEW next, NEW over
  PROVE  /\ PacketsHold(packets, counts) => PacketsHold(fewer, counts)
         /\ OnePerSequence(packets) => OnePerSequence(fewer)
         /\ RecentPackets(packets, next, over) => RecentPackets(fewer, next, over)
<1>1. PacketsHold(packets, counts) => PacketsHold(fewer, counts)
  BY DEF PacketsHold
<1>2. OnePerSequence(packets) => OnePerSequence(fewer)
  BY DEF OnePerSequence
<1>3. RecentPackets(packets, next, over) => RecentPackets(fewer, next, over)
  BY DEF RecentPackets
<1> QED
  BY <1>1, <1>2, <1>3

\* A packet that stays on its way is one that was, with acks perhaps forgotten.
LEMMA StaysOnItsWay ==
  ASSUME PacketsHold(network, accepted), NEW p, NEW next, NEW x \in OnItsWay(p, next)
  PROVE  \E k \in network :
            x = [k EXCEPT !.acks = IF k.from = p THEN @ ELSE Remembered(next, @)]
<1>1. CASE x \in {k \in network : k.from = p /\ Fresh(next, k.sequence)}
  <2>1. PacketHolds(x, accepted) /\ x \in network /\ x.from = p
    BY <1>1 DEF PacketsHold
  <2>2. x = [x EXCEPT !.acks = @]
    BY <2>1 DEF PacketHolds
  <2> QED
    BY <2>1, <2>2
<1>2. CASE x \in {[k EXCEPT !.acks = Remembered(next, @)] : k \in {n \in network : n.from # p}}
  BY <1>2
<1> QED
  BY <1>1, <1>2 DEF OnItsWay

\* The fields of such a packet.
LEMMA FieldsOnItsWay ==
  ASSUME NEW k, PacketHolds(k, accepted), NEW known
  PROVE  LET x == [k EXCEPT !.acks = known]
         IN  /\ x.from = k.from /\ x.sequence = k.sequence /\ x.data = k.data
             /\ x = [from |-> k.from, sequence |-> k.sequence, data |-> k.data,
                     acks |-> known]
BY DEF PacketHolds

\* The sequence a peer uses next is not on its way, and is the most recent one
\* when it has been used.
LEMMA NewSequence ==
  ASSUME NEW h \in SeqNum
  PROVE  /\ ~Fresh(h, h)
         /\ WrappingAdd(h, 1) \in SeqNum /\ Fresh(WrappingAdd(h, 1), h)
<1>1. Lifetime \in Nat /\ 0 < Lifetime /\ Lifetime <= Half
  BY PairAssumption, HalfOfModulus
<1>2. Behind(h, h) = h - 1 - h + Modulus
  BY BehindCases, ModulusAssumption DEF SeqNum
<1>3. Behind(WrappingAdd(h, 1), h) = h - h
  BY BehindNext, ModulusAssumption DEF SeqNum
<1>4. h \in Int /\ Modulus \in Nat /\ Half \in Nat /\ Half >= 2 /\ Modulus = 2 * Half
  BY HalfOfModulus DEF SeqNum
<1> QED
  BY <1>1, <1>2, <1>3, <1>4, NextNumber DEF Fresh

\* A packet is sent: what is on its way afterwards is in order.
LEMMA PacketSent ==
  ASSUME PairHolds, NEW p \in Peers, p \notin ended,
         NEW data, DataHold(data, SentBy(accepted, p))
  PROVE  LET next == WrappingAdd(next_sequence[p], 1)
             packets == OnItsWay(p, next)
                           \cup {[from |-> p, sequence |-> next_sequence[p],
                                  data |-> data, acks |-> received[p]]}
         IN  /\ PacketsHold(packets, accepted)
             /\ OnePerSequence(packets)
             /\ RecentPackets(packets, [next_sequence EXCEPT ![p] = next], ended)
<1> DEFINE h == next_sequence[p]
           next == WrappingAdd(h, 1)
           new == [from |-> p, sequence |-> h, data |-> data, acks |-> received[p]]
           way == OnItsWay(p, next)
           packets == way \cup {new}
           nexts == [next_sequence EXCEPT ![p] = next]
           known(k) == IF k.from = p THEN k.acks ELSE Remembered(next, k.acks)
           kept(k) == [k EXCEPT !.acks = known(k)]
<1>1. /\ h \in SeqNum /\ next_sequence \in [Peers -> SeqNum] /\ received[p] \subseteq SeqNum
      /\ PacketsHold(network, accepted) /\ OnePerSequence(network)
      /\ RecentPackets(network, next_sequence, ended)
  BY DEF PairHolds, CountersHold
<1>2. ~Fresh(h, h) /\ next \in SeqNum /\ Fresh(next, h)
  BY <1>1, NewSequence
<1>3. \A x \in way : \E k \in network : x = kept(k)
  BY <1>1, StaysOnItsWay
<1>4. ASSUME NEW k \in network
      PROVE  /\ PacketHolds(k, accepted)
             /\ kept(k).from = k.from /\ kept(k).sequence = k.sequence
             /\ kept(k).data = k.data
             /\ kept(k) = [from |-> k.from, sequence |-> k.sequence, data |-> k.data,
                           acks |-> known(k)]
  <2>1. PacketHolds(k, accepted)
    BY <1>1 DEF PacketsHold
  <2> HIDE DEF known
  <2> QED
    BY <2>1, FieldsOnItsWay
<1>5. \A k \in network : known(k) \subseteq SeqNum
  BY <1>4 DEF PacketHolds, Remembered
<1>6. \A x \in way : x.from = p => Fresh(next, x.sequence)
  <2>1. \A k \in network : [k EXCEPT !.acks = Remembered(next, k.acks)].from = k.from
    BY <1>1, FieldsOnItsWay DEF PacketsHold
  <2> QED
    BY <2>1 DEF OnItsWay
<1>7. /\ new.from = p /\ new.sequence = h /\ new.data = data /\ new.acks \subseteq SeqNum
      /\ new = [from |-> new.from, sequence |-> new.sequence, data |-> new.data,
                acks |-> new.acks]
  BY <1>1
<1> HIDE DEF new, way, known, kept, next
<1>8. PacketsHold(packets, accepted)
  <2>1. ASSUME NEW k \in network PROVE PacketHolds(kept(k), accepted)
    <3> DEFINE x == kept(k)
    <3>1. x = [from |-> k.from, sequence |-> k.sequence, data |-> k.data, acks |-> known(k)]
      BY <1>4
    <3> HIDE DEF x
    <3>2. /\ x.from = k.from /\ x.sequence = k.sequence /\ x.data = k.data
          /\ x.acks = known(k)
      BY <3>1
    <3>3. PacketHolds(x, accepted)
      BY <1>4, <1>5, <3>1, <3>2 DEF PacketHolds
    <3> QED
      BY <3>3 DEF x
  <2>2. PacketHolds(new, accepted)
    BY <1>1, <1>7 DEF PacketHolds
  <2> QED
    BY <1>3, <2>1, <2>2 DEF PacketsHold
<1>9. ASSUME NEW x \in way
      PROVE  \E k \in network : /\ x = kept(k) /\ x.from = k.from
                                /\ x.sequence = k.sequence
  BY <1>3, <1>4
<1>10. \A k \in network : k.from = p => Fresh(h, k.sequence)
  <2>1. PICK g \in SeqNum : /\ p \notin ended => g = next_sequence[p]
                           /\ \A k \in network : k.from = p => Fresh(g, k.sequence)
    BY <1>1 DEF RecentPackets
  <2> QED
    BY <2>1
<1>11. OnePerSequence(packets)
  <2>1. ASSUME NEW x \in way, NEW y \in way, x.from = y.from, x.sequence = y.sequence
        PROVE  x = y
    <3>1. PICK k \in network : x = kept(k) /\ x.from = k.from /\ x.sequence = k.sequence
      BY <1>9
    <3>2. PICK n \in network : y = kept(n) /\ y.from = n.from /\ y.sequence = n.sequence
      BY <1>9
    <3>3. k = n
      BY <1>1, <2>1, <3>1, <3>2 DEF OnePerSequence
    <3> QED
      BY <3>1, <3>2, <3>3
  <2>2. ASSUME NEW x \in way, x.from = p PROVE x.sequence # h
    BY <1>2, <1>9, <1>10, <2>2
  <2> QED
    BY <1>7, <2>1, <2>2 DEF OnePerSequence
<1>12. RecentPackets(packets, nexts, ended)
  <2>1. nexts[p] = next /\ \A q \in Peers : q # p => nexts[q] = next_sequence[q]
    BY <1>1
  <2> HIDE DEF nexts
  <2>2. \A k \in packets : k.from = p => Fresh(next, k.sequence)
    BY <1>2, <1>6, <1>7
  <2>3. ASSUME NEW q \in Peers, q # p
        PROVE  \E g \in SeqNum : /\ q \notin ended => g = nexts[q]
                                 /\ \A k \in packets : k.from = q => Fresh(g, k.sequence)
    <3>1. PICK g \in SeqNum : /\ q \notin ended => g = next_sequence[q]
                             /\ \A k \in network : k.from = q => Fresh(g, k.sequence)
      BY <1>1 DEF RecentPackets
    <3>2. \A k \in packets : k.from = q => Fresh(g, k.sequence)
      BY <1>7, <1>9, <2>3, <3>1
    <3> QED
      BY <2>1, <2>3, <3>1, <3>2
  <2> QED
    BY <1>2, <2>1, <2>2, <2>3 DEF RecentPackets
<1> QED
  BY <1>8, <1>11, <1>12 DEF new, way, next

\* Two sequences as far behind the same one are equal.
LEMMA SameDistance ==
  ASSUME NEW h \in SeqNum, NEW s \in SeqNum, NEW t \in SeqNum, Behind(h, s) = Behind(h, t)
  PROVE  s = t
<1> DEFINE a == Behind(h, s)
           b == Behind(h, t)
<1>1. /\ a = IF s < h THEN h - 1 - s ELSE h - 1 - s + Modulus
      /\ b = IF t < h THEN h - 1 - t ELSE h - 1 - t + Modulus
      /\ a \in SeqNum /\ b \in SeqNum /\ a = b
  BY BehindCases
<1> HIDE DEF a, b
<1> QED
  BY <1>1, ModulusAssumption DEF SeqNum

\* How many packets can be on their way: those of a peer are at different
\* distances from the newest.
LEMMA FewOnTheirWay ==
  ASSUME PairHolds
  PROVE  IsFiniteSet(network) /\ Cardinality(network) <= 2 * Lifetime
<1> DEFINE newest(p) == CHOOSE h \in SeqNum :
                           \A k \in network : k.from = p => Fresh(h, k.sequence)
           c == newest("client")
           s == newest("server")
           place(k) == IF k.from = "client" THEN Behind(c, k.sequence)
                                            ELSE Lifetime + Behind(s, k.sequence)
           f == [k \in network |-> place(k)]
           top == 2 * Lifetime - 1
<1>1. /\ PacketsHold(network, accepted) /\ OnePerSequence(network)
      /\ RecentPackets(network, next_sequence, ended)
  BY DEF PairHolds
<1>2. Lifetime \in Nat /\ 0 < Lifetime /\ top \in Nat
  BY PairAssumption, HalfOfModulus
<1>3. "client" \in Peers /\ "server" \in Peers /\ "client" # "server"
  BY DEF Peers
<1>4. /\ c \in SeqNum /\ \A k \in network : k.from = "client" => Fresh(c, k.sequence)
      /\ s \in SeqNum /\ \A k \in network : k.from = "server" => Fresh(s, k.sequence)
  <2>1. ASSUME NEW p \in Peers
        PROVE  /\ newest(p) \in SeqNum
               /\ \A k \in network : k.from = p => Fresh(newest(p), k.sequence)
    <3>1. \E h \in SeqNum : \A k \in network : k.from = p => Fresh(h, k.sequence)
      BY <1>1 DEF RecentPackets
    <3> QED
      BY <3>1
  <2> HIDE DEF newest
  <2> QED
    BY <1>3, <2>1
<1> HIDE DEF c, s, top, newest
<1>5. ASSUME NEW k \in network
      PROVE  /\ k.from \in {"client", "server"} /\ k.sequence \in SeqNum
             /\ k.from = "client" => Behind(c, k.sequence) \in 0 .. Lifetime - 1
             /\ k.from = "server" => Behind(s, k.sequence) \in 0 .. Lifetime - 1
  <2>1. k.from \in {"client", "server"} /\ k.sequence \in SeqNum
    BY <1>1 DEF PacketsHold, PacketHolds, Peers
  <2>2. Behind(c, k.sequence) \in Nat /\ Behind(s, k.sequence) \in Nat
    <3>1. SeqNum \subseteq Nat
      BY ModulusAssumption DEF SeqNum
    <3> QED
      BY <1>4, <2>1, <3>1, BehindCases
  <2>3. /\ k.from = "client" => Behind(c, k.sequence) < Lifetime
        /\ k.from = "server" => Behind(s, k.sequence) < Lifetime
    BY <1>4 DEF Fresh
  <2> QED
    BY <1>2, <2>1, <2>2, <2>3
<1>6. ASSUME NEW k \in network PROVE place(k) \in 0 .. top
  BY <1>2, <1>5 DEF top
<1>7. ASSUME NEW k \in network, NEW n \in network, place(k) = place(n)
      PROVE  k = n
  <2>1. k.from = n.from
    BY <1>2, <1>5, <1>7
  <2>2. k.sequence = n.sequence
    <3>1. CASE k.from = "client"
      <4>1. Behind(c, k.sequence) = Behind(c, n.sequence)
        BY <1>7, <2>1, <3>1
      <4> QED
        BY <1>4, <1>5, <4>1, SameDistance
    <3>2. CASE k.from # "client"
      <4>1. Behind(s, k.sequence) = Behind(s, n.sequence)
        BY <1>2, <1>3, <1>5, <1>7, <2>1, <3>2
      <4> QED
        BY <1>4, <1>5, <4>1, SameDistance
    <3> QED
      BY <3>1, <3>2
  <2> QED
    BY <1>1, <2>1, <2>2 DEF OnePerSequence
<1> HIDE DEF place
<1>8. f \in Injection(network, 0 .. top)
  <2>1. f \in [network -> 0 .. top]
    BY <1>6
  <2>2. \A k, n \in network : f[k] = f[n] => k = n
    BY <1>7
  <2> HIDE DEF f
  <2> QED
    BY <2>1, <2>2 DEF Injection, IsInjective
<1>9. IsFiniteSet(0 .. top) /\ Cardinality(0 .. top) = top + 1
  BY <1>2, FS_Interval
<1> HIDE DEF f
<1>10. IsFiniteSet(network) /\ Cardinality(network) <= Cardinality(0 .. top)
  BY <1>8, <1>9, FS_Injection
<1> QED
  BY <1>2, <1>9, <1>10 DEF top

-----------------------------------------------------------------------------
(* The invariant is kept by every action.                                    *)

\* What the invariant says of the connection of a peer.
LEMMA ConnectionOf ==
  ASSUME PairHolds, NEW p \in Peers
  PROVE  /\ ConnectionHolds(connection[p], SentBy(accepted, p), SentBy(accepted, Other(p)))
         /\ connection = [q \in Peers |-> connection[q]]
         /\ accepted \in Counts /\ next_sequence[p] \in SeqNum
         /\ acks[p] \subseteq SeqNum /\ reported[p] \subseteq SeqNum
BY DEF PairHolds, CountersHold, QueuesHold, Counts

\* A message is accepted, or the channel is in an error state.
LEMMA AcceptHolds ==
  ASSUME PairHolds, NEW p \in Peers, NEW i \in ChannelIndexes, SendMessage(p, i),
         ~SendPanics(connection[p].channels[i])
  PROVE  PairHolds'
<1> DEFINE conn == connection[p]
           c == conn.channels[i]
           number == accepted[p][i] + 1
           R == SentBy(accepted', Other(p))
           S == SentBy(accepted', p)
           sent == [conn EXCEPT !.channels[i] = ChannelSend(c, <<i, number>>)]
<1>0. ChannelCanSend(c) => number <= MaxMessages(p, i)
  BY DEF SendMessage
<1>1. /\ connection' = [connection EXCEPT ![p].channels[i] = ChannelSend(c, <<i, number>>)]
      /\ accepted' = IF ChannelCanSend(c) THEN [accepted EXCEPT ![p][i] = number] ELSE accepted
      /\ UNCHANGED <<endpoints, ended>>
  BY DEF SendMessage
<1>2. /\ accepted \in Counts /\ number \in Nat /\ connection = [q \in Peers |-> connection[q]]
      /\ QueuesHold(connection, accepted, ended) /\ PacketsHold(network, accepted)
  BY ConnectionOf DEF PairHolds, Counts
<1>3. accepted' \in Counts /\ AtMost(accepted, accepted')
  <2>1. CASE ChannelCanSend(c)
    <3>1. accepted' = [accepted EXCEPT ![p][i] = number]
      BY <1>1, <2>1
    <3>2. accepted' \in Counts
      BY <1>2, <3>1 DEF Counts
    <3>3. ASSUME NEW q \in Peers, NEW j \in ChannelIndexes
          PROVE  accepted[q][j] <= accepted'[q][j]
      <4>1. /\ accepted[q][j] \in Nat
            /\ accepted'[q][j] = IF q = p /\ j = i THEN number ELSE accepted[q][j]
        BY <1>2, <3>1 DEF Counts
      <4> QED
        BY <4>1
    <3> QED
      BY <3>2, <3>3 DEF AtMost
  <2>2. CASE ~ChannelCanSend(c)
    BY <1>1, <1>2, <2>2 DEF AtMost, Counts
  <2> QED
    BY <2>1, <2>2
<1>4. /\ QueuesHold(connection, accepted', ended)
      /\ PacketsHold(network, accepted')
  BY <1>2, <1>3, MoreAccepted
<1>5. ConnectionHolds(sent, S, R)
  <2>1. ConnectionHolds(conn, S, R)
    BY <1>4 DEF QueuesHold
  <2>2. ChannelHolds(c, i, S[i], R[i])
    BY <2>1 DEF ConnectionHolds
  <2>3. ChannelCanSend(c) => <<i, number>> \in S[i]
    <3>1. ASSUME ChannelCanSend(c) PROVE accepted'[p][i] = number
      BY <1>1, <1>2, <3>1 DEF Counts
    <3>2. <<i, number>> \in Numbered(i, number)
      BY <1>2, NumberedEnds DEF Counts
    <3> QED
      BY <3>1, <3>2 DEF SentBy
  <2> HIDE DEF S, R, c, conn
  <2>4. ChannelHolds(ChannelSend(c, <<i, number>>), i, S[i], R[i])
    BY <2>2, <2>3, SendHolds
  <2> QED
    BY <2>1, <2>4, AnotherChannel
<1>6. connection' = [connection EXCEPT ![p] = sent]
  BY <1>1, <1>2
<1>7. p \notin ended
  BY DEF SendMessage, Running
<1> HIDE DEF sent
<1>8. QueuesHold(connection', accepted', ended)
  BY <1>4, <1>5, <1>6, <1>7, OneConnection
<1>9. CountersHold'
  <2>1. ASSUME NEW q \in Peers, NEW j \in ChannelIndexes
        PROVE  accepted'[q][j] <= MaxMessages(q, j)
    <3>1. \/ accepted'[q][j] = accepted[q][j]
          \/ q = p /\ j = i /\ accepted'[q][j] = number /\ number <= MaxMessages(p, i)
      <4>1. CASE ChannelCanSend(c)
        <5>1. accepted' = [accepted EXCEPT ![p][i] = number]
          BY <1>1, <4>1
        <5>2. number <= MaxMessages(p, i)
          BY <1>0, <4>1
        <5>3. accepted'[q][j] = IF q = p /\ j = i THEN number ELSE accepted[q][j]
          BY <1>2, <5>1 DEF Counts
        <5> QED
          BY <5>2, <5>3
      <4>2. CASE ~ChannelCanSend(c)
        BY <1>1, <4>2
      <4> QED
        BY <4>1, <4>2
    <3>2. accepted[q][j] <= MaxMessages(q, j)
      BY DEF PairHolds, CountersHold
    <3> QED
      BY <3>1, <3>2
  <2> QED
    BY <1>1, <1>3, <2>1 DEF PairHolds, CountersHold, endpoints, Counts
<1> QED
  BY <1>1, <1>4, <1>8, <1>9 DEF PairHolds, endpoints

\* The message is accepted or refused, or the program ends.
LEMMA SendMessageHolds ==
  ASSUME PairHolds, NEW p \in Peers, NEW i \in ChannelIndexes, SendMessage(p, i)
  PROVE  PairHolds'
<1>1. CASE SendPanics(connection[p].channels[i])
  <2>1. UNCHANGED <<connection, endpoints, ended, accepted>>
    BY <1>1 DEF SendMessage
  <2> QED
    BY <2>1 DEF endpoints, PairHolds, CountersHold
<1>2. CASE ~SendPanics(connection[p].channels[i])
  BY <1>2, AcceptHolds
<1> QED
  BY <1>1, <1>2

\* A message is taken from a queue.
LEMMA ReceiveMessageHolds ==
  ASSUME PairHolds, NEW p \in Peers, NEW i \in ChannelIndexes, ReceiveMessage(p, i)
  PROVE  PairHolds'
<1> DEFINE conn == connection[p]
           c == conn.channels[i]
           R == SentBy(accepted, Other(p))
           S == SentBy(accepted, p)
           taken == [conn EXCEPT !.channels[i] = ChannelReceive(c)]
<1>1. /\ p \notin ended /\ ChannelCanReceive(c)
      /\ connection' = [connection EXCEPT ![p].channels[i] = ChannelReceive(@)]
      /\ UNCHANGED <<endpoints, ended, accepted>>
  BY DEF ReceiveMessage, Running
<1>2. /\ ConnectionHolds(conn, S, R) /\ connection = [q \in Peers |-> connection[q]]
      /\ QueuesHold(connection, accepted, ended)
  BY ConnectionOf DEF PairHolds
<1>3. connection' = [connection EXCEPT ![p] = taken]
  BY <1>1, <1>2
<1>4. ConnectionHolds(taken, S, R)
  <2>1. ChannelHolds(c, i, S[i], R[i])
    BY <1>2 DEF ConnectionHolds
  <2> HIDE DEF S, R, c, conn
  <2>2. ChannelHolds(ChannelReceive(c), i, S[i], R[i])
    BY <1>1, <2>1, ReceiveHolds
  <2> QED
    BY <1>2, <2>2, AnotherChannel
<1> HIDE DEF taken
<1>5. p \notin ended
  BY <1>1
<1>6. QueuesHold(connection', accepted, ended)
  BY <1>2, <1>3, <1>4, <1>5, OneConnection
<1> QED
  BY <1>1, <1>6 DEF PairHolds, CountersHold, endpoints

\* A packet is generated, and sent if there is something in it.
LEMMA SendPacketsHolds ==
  ASSUME PairHolds, NEW p \in Peers, SendPackets(p)
  PROVE  PairHolds'
<1> DEFINE packet == GeneratePacket(connection[p], next_sequence[p], BufferBits)
           h == next_sequence[p]
           next == WrappingAdd(h, 1)
           S == SentBy(accepted, p)
           R == SentBy(accepted, Other(p))
           idle == packet.data = <<>> \/ packet.panic # NoPanic
<1>1. p \notin ended /\ SendGenerated(p, packet)
  BY DEF SendPackets, Running
<1>2. ConnectionHolds(connection[p], S, R) /\ h \in SeqNum
  BY ConnectionOf
<1>3. ConnectionHolds(packet.connection, S, R) /\ DataHold(packet.data, S)
  BY <1>2, GeneratePacketHolds
<1> HIDE DEF packet
<1>4. /\ connection' = [connection EXCEPT ![p] = packet.connection]
      /\ UNCHANGED <<acks, ended, accepted>>
  BY <1>1 DEF SendGenerated
<1>5. QueuesHold(connection', accepted', ended')
  BY <1>1, <1>3, <1>4, OneConnection DEF PairHolds
<1>6. CASE idle
  <2>1. UNCHANGED <<next_sequence, network, received, reported>>
    BY <1>1, <1>6 DEF SendGenerated
  <2> QED
    BY <1>4, <1>5, <2>1 DEF PairHolds, CountersHold
<1>7. CASE ~idle
  <2>1. /\ next_sequence' = [next_sequence EXCEPT ![p] = next]
        /\ network' = OnItsWay(p, next)
                        \cup {[from |-> p, sequence |-> h,
                               data |-> packet.data, acks |-> received[p]]}
        /\ received' = [received EXCEPT ![Other(p)] = Remembered(next, @)]
        /\ reported' = [reported EXCEPT ![p] = Remembered(next, @)]
    BY <1>1, <1>7 DEF SendGenerated
  <2>2. /\ PacketsHold(network', accepted) /\ OnePerSequence(network')
        /\ RecentPackets(network', next_sequence', ended)
    BY <1>1, <1>3, <2>1, PacketSent
  <2>3. next \in SeqNum
    BY <1>2, NextNumber
  <2> HIDE DEF next
  <2>4. /\ next_sequence' \in [Peers -> SeqNum] /\ received' \in [Peers -> SUBSET SeqNum]
        /\ reported' \in [Peers -> SUBSET SeqNum]
    BY <2>1, <2>3 DEF PairHolds, CountersHold, Remembered
  <2> QED
    BY <1>4, <1>5, <2>2, <2>4 DEF PairHolds, CountersHold
<1> QED
  BY <1>6, <1>7

\* A packet arrives.
LEMMA DeliverPacketHolds ==
  ASSUME PairHolds, NEW k \in network, DeliverPacket(k)
  PROVE  PairHolds'
<1> DEFINE p == Other(k.from)
           result == ProcessPacket(connection[p], k.sequence, k.data)
           new == k.acks \ reported[p]
           S == SentBy(accepted, p)
           R == SentBy(accepted, Other(p))
<1>1. /\ k.from \in Peers /\ k.sequence \in SeqNum /\ k.acks \subseteq SeqNum
      /\ DataHold(k.data, SentBy(accepted, k.from))
  BY DEF PairHolds, PacketsHold, PacketHolds
<1>2. p \in Peers /\ Other(p) = k.from
  BY <1>1, TwoPeers
<1>3. p \notin ended /\ TakeIn(p, k, result)
  BY DEF DeliverPacket, Running
<1>4. ConnectionHolds(connection[p], S, R)
  BY <1>2, ConnectionOf
<1>5. ConnectionHolds(result.connection, S, R)
  BY <1>1, <1>2, <1>4, ProcessPacketHolds
<1> HIDE DEF result, p
<1>6. /\ connection' = [connection EXCEPT ![p] = result.connection]
      /\ UNCHANGED <<next_sequence, network, ended, accepted>>
      /\ \/ UNCHANGED <<received, acks, reported>>
         \/ /\ received' = [received EXCEPT ![p] = @ \cup {k.sequence}]
            /\ acks' = [acks EXCEPT ![p] = @ \cup new]
            /\ reported' = [reported EXCEPT ![p] = @ \cup new]
  BY <1>3 DEF TakeIn
<1>7. QueuesHold(connection', accepted', ended')
  BY <1>2, <1>3, <1>5, <1>6, OneConnection DEF PairHolds
<1>8. new \subseteq SeqNum
  BY <1>1
<1> HIDE DEF new
<1>9. /\ received' \in [Peers -> SUBSET SeqNum] /\ acks' \in [Peers -> SUBSET SeqNum]
      /\ reported' \in [Peers -> SUBSET SeqNum]
  <2>1. /\ received \in [Peers -> SUBSET SeqNum] /\ acks \in [Peers -> SUBSET SeqNum]
        /\ reported \in [Peers -> SUBSET SeqNum]
    BY DEF PairHolds, CountersHold
  <2>2. CASE UNCHANGED <<received, acks, reported>>
    BY <2>1, <2>2
  <2>3. CASE /\ received' = [received EXCEPT ![p] = @ \cup {k.sequence}]
             /\ acks' = [acks EXCEPT ![p] = @ \cup new]
             /\ reported' = [reported EXCEPT ![p] = @ \cup new]
    <3>1. received' \in [Peers -> SUBSET SeqNum]
      BY <1>1, <2>1, <2>3
    <3>2. acks' \in [Peers -> SUBSET SeqNum] /\ reported' \in [Peers -> SUBSET SeqNum]
      BY <1>8, <2>1, <2>3
    <3> QED
      BY <3>1, <3>2
  <2> QED
    BY <1>6, <2>2, <2>3
<1> QED
  BY <1>6, <1>7, <1>9 DEF PairHolds, CountersHold

\* The session ends at a peer.
LEMMA EndHolds ==
  ASSUME PairHolds, NEW p \in Peers, NEW conn,
         ConnectionHolds(conn, SentBy(accepted, p), SentBy(accepted, Other(p))),
         EndAt(p, conn)
  PROVE  PairHolds'
<1> DEFINE fresh == IF p = "client" THEN NewConnection ELSE ResetConnection(conn)
<1>1. /\ connection' = [connection EXCEPT ![p] = fresh]
      /\ ended' = ended \cup {p}
      /\ next_sequence' = [next_sequence EXCEPT ![p] = 0]
      /\ received' = [received EXCEPT ![p] = {}]
      /\ acks' = [acks EXCEPT ![p] = {}]
      /\ reported' = [reported EXCEPT ![p] = {}]
      /\ network' = {k \in network : k.from = p}
      /\ UNCHANGED accepted
  BY DEF EndAt
<1>2. \A S, R : ConnectionHolds(fresh, S, R)
  BY EmptyConnectionHolds
<1> HIDE DEF fresh
<1>3. QueuesHold(connection', accepted', ended')
  BY <1>1, <1>2, OneConnection DEF PairHolds
<1>4. 0 \in SeqNum
  BY ModulusAssumption DEF SeqNum
<1>5. CountersHold'
  BY <1>1, <1>4 DEF PairHolds, CountersHold
<1>6. network' \subseteq network
  BY <1>1
<1>7. PacketsHold(network', accepted') /\ OnePerSequence(network')
  BY <1>1, <1>6, FewerPackets DEF PairHolds
<1>8. RecentPackets(network', next_sequence', ended')
  <2>1. RecentPackets(network, next_sequence, ended)
    BY DEF PairHolds
  <2>2. next_sequence \in [Peers -> SeqNum]
    BY DEF PairHolds, CountersHold
  <2>3. ASSUME NEW q \in Peers
        PROVE  \E h \in SeqNum : /\ q \notin ended' => h = next_sequence'[q]
                                 /\ \A k \in network' : k.from = q => Fresh(h, k.sequence)
    <3>1. PICK h \in SeqNum : /\ q \notin ended => h = next_sequence[q]
                             /\ \A k \in network : k.from = q => Fresh(h, k.sequence)
      BY <2>1 DEF RecentPackets
    <3>2. q \notin ended' => h = next_sequence'[q]
      BY <1>1, <2>2, <3>1
    <3> QED
      BY <1>6, <3>1, <3>2
  <2> QED
    BY <2>3 DEF RecentPackets
<1> QED
  BY <1>3, <1>5, <1>7, <1>8 DEF PairHolds

\* Acks are handled, or the session ends in an error.
LEMMA AdvanceTimeHolds ==
  ASSUME PairHolds, NEW p \in Peers, AdvanceTime(p)
  PROVE  PairHolds'
<1> DEFINE conn == AdvanceConnection(connection[p])
           S == SentBy(accepted, p)
           R == SentBy(accepted, Other(p))
           order == SetToSeq(acks[p])
           folded == Acking!Fold(0, 0, conn, order)
<1>1. p \notin ended /\ (EndAt(p, conn) \/ HandleAcks(p, conn))
  BY DEF AdvanceTime, Running
<1>2. ConnectionHolds(conn, S, R)
  BY ConnectionOf, AdvanceConnectionHolds
<1> HIDE DEF conn
<1>3. CASE EndAt(p, conn)
  BY <1>2, <1>3, EndHolds
<1>4. CASE HandleAcks(p, conn)
  <2>1. order \in Seq(acks[p])
    <3>1. acks[p] \subseteq 0 .. Modulus - 1 /\ 0 \in Int /\ Modulus - 1 \in Int
      BY ConnectionOf, ModulusAssumption DEF SeqNum
    <3>2. IsFiniteSet(acks[p])
      BY <3>1, FS_Interval, FS_Subset
    <3> QED
      BY <3>2, SomeOrder
  <2>2. ConnectionHolds(folded, S, R)
    <3> HIDE DEF order, S, R
    <3> QED
      BY <1>2, <2>1, AcksHold
  <2>3. FoldLeft(LAMBDA c, s : ProcessConnectionAck(c, s), conn, order) = folded
    BY DEF AckOf, FoldLeft, MapThenFoldSet, Max, Acking!Fold, Acking!FoldLeft,
           Acking!MapThenFoldSet, Acking!Max
  <2>4. /\ \/ connection' = [connection EXCEPT ![p] = conn]
           \/ connection' = [connection EXCEPT ![p] = folded]
        /\ acks' = [acks EXCEPT ![p] = {}]
        /\ UNCHANGED <<next_sequence, network, received, reported, ended, accepted>>
    <3> HIDE DEF folded
    <3> QED
      BY <1>4, <2>3 DEF HandleAcks, order
  <2> HIDE DEF folded
  <2>5. QueuesHold(connection', accepted', ended')
    <3>1. p \notin ended /\ QueuesHold(connection, accepted, ended)
      BY <1>1 DEF PairHolds
    <3>2. /\ QueuesHold([connection EXCEPT ![p] = conn], accepted, ended)
          /\ QueuesHold([connection EXCEPT ![p] = folded], accepted, ended)
      BY <1>2, <2>2, <3>1, OneConnection
    <3> QED
      BY <2>4, <3>2
  <2> QED
    BY <2>4, <2>5 DEF PairHolds, CountersHold
<1> QED
  BY <1>1, <1>3, <1>4

\* A client connects again.
LEMMA ReconnectHolds ==
  ASSUME PairHolds, Reconnect
  PROVE  PairHolds'
<1>1. /\ ended = Peers /\ ended' = {} /\ network' = {} /\ accepted' = Zero
      /\ UNCHANGED <<connection, next_sequence, received, acks, reported>>
  BY DEF Reconnect
<1>2. QueuesHold(connection', accepted', ended')
  BY <1>1, NothingLeft DEF PairHolds
<1>3. /\ Zero \in [Peers -> [ChannelIndexes -> Nat]]
      /\ \A p \in Peers, i \in ChannelIndexes : Zero[p][i] <= MaxMessages(p, i)
  BY PairAssumption DEF Zero
<1>4. CountersHold'
  BY <1>1, <1>3 DEF PairHolds, CountersHold
<1>5. PacketsHold(network', accepted') /\ OnePerSequence(network')
  BY <1>1 DEF PacketsHold, OnePerSequence
<1>6. RecentPackets(network', next_sequence', ended')
  BY <1>1 DEF RecentPackets, PairHolds, CountersHold
<1> QED
  BY <1>2, <1>4, <1>5, <1>6 DEF PairHolds

-----------------------------------------------------------------------------
(* The theorems.                                                             *)

\* The invariant holds in every state: in two sessions after each other, however
\* packets are lost, reordered and duplicated between them, for channels of any
\* kinds.
THEOREM PairInvariant == Spec => []PairHolds
<1>1. Init => PairHolds
  <2> SUFFICES ASSUME Init PROVE PairHolds
    OBVIOUS
  <2>1. /\ connection = [p \in Peers |-> NewConnection]
        /\ next_sequence = [p \in Peers |-> 0] /\ network = {}
        /\ received = None /\ acks = None /\ reported = None /\ ended = {}
        /\ accepted = Zero
    BY DEF Init
  <2>2. QueuesHold(connection, accepted, ended)
    BY <2>1, EmptyConnectionHolds DEF QueuesHold
  <2>3. CountersHold
    <3>1. 0 \in SeqNum
      BY ModulusAssumption DEF SeqNum
    <3> QED
      BY <2>1, <3>1, PairAssumption DEF CountersHold, None, Zero
  <2>4. PacketsHold(network, accepted) /\ OnePerSequence(network)
    BY <2>1 DEF PacketsHold, OnePerSequence
  <2>5. RecentPackets(network, next_sequence, ended)
    BY <2>1, <2>3 DEF RecentPackets, CountersHold
  <2> QED
    BY <2>2, <2>3, <2>4, <2>5 DEF PairHolds
<1>2. PairHolds /\ [Next]_vars => PairHolds'
  <2> SUFFICES ASSUME PairHolds, [Next]_vars PROVE PairHolds'
    OBVIOUS
  <2>1. CASE \E p \in Peers, i \in ChannelIndexes : SendMessage(p, i)
    BY <2>1, SendMessageHolds
  <2>2. CASE \E p \in Peers, i \in ChannelIndexes : ReceiveMessage(p, i)
    BY <2>2, ReceiveMessageHolds
  <2>3. CASE \E p \in Peers : SendPackets(p)
    BY <2>3, SendPacketsHolds
  <2>4. CASE \E k \in network : DeliverPacket(k)
    BY <2>4, DeliverPacketHolds
  <2>5. CASE \E p \in Peers : AdvanceTime(p)
    BY <2>5, AdvanceTimeHolds
  <2>6. CASE \E p \in Peers : Disconnected(p)
    <3>1. PICK p \in Peers : EndAt(p, connection[p])
      BY <2>6 DEF Disconnected
    <3> QED
      BY <3>1, ConnectionOf, EndHolds
  <2>7. CASE Reconnect
    BY <2>7, ReconnectHolds
  <2>8. CASE UNCHANGED vars
    BY <2>8 DEF vars, PairHolds, CountersHold
  <2> QED
    BY <2>1, <2>2, <2>3, <2>4, <2>5, <2>6, <2>7, <2>8 DEF Next
<1> QED
  BY <1>1, <1>2, PTL DEF Spec

\* The channels keep their kinds and bounds, and no counter leaves its range.
THEOREM PairTypeOK == Spec => []TypeOK
<1>1. ASSUME PairHolds PROVE TypeOK
  <2>1. ASSUME NEW p \in Peers, NEW i \in ChannelIndexes
        PROVE  LET c == connection[p].channels[i]
               IN  /\ c.kind = Kinds[i]
                   /\ c.error_level \in {"None", "SendQueueFull"}
                   /\ accepted[p][i] <= MaxMessages(p, i)
                   /\ ~IsReliable(c) =>
                         /\ Len(c.processor.message_send_queue) <= SendQueueSize
                         /\ Len(c.processor.message_receive_queue) <= ReceiveQueueSize
    <3> DEFINE c == connection[p].channels[i]
               S == SentBy(accepted, p)[i]
               R == SentBy(accepted, Other(p))[i]
    <3>1. ChannelHolds(c, i, S, R)
      BY <1>1, ConnectionOf DEF ConnectionHolds
    <3> HIDE DEF c, S, R
    <3>2. c.kind = Kinds[i] /\ (IsReliable(c) <=> i \in Ordered)
      BY <3>1, KindOf
    <3>3. /\ c.error_level \in {"None", "SendQueueFull"}
          /\ i \notin Ordered => EndsHold(c.processor, S, R)
      BY <3>1 DEF ChannelHolds, ErrorLevels
    <3>4. accepted[p][i] <= MaxMessages(p, i)
      BY <1>1 DEF PairHolds, CountersHold
    <3> QED
      BY <3>2, <3>3, <3>4 DEF EndsHold, c
  <2>2. ASSUME NEW p \in Peers
        PROVE  /\ next_sequence[p] \in SeqNum
               /\ acks[p] \cup reported[p] \cup received[p] \subseteq SeqNum
    BY <1>1 DEF PairHolds, CountersHold
  <2>3. Cardinality(network) <= 2 * Lifetime
    BY <1>1, FewOnTheirWay
  <2> QED
    BY <2>1, <2>2, <2>3 DEF TypeOK
<1> QED
  BY <1>1, PairInvariant, PTL

\* What waits in a receive queue of an unreliable channel was accepted by the
\* other peer on that channel in this session: it has come through
\* generate_packet and process_packet next to the messages of other channels, in
\* packets lost, reordered and duplicated, and from no earlier session.
THEOREM PairNothingInvented == Spec => []NothingInvented
<1>1. ASSUME PairHolds PROVE NothingInvented
  <2> SUFFICES ASSUME NEW p \in Peers, NEW i \in ChannelIndexes \ Ordered,
                      NEW k \in DOMAIN connection[p].channels[i].processor.message_receive_queue
               PROVE  LET m == connection[p].channels[i].processor.message_receive_queue[k].message
                      IN  m[1] = i /\ m[2] \in 1 .. accepted[Other(p)][i]
    BY DEF NothingInvented
  <2> DEFINE c == connection[p].channels[i]
             queue == c.processor.message_receive_queue
             S == SentBy(accepted, p)[i]
             R == SentBy(accepted, Other(p))[i]
  <2>1. ChannelHolds(c, i, S, R)
    BY <1>1, ConnectionOf DEF ConnectionHolds
  <2>2. queue \in Seq(Arrived(R))
    <3> HIDE DEF c, S, R
    <3> QED
      BY <2>1 DEF ChannelHolds, EndsHold
  <2>3. queue[k] \in Arrived(R)
    <3> HIDE DEF c, S, R
    <3>1. k \in DOMAIN queue
      BY DEF c
    <3> HIDE DEF queue
    <3> QED
      BY <2>2, <3>1
  <2> HIDE DEF queue
  <2>4. queue[k].message \in R
    <3> HIDE DEF R
    <3> QED
      BY <2>3 DEF Arrived
  <2>5. R = Numbered(i, accepted[Other(p)][i]) /\ accepted[Other(p)][i] \in Nat
    <3>1. Other(p) \in Peers /\ i \in ChannelIndexes /\ accepted \in Counts
      BY <1>1, ConnectionOf, TwoPeers
    <3> QED
      BY <3>1 DEF SentBy, Counts
  <2> HIDE DEF R
  <2>6. /\ queue[k].message[1] = i
        /\ queue[k].message[2] \in 1 .. accepted[Other(p)][i]
    BY <2>4, <2>5, NumberedEnds
  <2> QED
    BY <2>6 DEF queue, c
<1> QED
  BY <1>1, PairInvariant, PTL
==============================================================================
