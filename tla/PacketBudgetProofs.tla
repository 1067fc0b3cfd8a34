--------------------------- MODULE PacketBudgetProofs ---------------------------
(***************************************************************************)
(* The safety properties of PacketBudget, for every mix of channels, every  *)
(* set of sizes and every number of messages: what generate_packet counts   *)
(* covers what serialize writes, no packet overflows where room is reserved, *)
(* the oldest message goes first, and deserialize reads what was written.   *)
(*                                                                          *)
(* generate_packet is Connection's, and what it does with any channel that  *)
(* answers like a channel is proved in OperatorLemmas (GeneratePacketBudget); *)
(* here both kinds of channels are shown to answer like that.  The constant *)
(* of NetworkSimulator comes along with OperatorLemmas, and is not used.  *)
(***************************************************************************)
EXTENDS PacketBudget, OperatorLemmas

\* What the theorems need of the configuration: sizes in bits that a usize holds,
\* and messages without the check values nobody counts.
Configured ==
    /\ CheckBits = 0
    /\ UsizeModulus > BufferBits
    /\ MeasuredMessages(Sizes)

-----------------------------------------------------------------------------
(* One end of a reliable channel.                                            *)

\* An entry of the send queue.
SendEntries == [message : Sizes, waited : 0 .. ResendTicks]
\* An entry of sent_packets.
PacketEntries == [acked : BOOLEAN, message_ids : Seq(SeqNum)]
\* A message in a packet.
IdMessages == [id : SeqNum, message : Sizes]

\* One end of a reliable channel.
ReliableEnds ==
    [send_message_id           : SeqNum,
     receive_message_id        : SeqNum,
     oldest_unacked_message_id : SeqNum,
     sent_packets              : BufferType(SentPacketsSize, PacketEntries),
     message_send_queue        : BufferType(SendQueueSize, SendEntries),
     message_receive_queue     : BufferType(ReceiveQueueSize, Sizes)]

\* The assumption on the sizes, in the words of the buffer lemmas.
LEMMA ValidSizes ==
  /\ ValidSize(SendQueueSize) /\ ValidSize(ReceiveQueueSize) /\ ValidSize(SentPacketsSize)
  /\ SendQueueSize \in Nat /\ ReceiveQueueSize \in Nat
  /\ SendQueueSize >= 1 /\ ReceiveQueueSize >= 1
BY ConfigAssumption, ModulusAssumption DEF ValidSize

\* The fields of such an end.
LEMMA EndFields ==
  ASSUME NEW r \in ReliableEnds
  PROVE  /\ r.send_message_id \in SeqNum
         /\ r.receive_message_id \in SeqNum
         /\ r.oldest_unacked_message_id \in SeqNum
         /\ r.sent_packets \in BufferType(SentPacketsSize, PacketEntries)
         /\ r.message_send_queue \in BufferType(SendQueueSize, SendEntries)
         /\ r.message_receive_queue \in BufferType(ReceiveQueueSize, Sizes)
BY DEF ReliableEnds

\* A new channel is one.
LEMMA NewEndGood == NewReliable \in ReliableEnds
<1>1. 0 \in SeqNum
  BY ModulusAssumption DEF SeqNum
<1>2. /\ NewBuffer(SentPacketsSize) \in BufferType(SentPacketsSize, PacketEntries)
      /\ NewBuffer(SendQueueSize) \in BufferType(SendQueueSize, SendEntries)
      /\ NewBuffer(ReceiveQueueSize) \in BufferType(ReceiveQueueSize, Sizes)
  BY ValidSizes, NewBufferType
<1> QED
  BY <1>1, <1>2 DEF NewReliable, ReliableEnds

\* send_message.
LEMMA EnqueueGood ==
  ASSUME NEW r \in ReliableEnds, NEW m \in Sizes
  PROVE  EnqueueMessage(r, m) \in ReliableEnds
<1> DEFINE h == r.send_message_id
           v == [message |-> m, waited |-> FirstWait]
           k == InsertWith(r.message_send_queue, h, v)
           next == WrappingAdd(h, 1)
<1>1. v \in SendEntries
  BY ConfigAssumption DEF SendEntries
<1> HIDE DEF v
<1>2. k \in BufferType(SendQueueSize, SendEntries)
  BY <1>1, EndFields, ValidSizes, InsertWithType
<1>3. next \in SeqNum
  BY EndFields, NextNumber
<1>4. EnqueueMessage(r, m) = [r EXCEPT !.message_send_queue = k, !.send_message_id = next]
  BY DEF EnqueueMessage, v
<1> HIDE DEF k, next
<1> QED
  BY <1>2, <1>3, <1>4 DEF ReliableEnds

\* The entry a buffer has for a number it holds.
LEMMA EntryThere ==
  ASSUME NEW C, ValidSize(C), NEW V, NEW b \in BufferType(C, V), NEW s \in SeqNum, Exists(b, s)
  PROVE  /\ Get(b, s) \in V
         /\ SequenceIndex(b, s) = s % C /\ s % C \in 0 .. C - 1
         /\ b.slots[s % C] \in [seq : SeqNum, val : V]
<1>1. SequenceIndex(b, s) = s % C /\ s % C \in 0 .. C - 1
  BY BufferShape, CapacityRange DEF SequenceIndex
<1>2. b.slots[s % C].seq = s /\ s # NoSeq
  BY <1>1 DEF Exists, SeqNum, NoSeq
<1>3. b.slots[s % C] \in [seq : SeqNum, val : V] /\ b.slots[s % C].val \in V
  BY <1>1, <1>2, BufferShape
<1> QED
  BY <1>1, <1>3 DEF Get

\* The smaller of two numbers.
LEMMA MinOfTwo ==
  ASSUME NEW a \in Int, NEW b \in Int
  PROVE  /\ Min({a, b}) \in {a, b}
         /\ Min({a, b}) <= a /\ Min({a, b}) <= b
<1>1. \E x \in {a, b} : \A y \in {a, b} : x <= y
  <2>1. a <= b \/ b <= a
    OBVIOUS
  <2> QED
    BY <2>1
<1>2. Min({a, b}) \in {a, b} /\ \A y \in {a, b} : Min({a, b}) <= y
  BY <1>1 DEF Min
<1> QED
  BY <1>2

\* advance_time.
LEMMA AdvanceGood ==
  ASSUME NEW r \in ReliableEnds
  PROVE  AdvanceReliable(r) \in ReliableEnds
<1> DEFINE q == r.message_send_queue
           S == [seq : SeqNum, val : SendEntries]
           tick(slot) == IF slot = Empty THEN Empty
                         ELSE [slot EXCEPT !.val.waited = Min({@ + 1, ResendTicks})]
           f == [i \in DOMAIN q.slots |-> tick(q.slots[i])]
           n == [q EXCEPT !.slots = f]
<1>1. q \in BufferType(SendQueueSize, SendEntries) /\ DOMAIN q.slots = 0 .. SendQueueSize - 1
  BY EndFields, ValidSizes, BufferShape
<1>2. ASSUME NEW i \in 0 .. SendQueueSize - 1
      PROVE  f[i] \in S \cup {Empty}
  <2> DEFINE slot == q.slots[i]
  <2>1. f[i] = tick(slot)
    BY <1>1
  <2>2. CASE slot = Empty
    BY <2>1, <2>2
  <2>3. CASE slot # Empty
    <3>1. slot \in S
      BY <1>1, <2>3, BufferShape, ValidSizes
    <3>2. Min({slot.val.waited + 1, ResendTicks}) \in 0 .. ResendTicks
      <4> DEFINE waited == slot.val.waited + 1
      <4>1. waited \in 1 .. ResendTicks + 1 /\ ResendTicks \in Nat
        BY <3>1, ConfigAssumption DEF SendEntries
      <4> HIDE DEF waited
      <4>2. /\ Min({waited, ResendTicks}) \in {waited, ResendTicks}
            /\ Min({waited, ResendTicks}) <= ResendTicks
        BY <4>1, MinOfTwo
      <4>3. Min({waited, ResendTicks}) \in 0 .. ResendTicks
        BY <4>1, <4>2
      <4> QED
        BY <4>3 DEF waited
    <3> HIDE DEF slot
    <3>3. tick(slot) \in S
      BY <2>3, <3>1, <3>2 DEF SendEntries
    <3> QED
      BY <2>1, <3>3
  <2> QED
    BY <2>2, <2>3
<1>3. f \in [0 .. SendQueueSize - 1 -> S \cup {Empty}]
  <2> HIDE DEF S
  <2> QED
    BY <1>1, <1>2
<1> HIDE DEF f
<1>4. n \in BufferType(SendQueueSize, SendEntries)
  BY <1>1, <1>3 DEF BufferType, S
<1>5. AdvanceReliable(r) = [r EXCEPT !.message_send_queue = n]
  BY DEF AdvanceReliable, f
<1> HIDE DEF n
<1> QED
  BY <1>4, <1>5 DEF ReliableEnds

\* The timers of the messages sent are restarted.
LEMMA RestartedGood ==
  ASSUME NEW q \in BufferType(SendQueueSize, SendEntries), NEW ids \in Seq(SeqNum)
  PROVE  Restarted(q, ids) \in BufferType(SendQueueSize, SendEntries)
<1> DEFINE T == ToSet(ids)
           sent(slot) == IF slot.seq \in T THEN [slot EXCEPT !.val.waited = 0] ELSE slot
           f == [i \in DOMAIN q.slots |-> sent(q.slots[i])]
           S == [seq : SeqNum, val : SendEntries]
<1>1. T \subseteq SeqNum
  BY DEF ToSet
<1>2. DOMAIN q.slots = 0 .. SendQueueSize - 1
  BY ValidSizes, BufferShape
<1>3. ASSUME NEW i \in 0 .. SendQueueSize - 1
      PROVE  f[i] \in S \cup {Empty}
  <2> DEFINE slot == q.slots[i]
  <2> HIDE DEF T
  <2>1. f[i] = sent(slot)
    BY <1>2
  <2>2. CASE slot = Empty
    <3>1. slot.seq \notin SeqNum
      BY <2>2 DEF Empty, NoSeq, SeqNum
    <3>2. f[i] = slot
      BY <1>1, <2>1, <3>1
    <3> QED
      BY <2>2, <3>2
  <2>3. CASE slot # Empty
    <3>1. slot \in S
      BY <2>3, BufferShape, ValidSizes
    <3>2. 0 \in 0 .. ResendTicks
      BY ConfigAssumption
    <3> HIDE DEF slot
    <3>3. sent(slot) \in S
      BY <3>1, <3>2 DEF SendEntries
    <3> QED
      BY <2>1, <3>3
  <2> QED
    BY <2>2, <2>3
<1>4. f \in [0 .. SendQueueSize - 1 -> S \cup {Empty}]
  BY <1>2, <1>3
<1> HIDE DEF f
<1>5. [q EXCEPT !.slots = f] \in BufferType(SendQueueSize, SendEntries)
  BY <1>4 DEF BufferType
<1>6. Restarted(q, ids) = [q EXCEPT !.slots = f]
  BY DEF Restarted, f
<1> QED
  BY <1>5, <1>6

-----------------------------------------------------------------------------
(* process_ack.                                                              *)

\* Taking one message of an ack, as an operator FoldTheory takes.
TakeIn(unused, none, b, id) == Take(b, id)

\* The loop of process_ack.
Taking == INSTANCE FoldTheory WITH Op <- TakeIn

\* Messages that leave the send queue.
LEMMA TakeAllGood ==
  ASSUME NEW q \in BufferType(SendQueueSize, SendEntries), NEW ids \in Seq(SeqNum)
  PROVE  TakeAll(q, ids) \in BufferType(SendQueueSize, SendEntries)
<1> DEFINE B == BufferType(SendQueueSize, SendEntries)
<1>1. \A b \in B, id \in SeqNum : TakeIn(q, q, b, id) \in B
  BY ValidSizes, TakeType DEF TakeIn
<1> HIDE DEF B
<1>2. Taking!Fold(q, q, q, ids) \in B
  <2>1. q \in B
    BY DEF B
  <2> QED
    BY <1>1, <2>1, Taking!FoldStays
<1>3. TakeAll(q, ids) = Taking!Fold(q, q, q, ids)
  BY DEF TakeAll, TakeIn, FoldLeft, MapThenFoldSet, Max, Taking!Fold,
         Taking!FoldLeft, Taking!MapThenFoldSet, Taking!Max
<1> QED
  BY <1>2, <1>3 DEF B

\* update_oldest_unacked_message_id finds an id: at the latest the queue's pointer.
LEMMA UpdateOldestGood ==
  ASSUME NEW oldest \in SeqNum, NEW q \in BufferType(SendQueueSize, SendEntries)
  PROVE  UpdateOldest(oldest, q) \in SeqNum
<1> DEFINE stops(k) == \/ WrappingAdd(oldest, k) = q.sequence
                       \/ Exists(q, WrappingAdd(oldest, k))
           T == {k \in SeqNum : stops(k)}
           d == WrappingSub(q.sequence, oldest)
<1>1. q.sequence \in SeqNum
  BY ValidSizes, BufferShape
<1>2. SeqNum \subseteq Nat /\ oldest \in Int
  BY ModulusAssumption DEF SeqNum
<1>3. d \in SeqNum /\ WrappingAdd(oldest, d) = q.sequence
  <2> DEFINE p == q.sequence
  <2>1. /\ p \in SeqNum /\ d \in SeqNum
        /\ d = IF oldest <= p THEN p - oldest ELSE p - oldest + Modulus
    BY <1>1, SubtractCases
  <2> HIDE DEF d, p
  <2>2. p \in Int /\ d \in Int /\ Modulus \in Nat /\ Modulus > 0
    BY <1>2, <2>1, ModulusAssumption
  <2>3. oldest + d = IF oldest <= p THEN p ELSE p + Modulus
    BY <1>2, <2>1, <2>2
  <2>4. p % Modulus = p
    BY <2>1, <2>2, Wrapped
  <2>5. (p + Modulus) % Modulus = p % Modulus
    BY <2>2, ModNext
  <2> QED
    BY <2>1, <2>3, <2>4, <2>5 DEF WrappingAdd, p
<1>4. d \in T
  BY <1>3
<1>5. T \subseteq Nat
  BY <1>2
<1> HIDE DEF T
<1>6. Min(T) \in T
  <2>1. \E x \in T : \A y \in T : x <= y
    BY <1>4, <1>5, Taking!LeastNumber
  <2> QED
    BY <2>1 DEF Min
<1> DEFINE m == Min(T)
<1>7. m \in Nat
  BY <1>5, <1>6
<1>8. UpdateOldest(oldest, q) = (oldest + m) % Modulus
  BY DEF UpdateOldest, T, WrappingAdd
<1> HIDE DEF m
<1>9. oldest + m \in Int
  BY <1>2, <1>7
<1> QED
  BY <1>8, <1>9, Wrapped

\* process_ack.
LEMMA AckGood ==
  ASSUME NEW r \in ReliableEnds, NEW ack \in SeqNum
  PROVE  ProcessAck(r, ack) \in ReliableEnds
<1> DEFINE C == SentPacketsSize
           p == r.sent_packets
           q == r.message_send_queue
           ids == Get(p, ack).message_ids
           k == TakeAll(q, ids)
           a == ack % C
           marked == [p.slots[a] EXCEPT !.val.acked = TRUE]
           f == [p.slots EXCEPT ![a] = marked]
           m == [p EXCEPT !.slots = f]
           o == IF k = q THEN r.oldest_unacked_message_id
                ELSE UpdateOldest(r.oldest_unacked_message_id, k)
           S == [seq : SeqNum, val : PacketEntries]
<1>1. CASE ~Exists(p, ack)
  BY <1>1 DEF ProcessAck
<1>2. CASE Exists(p, ack)
  <2>1. /\ p \in BufferType(C, PacketEntries) /\ q \in BufferType(SendQueueSize, SendEntries)
        /\ r.oldest_unacked_message_id \in SeqNum
    BY EndFields
  <2>2. /\ Get(p, ack) \in PacketEntries /\ SequenceIndex(p, ack) = a /\ a \in 0 .. C - 1
        /\ p.slots[a] \in S
    BY <1>2, <2>1, ValidSizes, EntryThere
  <2>3. ids \in Seq(SeqNum)
    BY <2>2 DEF PacketEntries
  <2>4. k \in BufferType(SendQueueSize, SendEntries)
    <3> HIDE DEF ids
    <3> QED
      BY <2>1, <2>3, TakeAllGood
  <2>5. o \in SeqNum
    <3> HIDE DEF k
    <3> QED
      BY <2>1, <2>4, UpdateOldestGood
  <2>6. marked \in S
    <3> DEFINE slot == p.slots[a]
    <3>1. slot \in S
      BY <2>2
    <3> HIDE DEF slot
    <3>2. [slot EXCEPT !.val.acked = TRUE] \in S
      BY <3>1 DEF PacketEntries
    <3> QED
      BY <3>2 DEF slot
  <2>7. p.slots \in [0 .. C - 1 -> S \cup {Empty}]
    BY <2>1, ValidSizes, BufferShape
  <2> HIDE DEF marked
  <2>8. f \in [0 .. C - 1 -> S \cup {Empty}]
    BY <2>6, <2>7
  <2> HIDE DEF f
  <2>9. m \in BufferType(C, PacketEntries)
    BY <2>1, <2>8 DEF BufferType
  <2>10. ProcessAck(r, ack) = [r EXCEPT !.sent_packets = m, !.message_send_queue = k,
                                        !.oldest_unacked_message_id = o]
    BY <1>2, <2>1, <2>2 DEF ProcessAck, marked, f, BufferType, ReliableEnds
  <2> HIDE DEF m, k, o
  <2> QED
    BY <2>4, <2>5, <2>9, <2>10 DEF ReliableEnds
<1> QED
  BY <1>1, <1>2

-----------------------------------------------------------------------------
(* packet_data of a reliable channel.                                        *)

\* The loop of get_messages_to_send.
Choosing == INSTANCE FoldTheory WITH Op <- Consider

\* The messages of these ids.
Chosen(q, ids) == [i \in DOMAIN ids |-> [id |-> ids[i], message |-> Get(q, ids[i]).message]]

\* The ids the loop looks at; the first is the oldest unacked one.
LEMMA CandidateIds ==
  ASSUME NEW r \in ReliableEnds
  PROVE  /\ Candidates(r) \in Seq(SeqNum)
         /\ Len(Candidates(r)) \in Nat /\ Len(Candidates(r)) >= 1
         /\ Candidates(r)[1] = r.oldest_unacked_message_id
<1> DEFINE n == Min({SendQueueSize, ReceiveQueueSize})
           x == r.oldest_unacked_message_id
<1>1. n \in Nat /\ n >= 1
  BY ValidSizes, MinOfTwo
<1> HIDE DEF n
<1>2. x \in SeqNum /\ x \in Int
  BY EndFields, ModulusAssumption DEF SeqNum
<1> HIDE DEF x
<1>3. ASSUME NEW i \in 1 .. n
      PROVE  WrappingAdd(x, i - 1) \in SeqNum
  <2>1. x + (i - 1) \in Int
    BY <1>1, <1>2
  <2> QED
    BY <2>1, Wrapped DEF WrappingAdd
<1>4. WrappingAdd(x, 1 - 1) = x
  <2>1. x + (1 - 1) = x /\ x % Modulus = x
    BY <1>2, Wrapped
  <2> QED
    BY <2>1 DEF WrappingAdd
<1>5. Candidates(r) = [i \in 1 .. n |-> WrappingAdd(x, i - 1)]
  BY DEF Candidates, n, x
<1>6. /\ Candidates(r) \in Seq(SeqNum) /\ Len(Candidates(r)) = n
      /\ Candidates(r)[1] = WrappingAdd(x, 1 - 1)
  BY <1>1, <1>3, <1>5
<1> QED
  BY <1>1, <1>4, <1>6 DEF x

\* A message more.
LEMMA ChosenAppend ==
  ASSUME NEW q \in BufferType(SendQueueSize, SendEntries), NEW ids \in Seq(SeqNum),
         Chosen(q, ids) \in Seq(IdMessages), NEW id \in SeqNum, Exists(q, id)
  PROVE  LET m == [id |-> id, message |-> Get(q, id).message]
         IN  /\ m \in IdMessages
             /\ Chosen(q, Append(ids, id)) = Append(Chosen(q, ids), m)
             /\ Append(Chosen(q, ids), m) \in Seq(IdMessages)
<1> DEFINE m == [id |-> id, message |-> Get(q, id).message]
           of(s) == [id |-> s, message |-> Get(q, s).message]
           c == Chosen(q, ids)
           longer == Append(ids, id)
           n == Len(ids)
           l == Append(c, m)
<1>1. m \in IdMessages
  <2>1. Get(q, id) \in SendEntries
    BY ValidSizes, EntryThere
  <2> QED
    BY <2>1 DEF SendEntries, IdMessages
<1>2. /\ n \in Nat /\ DOMAIN ids = 1 .. n /\ DOMAIN longer = 1 .. n + 1
      /\ longer[n + 1] = id /\ \A i \in 1 .. n : longer[i] = ids[i]
  OBVIOUS
<1>3. m = of(id)
  OBVIOUS
<1> HIDE DEF of, m
<1>4. c = [i \in 1 .. n |-> of(ids[i])] /\ c \in Seq(IdMessages)
  BY <1>2 DEF Chosen, of
<1>5. Chosen(q, longer) = [i \in 1 .. n + 1 |-> of(longer[i])]
  BY <1>2 DEF Chosen, of
<1> HIDE DEF n, longer
<1>6. DOMAIN c = 1 .. n /\ Len(c) = n
  BY <1>2, <1>4
<1> HIDE DEF c
<1>7. /\ l \in Seq(IdMessages) /\ Len(l) = n + 1 /\ l[n + 1] = m
      /\ \A i \in 1 .. n : l[i] = c[i]
  <2>1. c \in Seq(IdMessages)
    BY <1>4
  <2> QED
    BY <1>1, <1>6, <2>1
<1> HIDE DEF l
<1>8. l = [i \in 1 .. n + 1 |-> l[i]]
  BY <1>2, <1>7
<1>9. ASSUME NEW i \in 1 .. n + 1 PROVE l[i] = of(longer[i])
  <2>1. i \in 1 .. n \/ i = n + 1
    BY <1>2
  <2> QED
    BY <1>2, <1>3, <1>4, <1>7, <2>1
<1>10. Chosen(q, longer) = l
  BY <1>5, <1>8, <1>9
<1> QED
  BY <1>1, <1>7, <1>10 DEF l, c, longer, m

\* What the loop has chosen so far.
GoodChoices(r, i, available) ==
    {d \in [ids : Seq(SeqNum), used : Nat] :
        /\ Chosen(r.message_send_queue, d.ids) \in Seq(IdMessages)
        /\ Len(d.ids) <= MaxPerPacket
        /\ d.used = CountedFor(i, Chosen(r.message_send_queue, d.ids))
        /\ d.used >= MessageHeaderBits
        /\ d.ids # <<>> => d.used <= available}

\* One turn keeps count of the bits.
LEMMA ConsiderCounts ==
  ASSUME MeasuredMessages(Sizes), NEW r \in ReliableEnds, NEW available \in Int,
         NEW i \in ChannelIndexes, Kinds[i] = ReliableOrdered,
         NEW d \in GoodChoices(r, i, available), NEW id \in SeqNum
  PROVE  Consider(r, available, d, id) \in GoodChoices(r, i, available)
<1> DEFINE q == r.message_send_queue
           m == [id |-> id, message |-> Get(q, id).message]
           bits == MeasuredBits(Get(q, id).message) + MessageIdBits
           n == Consider(r, available, d, id)
           ids == d.ids
           used == d.used
           c == Chosen(q, ids)
           fits == /\ Len(ids) < MaxPerPacket
                   /\ Exists(q, id)
                   /\ used + bits <= available
<1>1. /\ ids \in Seq(SeqNum) /\ used \in Nat /\ c \in Seq(IdMessages)
      /\ Len(ids) <= MaxPerPacket /\ used = CountedFor(i, c) /\ used >= MessageHeaderBits
  BY DEF GoodChoices
<1>2. q \in BufferType(SendQueueSize, SendEntries)
  BY EndFields
<1>3. n = d \/ (fits /\ n = [ids |-> Append(ids, id), used |-> used + bits])
  BY DEF Consider
<1>4. CASE n = d
  BY <1>4
<1>5. CASE fits /\ n = [ids |-> Append(ids, id), used |-> used + bits]
  <2> DEFINE longer == Append(ids, id)
             l == Chosen(q, longer)
             more == used + bits
  <2>1. m \in IdMessages /\ l = Append(c, m) /\ l \in Seq(IdMessages)
    BY <1>1, <1>2, <1>5, ChosenAppend
  <2>2. \A s \in IdMessages : MessageBits(i, s, 0) = MeasuredBits(s.message) + MessageIdBits
                              /\ MessageBits(i, s, 0) \in Nat
    BY DEF MessageBits, MeasuredMessages, IdMessages, MessageIdBits
  <2>3. MessageBits(i, m, 0) = bits /\ bits \in Nat
    <3>1. m.message = Get(q, id).message
      OBVIOUS
    <3> HIDE DEF m
    <3> QED
      BY <2>1, <2>2, <3>1
  <2> HIDE DEF bits, m, c
  <2>4. CountedFor(i, Append(c, m)) = CountedFor(i, c) + MessageBits(i, m, 0)
    <3>1. \A s \in IdMessages : MessageBits(i, s, 0) \in Int
      BY <2>2
    <3> QED
      BY <1>1, <2>1, <3>1, CountedAppend
  <2>5. more = CountedFor(i, l) /\ more \in Nat /\ more >= MessageHeaderBits
    BY <1>1, <2>1, <2>3, <2>4 DEF MessageHeaderBits
  <2>6. longer \in Seq(SeqNum) /\ Len(longer) <= MaxPerPacket
    <3>1. Len(longer) = Len(ids) + 1 /\ Len(ids) \in Nat /\ longer \in Seq(SeqNum)
      BY <1>1
    <3> QED
      BY <1>5, <3>1, ConfigAssumption
  <2>7. more <= available
    BY <1>5
  <2>8. n = [ids |-> longer, used |-> more]
    BY <1>5
  <2> HIDE DEF longer, more, n
  <2>9. n \in [ids : Seq(SeqNum), used : Nat] /\ n.ids = longer /\ n.used = more
    BY <2>5, <2>6, <2>8
  <2>10. n \in GoodChoices(r, i, available)
    BY <2>1, <2>5, <2>6, <2>7, <2>9 DEF GoodChoices
  <2> QED
    BY <2>10 DEF n
<1> QED
  BY <1>3, <1>4, <1>5

\* get_messages_to_send as a fold.
LEMMA ChoosingIs ==
  ASSUME NEW r, NEW bits
  PROVE  GetMessagesToSend(r, bits)
           = Choosing!Fold(r, Min({PacketBudget, bits}), [ids |-> <<>>, used |-> MessageHeaderBits],
                           Candidates(r))
BY DEF GetMessagesToSend, FoldLeft, MapThenFoldSet, Max, Choosing!Fold,
       Choosing!FoldLeft, Choosing!MapThenFoldSet, Choosing!Max

\* The bits there are for a channel that was offered so many.
LEMMA AvailableBits ==
  ASSUME NEW bits \in Int
  PROVE  /\ Min({PacketBudget, bits}) \in Int
         /\ Min({PacketBudget, bits}) <= PacketBudget /\ Min({PacketBudget, bits}) <= bits
         /\ bits >= PacketBudget => Min({PacketBudget, bits}) = PacketBudget
<1>1. PacketBudget \in Int
  BY ConfigAssumption
<1> DEFINE a == Min({PacketBudget, bits})
<1>2. a \in {PacketBudget, bits} /\ a <= PacketBudget /\ a <= bits
  BY <1>1, MinOfTwo
<1> HIDE DEF a
<1> QED
  BY <1>1, <1>2 DEF a

\* The loop begins with nothing chosen.
LEMMA NothingChosen ==
  ASSUME NEW r, NEW i, NEW available
  PROVE  [ids |-> <<>>, used |-> MessageHeaderBits] \in GoodChoices(r, i, available)
<1>1. Chosen(r.message_send_queue, <<>>) = <<>>
  BY DEF Chosen
<1>2. CountedFor(i, <<>>) = MessageHeaderBits
  BY CountedEmpty
<1>3. MaxPerPacket \in Nat /\ MessageHeaderBits \in Nat
  BY ConfigAssumption DEF MessageHeaderBits
<1> QED
  <2> DEFINE base == [ids |-> <<>>, used |-> MessageHeaderBits]
  <2>1. base.ids = <<>> /\ base.used = MessageHeaderBits /\ base \in [ids : Seq(SeqNum), used : Nat]
    BY <1>3
  <2>2. <<>> \in Seq(IdMessages) /\ Len(<<>>) <= MaxPerPacket
    BY <1>3
  <2> HIDE DEF base
  <2>3. base \in GoodChoices(r, i, available)
    BY <1>1, <1>2, <1>3, <2>1, <2>2 DEF GoodChoices
  <2> QED
    BY <2>3 DEF base

\* The messages get_messages_to_send chooses, and the bits it counts for them.
LEMMA ChosenCounted ==
  ASSUME MeasuredMessages(Sizes), NEW r \in ReliableEnds, NEW bits \in Int,
         NEW i \in ChannelIndexes, Kinds[i] = ReliableOrdered
  PROVE  GetMessagesToSend(r, bits) \in GoodChoices(r, i, Min({PacketBudget, bits}))
<1> DEFINE available == Min({PacketBudget, bits})
           base == [ids |-> <<>>, used |-> MessageHeaderBits]
           D == GoodChoices(r, i, available)
<1>1. available \in Int
  BY AvailableBits
<1>2. base \in D
  BY NothingChosen
<1>3. Candidates(r) \in Seq(SeqNum)
  BY CandidateIds
<1> HIDE DEF available, base
<1>4. \A d \in D, id \in SeqNum : Consider(r, available, d, id) \in D
  BY <1>1, ConsiderCounts
<1> HIDE DEF D
<1>5. Choosing!Fold(r, available, base, Candidates(r)) \in D
  BY <1>2, <1>3, <1>4, Choosing!FoldStays
<1> QED
  BY <1>5, ChoosingIs DEF available, base, D

-----------------------------------------------------------------------------
(* Channels of both kinds.                                                   *)

\* Reliable channels, as Channel wraps them.
ReliableChannels ==
    [kind : {ReliableOrdered}, error_level : ErrorLevels, processor : ReliableEnds]

\* Entries of a reliable channel, as it makes them.
ReliableEntries ==
    {x \in [channel_index : ChannelIndexes, messages : Seq(IdMessages)] :
        /\ Kinds[x.channel_index] = ReliableOrdered
        /\ Len(x.messages) \in 1 .. MaxPerPacket
        /\ SerializedBits(x, 0) \in Nat /\ SerializedBits(x, 0) <= PacketBudget}

\* What PacketData returns.
PacketDataIs(i, bits, data) ==
    /\ data.channel \in ReliableEnds
    /\ data.messages \in Seq(IdMessages)
    /\ data.bits \in Nat
    /\ data.bits # 0 => /\ Len(data.messages) \in 1 .. MaxPerPacket
                        /\ data.bits = CountedFor(i, data.messages)
                        /\ data.bits <= PacketBudget /\ data.bits <= bits
    /\ data = [channel |-> data.channel, messages |-> data.messages, bits |-> data.bits]

\* The channel after a packet with these ids.
LEMMA PackedGood ==
  ASSUME NEW r \in ReliableEnds, NEW sequence \in SeqNum, NEW ids \in Seq(SeqNum), NEW used
  PROVE  /\ PackMessages(r, sequence, ids, used).channel \in ReliableEnds
         /\ PackMessages(r, sequence, ids, used).messages = Chosen(r.message_send_queue, ids)
         /\ PackMessages(r, sequence, ids, used).bits = used
<1> DEFINE q == Restarted(r.message_send_queue, ids)
           v == [acked |-> FALSE, message_ids |-> ids]
           p == InsertWith(r.sent_packets, sequence, v)
           n == [r EXCEPT !.message_send_queue = q, !.sent_packets = p]
<1>1. q \in BufferType(SendQueueSize, SendEntries)
  BY EndFields, RestartedGood
<1>2. v \in PacketEntries
  BY DEF PacketEntries
<1> HIDE DEF v
<1>3. p \in BufferType(SentPacketsSize, PacketEntries)
  BY <1>2, EndFields, ValidSizes, InsertWithType
<1>4. PackMessages(r, sequence, ids, used).channel = n
  BY DEF PackMessages, v
<1> HIDE DEF q, p
<1>5. n \in ReliableEnds
  BY <1>1, <1>3 DEF ReliableEnds
<1> HIDE DEF n
<1>6. /\ PackMessages(r, sequence, ids, used).messages = Chosen(r.message_send_queue, ids)
      /\ PackMessages(r, sequence, ids, used).bits = used
  BY DEF PackMessages, Chosen
<1> QED
  BY <1>4, <1>5, <1>6

\* packet_data of a reliable channel.
LEMMA PacketDataGood ==
  ASSUME MeasuredMessages(Sizes), NEW r \in ReliableEnds, NEW sequence \in SeqNum,
         NEW bits \in Int, NEW i \in ChannelIndexes, Kinds[i] = ReliableOrdered
  PROVE  PacketDataIs(i, bits, PacketData(r, sequence, bits))
<1> DEFINE available == Min({PacketBudget, bits})
           chosen == GetMessagesToSend(r, bits)
           ids == chosen.ids
           used == chosen.used
           messages == Chosen(r.message_send_queue, ids)
           data == PacketData(r, sequence, bits)
           none == [channel |-> r, messages |-> <<>>, bits |-> 0]
           packed == PackMessages(r, sequence, ids, used)
<1>1. chosen \in GoodChoices(r, i, available)
  BY ChosenCounted
<1>2. /\ available \in Int /\ available <= PacketBudget /\ available <= bits
      /\ PacketBudget \in Int
  BY AvailableBits, ConfigAssumption
<1> HIDE DEF available, chosen
<1>3. /\ ids \in Seq(SeqNum) /\ used \in Nat /\ messages \in Seq(IdMessages)
      /\ Len(ids) <= MaxPerPacket /\ used = CountedFor(i, messages)
      /\ ids # <<>> => used <= available
  BY <1>1 DEF GoodChoices
<1>4. data = none \/ (ids # <<>> /\ data = packed)
  BY DEF PacketData, chosen
<1>5. CASE data = none
  <2>1. <<>> \in Seq(IdMessages)
    OBVIOUS
  <2>2. none.channel = r /\ none.messages = <<>> /\ none.bits = 0
    OBVIOUS
  <2> HIDE DEF none, data
  <2>3. PacketDataIs(i, bits, none)
    BY <2>1, <2>2 DEF PacketDataIs, none
  <2> QED
    BY <1>5, <2>3 DEF data
<1>6. CASE ids # <<>> /\ data = packed
  <2> HIDE DEF ids, used
  <2>1. packed.channel \in ReliableEnds /\ packed.messages = messages /\ packed.bits = used
    BY <1>3, PackedGood
  <2>2. packed = [channel |-> packed.channel, messages |-> packed.messages, bits |-> packed.bits]
    BY DEF PackMessages
  <2>3. Len(messages) \in 1 .. MaxPerPacket
    <3>1. Len(ids) \in Nat /\ DOMAIN ids = 1 .. Len(ids) /\ Len(ids) >= 1
      BY <1>3, <1>6
    <3>2. DOMAIN messages = DOMAIN ids
      BY DEF Chosen
    <3> DEFINE n == Len(ids)
    <3> HIDE DEF messages
    <3>3. Len(messages) = Len(ids)
      BY <1>3, <3>1, <3>2
    <3> QED
      BY <1>3, <3>1, <3>3, ConfigAssumption
  <2> HIDE DEF packed, messages
  <2>4. PacketDataIs(i, bits, packed)
    BY <1>2, <1>3, <1>6, <2>1, <2>2, <2>3 DEF PacketDataIs
  <2> QED
    BY <1>6, <2>4
<1> QED
  BY <1>4, <1>5, <1>6

\* What a reliable channel answers.
LEMMA ReliableAnswers ==
  ASSUME MeasuredMessages(Sizes), NEW c \in ReliableChannels, NEW bits \in Int,
         NEW i \in ChannelIndexes, Kinds[i] = ReliableOrdered, NEW sequence \in SeqNum
  PROVE  Answers(ReliableChannels, ReliableEntries, i, bits, ChannelPacketData(c, sequence, bits))
<1> DEFINE u == PacketData(c.processor, sequence, bits)
           data == ChannelPacketData(c, sequence, bits)
           x == EntryOf(i, data.messages)
<1>1. c.processor \in ReliableEnds /\ IsReliable(c)
  BY DEF ReliableChannels, IsReliable
<1>2. PacketDataIs(i, bits, u)
  BY <1>1, PacketDataGood
<1>3. data = [u EXCEPT !.channel = [c EXCEPT !.processor = u.channel]]
  BY <1>1 DEF ChannelPacketData
<1> HIDE DEF u, data
<1> DEFINE ch == [c EXCEPT !.processor = u.channel]
<1>4. ch \in ReliableChannels
  BY <1>2 DEF ReliableChannels, PacketDataIs
<1> HIDE DEF ch
<1>5. data = [channel |-> ch, messages |-> u.messages, bits |-> u.bits]
  BY <1>2, <1>3 DEF PacketDataIs, ch
<1>6. data.channel = ch /\ data.messages = u.messages /\ data.bits = u.bits
  BY <1>5
<1>7. data.bits # 0 => x \in ReliableEntries
  <2> HAVE data.bits # 0
  <2>1. x \in [channel_index : ChannelIndexes, messages : Seq(IdMessages)]
    BY <1>2, <1>6 DEF EntryOf, PacketDataIs
  <2>2. SerializedBits(x, 0) = data.bits /\ data.bits \in Nat /\ data.bits <= PacketBudget
    BY <1>2, <1>6 DEF CountedFor, PacketDataIs
  <2>3. x.channel_index = i /\ x.messages = data.messages
    BY DEF EntryOf
  <2>4. Len(x.messages) \in 1 .. MaxPerPacket
    BY <1>2, <1>6, <2>3 DEF PacketDataIs
  <2> HIDE DEF x
  <2> QED
    BY <2>1, <2>2, <2>3, <2>4 DEF ReliableEntries
<1>8. Answers(ReliableChannels, ReliableEntries, i, bits, data)
  BY <1>2, <1>4, <1>5, <1>6, <1>7 DEF Answers, PacketDataIs
<1> QED
  BY <1>8 DEF data

-----------------------------------------------------------------------------
(* The connection.                                                           *)

\* All channels, those of one index, and the entries of packets.
Channels == ReliableChannels \cup UnreliableChannels(Sizes)
\* The channels there may be at index i.
ChannelsAt == [i \in ChannelIndexes |-> IF Kinds[i] = ReliableOrdered
                                        THEN ReliableChannels ELSE UnreliableChannels(Sizes)]
\* What a packet may have.
Entries == ReliableEntries \cup UnreliableEntries(Sizes)

\* A channel is of one kind or the other.
LEMMA KindsAre ==
  ASSUME NEW i \in ChannelIndexes
  PROVE  /\ Kinds[i] = ReliableOrdered \/ Kinds[i] = UnreliableUnordered
         /\ ReliableOrdered # UnreliableUnordered
         /\ ChannelsAt[i] \subseteq Channels
<1>1. Kinds[i] \in {ReliableOrdered, UnreliableUnordered}
  BY ConnectionAssumption DEF ChannelIndexes
<1>2. ReliableOrdered # UnreliableUnordered
  BY Strings
<1>3. ChannelsAt[i] \subseteq Channels
  BY DEF ChannelsAt, Channels
<1> QED
  BY <1>1, <1>2, <1>3

\* All channels answer as generate_packet relies on.
LEMMA AllAnswer ==
  ASSUME MeasuredMessages(Sizes), NEW sequence \in SeqNum
  PROVE  Answering(Channels, ChannelsAt, Entries, sequence)
<1>1. Budgeted(Entries)
  BY DEF Budgeted, Entries, ReliableEntries, UnreliableEntries
<1>2. ReliableEntries \subseteq Entries /\ UnreliableEntries(Sizes) \subseteq Entries
  BY DEF Entries
<1>3. ASSUME NEW i \in ChannelIndexes, NEW bits \in Int, NEW c \in ChannelsAt[i]
      PROVE  Answers(ChannelsAt[i], Entries, i, bits, ChannelPacketData(c, sequence, bits))
  <2> DEFINE data == ChannelPacketData(c, sequence, bits)
             X == IF Kinds[i] = ReliableOrdered THEN ReliableEntries ELSE UnreliableEntries(Sizes)
  <2>1. Answers(ChannelsAt[i], X, i, bits, data)
    <3>1. CASE Kinds[i] = ReliableOrdered
      <4>1. ChannelsAt[i] = ReliableChannels /\ X = ReliableEntries
        BY <3>1 DEF ChannelsAt
      <4> HIDE DEF X
      <4> QED
        BY <3>1, <4>1, ReliableAnswers
    <3>2. CASE Kinds[i] = UnreliableUnordered
      <4>1. ChannelsAt[i] = UnreliableChannels(Sizes) /\ X = UnreliableEntries(Sizes)
        BY <3>2, KindsAre DEF ChannelsAt
      <4> HIDE DEF X
      <4> QED
        BY <3>2, <4>1, UnreliableAnswers
    <3> QED
      BY <3>1, <3>2, KindsAre
  <2>2. X \subseteq Entries
    BY <1>2
  <2> HIDE DEF X, data
  <2>3. Answers(ChannelsAt[i], Entries, i, bits, data)
    BY <2>1, <2>2 DEF Answers
  <2> QED
    BY <2>3 DEF data
<1> QED
  BY <1>1, <1>3, KindsAre DEF Answering

-----------------------------------------------------------------------------
(* The inductive invariant.                                                  *)

\* Connections with a channel of its kind at every index.
MixedConnections ==
    {conn \in [channels : [ChannelIndexes -> Channels], error_level : ConnectionErrors] :
        \A i \in ChannelIndexes : conn.channels[i] \in ChannelsAt[i]}

\* No entry took more than was left before it.
WithinOffers(p) ==
    (OverflowChecks \/ Room(BufferBits)) /\ p.panic = NoPanic =>
        \A a \in DOMAIN p.data :
            SerializedBits(p.data[a], 0) <= Left(BufferBits, SubSeq(CountsOf(p.data), 1, a - 1))

\* What PacketBudget preserves.
IInv ==
    /\ connection \in MixedConnections
    /\ next_sequence \in SeqNum
    /\ packet.data \in Seq(Entries)
    /\ InOrder(packet.data, Len(Kinds))
    /\ WithinOffers(packet)
    /\ Room(BufferBits) /\ PacketBudget >= MessageHeaderBits => packet.panic = NoPanic

\* A channel of a kind stays one when its processor changes.
LEMMA ReliableWith ==
  ASSUME NEW c \in ReliableChannels
  PROVE  /\ c.kind = ReliableOrdered /\ IsReliable(c) /\ c.processor \in ReliableEnds
         /\ \A r \in ReliableEnds : [c EXCEPT !.processor = r] \in ReliableChannels
BY DEF ReliableChannels, IsReliable

\* A new connection.
LEMMA NewMixedConnection == NewConnection \in MixedConnections
<1>1. NewUnreliable \in UnreliableEnds(Sizes)
  BY DEF NewUnreliable, UnreliableEnds
<1>2. ASSUME NEW i \in ChannelIndexes
      PROVE  NewChannel(Kinds[i]) \in ChannelsAt[i] /\ NewChannel(Kinds[i]) \in Channels
  <2>1. CASE Kinds[i] = ReliableOrdered
    <3>1. NewChannel(Kinds[i]) \in ReliableChannels
      BY <2>1, NewEndGood, Strings DEF NewChannel, ReliableChannels
    <3> QED
      BY <2>1, <3>1 DEF ChannelsAt, Channels
  <2>2. CASE Kinds[i] = UnreliableUnordered
    <3>1. NewChannel(Kinds[i]) \in UnreliableChannels(Sizes)
      BY <1>1, <2>2, Strings DEF NewChannel, UnreliableChannels
    <3> QED
      BY <2>2, <3>1, Strings DEF ChannelsAt, Channels
  <2> QED
    BY <2>1, <2>2, KindsAre
<1> QED
  BY <1>2, Strings DEF NewConnection, MixedConnections

\* A connection with another channel, of the same kind.
LEMMA MixedWith ==
  ASSUME NEW conn \in MixedConnections, NEW i \in ChannelIndexes, NEW c \in ChannelsAt[i]
  PROVE  [conn EXCEPT !.channels[i] = c] \in MixedConnections
<1>1. c \in Channels
  BY KindsAre
<1> QED
  BY <1>1 DEF MixedConnections

\* send_message, where there is room.
LEMMA MixedSend ==
  ASSUME NEW conn \in MixedConnections, NEW i \in ChannelIndexes, NEW size \in Sizes
  PROVE  [conn EXCEPT !.channels[i] = ChannelSend(@, size)] \in MixedConnections
<1> DEFINE c == conn.channels[i]
<1>1. c \in ChannelsAt[i]
  BY DEF MixedConnections
<1> HIDE DEF c
<1>2. CASE Kinds[i] = ReliableOrdered
  <2>1. c \in ReliableChannels /\ ChannelsAt[i] = ReliableChannels
    BY <1>1, <1>2 DEF ChannelsAt
  <2>2. EnqueueMessage(c.processor, size) \in ReliableEnds
    BY <2>1, ReliableWith, EnqueueGood
  <2>3. [c EXCEPT !.processor = EnqueueMessage(c.processor, size)] \in ReliableChannels
    BY <2>1, <2>2, ReliableWith
  <2>4. [c EXCEPT !.error_level = "SendQueueFull"] \in ReliableChannels
    BY <2>1, Strings DEF ReliableChannels
  <2>5. ChannelSend(c, size) \in ReliableChannels
    BY <2>1, <2>3, <2>4, ReliableWith DEF ChannelSend
  <2>6. ChannelSend(c, size) \in ChannelsAt[i]
    BY <2>1, <2>5
  <2>7. [conn EXCEPT !.channels[i] = ChannelSend(c, size)] \in MixedConnections
    BY <2>6, MixedWith
  <2> QED
    BY <2>7 DEF c
<1>3. CASE Kinds[i] = UnreliableUnordered
  <2>1. c \in UnreliableChannels(Sizes) /\ ChannelsAt[i] = UnreliableChannels(Sizes)
    BY <1>1, <1>3, Strings DEF ChannelsAt
  <2>2. ChannelSend(c, size) \in ChannelsAt[i]
    BY <2>1, SendKeeps
  <2>3. [conn EXCEPT !.channels[i] = ChannelSend(c, size)] \in MixedConnections
    BY <2>2, MixedWith
  <2> QED
    BY <2>3 DEF c
<1> QED
  BY <1>2, <1>3, KindsAre

\* process_acks.
LEMMA MixedAck ==
  ASSUME NEW conn \in MixedConnections, NEW ack \in SeqNum
  PROVE  ProcessConnectionAck(conn, ack) \in MixedConnections
<1>1. ASSUME NEW i \in ChannelIndexes
      PROVE  /\ ChannelProcessAck(conn.channels[i], ack) \in ChannelsAt[i]
             /\ ChannelProcessAck(conn.channels[i], ack) \in Channels
  <2> DEFINE c == conn.channels[i]
  <2>1. c \in ChannelsAt[i]
    BY DEF MixedConnections
  <2> HIDE DEF c
  <2>2. CASE Kinds[i] = ReliableOrdered
    <3>1. c \in ReliableChannels /\ ChannelsAt[i] = ReliableChannels
      BY <2>1, <2>2 DEF ChannelsAt
    <3>2. ProcessAck(c.processor, ack) \in ReliableEnds
      BY <3>1, ReliableWith, AckGood
    <3>3. ChannelProcessAck(c, ack) = [c EXCEPT !.processor = ProcessAck(c.processor, ack)]
      BY <3>1, ReliableWith DEF ChannelProcessAck
    <3> QED
      BY <3>1, <3>2, <3>3, ReliableWith, KindsAre DEF c
  <2>3. CASE Kinds[i] = UnreliableUnordered
    <3>1. c \in UnreliableChannels(Sizes) /\ ChannelsAt[i] = UnreliableChannels(Sizes)
      BY <2>1, <2>3, Strings DEF ChannelsAt
    <3>2. ChannelProcessAck(c, ack) = [c EXCEPT !.processor = c.processor]
      BY <3>1, ChannelFields DEF ChannelProcessAck
    <3>3. ChannelProcessAck(c, ack) = c
      BY <3>1, <3>2 DEF UnreliableChannels
    <3> QED
      BY <2>1, <3>3, KindsAre DEF c
  <2> QED
    BY <2>2, <2>3, KindsAre
<1> QED
  BY <1>1 DEF ProcessConnectionAck, MixedConnections

\* advance_time.
LEMMA MixedAdvance ==
  ASSUME NEW conn \in MixedConnections
  PROVE  AdvanceConnection(conn) \in MixedConnections
<1> DEFINE last == Min(ErroredChannels(conn) \cup {Len(Kinds)})
           channels == [i \in ChannelIndexes |->
                            IF i <= last THEN AdvanceChannel(conn.channels[i])
                                         ELSE conn.channels[i]]
           level == IF ErroredChannels(conn) # {} THEN "Channel" ELSE conn.error_level
<1>1. ASSUME NEW i \in ChannelIndexes
      PROVE  /\ conn.channels[i] \in ChannelsAt[i]
             /\ AdvanceChannel(conn.channels[i]) \in ChannelsAt[i]
  <2> DEFINE c == conn.channels[i]
  <2>1. c \in ChannelsAt[i]
    BY DEF MixedConnections
  <2> HIDE DEF c
  <2>2. CASE Kinds[i] = ReliableOrdered
    <3>1. c \in ReliableChannels /\ ChannelsAt[i] = ReliableChannels
      BY <2>1, <2>2 DEF ChannelsAt
    <3>2. AdvanceReliable(c.processor) \in ReliableEnds
      BY <3>1, ReliableWith, AdvanceGood
    <3>3. AdvanceChannel(c) = [c EXCEPT !.processor = AdvanceReliable(c.processor)]
      BY <3>1, ReliableWith DEF AdvanceChannel
    <3> QED
      BY <3>1, <3>2, <3>3, ReliableWith DEF c
  <2>3. CASE Kinds[i] = UnreliableUnordered
    <3>1. c \in UnreliableChannels(Sizes) /\ ChannelsAt[i] = UnreliableChannels(Sizes)
      BY <2>1, <2>3, Strings DEF ChannelsAt
    <3> QED
      BY <3>1, AdvanceKeepsChannel DEF c
  <2> QED
    BY <2>2, <2>3, KindsAre
<1>2. level \in ConnectionErrors
  BY Strings DEF MixedConnections
<1>3. AdvanceConnection(conn) = [channels |-> channels, error_level |-> level]
  BY DEF AdvanceConnection
<1> HIDE DEF last, level
<1>4. \A i \in ChannelIndexes : channels[i] \in ChannelsAt[i]
  BY <1>1
<1>5. channels \in [ChannelIndexes -> Channels]
  BY <1>4, KindsAre
<1> HIDE DEF channels
<1> QED
  BY <1>2, <1>3, <1>4, <1>5 DEF MixedConnections

\* generate_packet of such a connection.
LEMMA MixedGenerate ==
  ASSUME Configured, NEW conn \in MixedConnections, NEW sequence \in SeqNum
  PROVE  LET generated == GeneratePacket(conn, sequence, BufferBits)
         IN  /\ generated \in BudgetStates(Channels, ChannelsAt, Entries)
             /\ AfterChannels(conn.channels, sequence, BufferBits, generated, Len(Kinds))
<1>1. BufferBits \in Int /\ BufferBits >= PacketHeaderBits
  BY BudgetAssumption DEF PacketHeaderBits
<1>2. Answering(Channels, ChannelsAt, Entries, sequence)
  BY AllAnswer DEF Configured
<1>3. /\ conn \in [channels : [ChannelIndexes -> Channels], error_level : ConnectionErrors]
      /\ \A i \in ChannelIndexes : conn.channels[i] \in ChannelsAt[i]
  BY DEF MixedConnections
<1> QED
  BY <1>1, <1>2, <1>3, GeneratePacketBudget DEF Configured

\* A packet with nothing in it.
LEMMA NothingGood ==
  /\ Nothing.data \in Seq(Entries) /\ InOrder(Nothing.data, Len(Kinds))
  /\ WithinOffers(Nothing) /\ Nothing.panic = NoPanic
BY DEF Nothing, InOrder, WithinOffers

\* The initial state.
LEMMA BudgetInit ==
  ASSUME Init
  PROVE  IInv
<1>1. 0 \in SeqNum
  BY ModulusAssumption DEF SeqNum
<1> QED
  BY <1>1, NewMixedConnection, NothingGood DEF Init, IInv

\* Every step.
LEMMA BudgetStep ==
  ASSUME Configured, IInv, [Next]_vars
  PROVE  IInv'
<1>1. ASSUME NEW i \in ChannelIndexes, NEW size \in Sizes, SendMessage(i, size)
      PROVE  IInv'
  <2>1. connection' \in MixedConnections
    BY <1>1, MixedSend DEF SendMessage, IInv
  <2> QED
    BY <1>1, <2>1, NothingGood DEF SendMessage, IInv
<1>2. CASE SendPackets
  <2> DEFINE g == GeneratePacket(connection, next_sequence, BufferBits)
  <2>1. connection \in MixedConnections /\ next_sequence \in SeqNum
    BY DEF IInv
  <2>2. /\ g \in BudgetStates(Channels, ChannelsAt, Entries)
        /\ AfterChannels(connection.channels, next_sequence, BufferBits, g, Len(Kinds))
    BY <2>1, MixedGenerate
  <2>3. /\ connection' = g.connection
        /\ packet'.data = g.data /\ packet'.panic = g.panic
        /\ next_sequence' = IF g.data = <<>> THEN next_sequence ELSE WrappingAdd(next_sequence, 1)
    BY <1>2 DEF SendPackets, SendGenerated
  <2> HIDE DEF g
  <2>4. g.connection \in MixedConnections /\ g.data \in Seq(Entries)
    BY <2>2, BudgetFields DEF MixedConnections
  <2>5. next_sequence' \in SeqNum
    BY <2>1, <2>3, NextNumber
  <2>6. InOrder(g.data, Len(Kinds))
    BY <2>2 DEF AfterChannels
  <2>7. WithinOffers(g)
    BY <2>2 DEF AfterChannels, Spent, WithinOffers
  <2>8. Room(BufferBits) /\ PacketBudget >= MessageHeaderBits => g.panic = NoPanic
    BY <2>2 DEF AfterChannels, Calm
  <2>9. WithinOffers(packet')
    BY <2>3, <2>7 DEF WithinOffers
  <2> QED
    BY <2>3, <2>4, <2>5, <2>6, <2>8, <2>9 DEF IInv, WithinOffers
<1>3. CASE ProcessAcks
  <2> DEFINE sequence == WrappingSub(next_sequence, 1)
  <2>1. connection \in MixedConnections /\ next_sequence \in SeqNum
    BY DEF IInv
  <2>2. sequence \in SeqNum
    <3>1. next_sequence - 1 \in Int
      BY <2>1, ModulusAssumption DEF SeqNum
    <3> QED
      BY <3>1, Wrapped DEF WrappingSub
  <2>3. connection' = ProcessConnectionAck(connection, sequence) /\ packet' = Nothing
        /\ next_sequence' = next_sequence
    BY <1>3 DEF ProcessAcks
  <2> HIDE DEF sequence
  <2>4. connection' \in MixedConnections
    BY <2>1, <2>2, <2>3, MixedAck
  <2> QED
    BY <2>1, <2>3, <2>4, NothingGood DEF IInv, WithinOffers
<1>4. CASE AdvanceTime
  <2>1. connection' \in MixedConnections
    BY <1>4, MixedAdvance DEF AdvanceTime, IInv
  <2> QED
    BY <1>4, <2>1, NothingGood DEF AdvanceTime, IInv, WithinOffers
<1>5. CASE UNCHANGED vars
  BY <1>5 DEF vars, IInv, WithinOffers
<1> QED
  BY <1>1, <1>2, <1>3, <1>4, <1>5 DEF Next

\* The inductive invariant: both kinds of channels hold what send_message and
\* process_ack leave them with, and a packet has its entries in the channels'
\* order, each within what generate_packet had left for it.
THEOREM BudgetInvariant ==
  ASSUME Configured
  PROVE  Spec => []IInv
<1>1. Init => IInv
  BY BudgetInit
<1>2. IInv /\ [Next]_vars => IInv'
  BY BudgetStep
<1> QED
  BY <1>1, <1>2, PTL DEF Spec

\* TypeOK: generate_packet has the channels in their order, each at most once and
\* with at least one message and no more than MaxPerPacket.
THEOREM BudgetTypeOK ==
  ASSUME Configured
  PROVE  Spec => []TypeOK
<1>1. IInv => TypeOK
  <2> SUFFICES ASSUME IInv PROVE TypeOK
    OBVIOUS
  <2>1. \A x \in Entries : Len(x.messages) \in 1 .. MaxPerPacket
    BY DEF Entries, ReliableEntries, UnreliableEntries
  <2>2. packet.data \in Seq(Entries)
    BY DEF IInv
  <2> DEFINE d == packet.data
  <2>3. \A k \in DOMAIN d : d[k] \in Entries
    <3>1. d \in Seq(Entries)
      BY <2>2
    <3> HIDE DEF d
    <3> QED
      BY <3>1
  <2> QED
    BY <2>1, <2>3 DEF IInv, TypeOK, InOrder
<1> QED
  BY <1>1, BudgetInvariant, PTL

\* ReservedNeverPanics: where the packet has room for every channel's budget and a
\* header each, generate_packet neither underflows nor fills its buffer, in
\* whatever mix of kinds and sizes the messages come.
THEOREM BudgetReservedNeverPanics ==
  ASSUME Configured, PacketBudget >= MessageHeaderBits
  PROVE  Spec => []ReservedNeverPanics
<1>1. IInv => ReservedNeverPanics
  BY DEF IInv, ReservedNeverPanics, Reserved, Room
<1> QED
  BY <1>1, BudgetInvariant, PTL

-----------------------------------------------------------------------------
(* The message that holds the others up.                                     *)

\* Its first id is this one.
BeginsWith(ids, id) == ids # <<>> /\ ids[1] = id

\* The larger of two numbers is no less than each.
LEMMA MaxOfTwo ==
  ASSUME NEW a \in Int, NEW b \in Int
  PROVE  Max({a, b}) \in Int /\ Max({a, b}) >= a /\ Max({a, b}) >= b
<1>1. \E x \in {a, b} : \A y \in {a, b} : x >= y
  <2>1. a <= b \/ b <= a
    OBVIOUS
  <2> QED
    BY <2>1
<1>2. Max({a, b}) \in {a, b} /\ \A y \in {a, b} : Max({a, b}) >= y
  BY <1>1 DEF Max
<1> QED
  BY <1>2

\* What OldestDue says of the bits.
LEMMA OldestFits ==
  ASSUME MeasuredMessages(Sizes), NEW r \in ReliableEnds, OldestDue(r)
  PROVE  LET bits == MeasuredBits(Get(r.message_send_queue, r.oldest_unacked_message_id).message)
         IN  /\ bits \in Nat
             /\ MessageHeaderBits + (bits + MessageIdBits) <= PacketBudget
             /\ PacketBudget - MessageHeaderBits >= GiveUpBits
<1> DEFINE q == r.message_send_queue
           id == r.oldest_unacked_message_id
           m == Get(q, id).message
           bits == MeasuredBits(m)
           most == Max({MessageIdBits + bits, GiveUpBits})
<1>1. Exists(q, id) /\ MessageHeaderBits + most <= PacketBudget
  BY DEF OldestDue
<1>2. Get(q, id) \in SendEntries
  BY <1>1, EndFields, ValidSizes, EntryThere
<1>3. m \in Sizes
  BY <1>2 DEF SendEntries
<1> HIDE DEF m
<1>4. bits \in Nat
  BY <1>3 DEF MeasuredMessages
<1> HIDE DEF bits
<1>5. most \in Int /\ most >= MessageIdBits + bits /\ most >= GiveUpBits
  <2>1. MessageIdBits + bits \in Int /\ GiveUpBits \in Int
    BY <1>4 DEF MessageIdBits, GiveUpBits
  <2> QED
    BY <2>1, MaxOfTwo
<1> HIDE DEF most
<1>6. PacketBudget \in Int
  BY ConfigAssumption
<1>7. MessageHeaderBits + (bits + MessageIdBits) <= PacketBudget
      /\ PacketBudget - MessageHeaderBits >= GiveUpBits
  BY <1>1, <1>4, <1>5, <1>6 DEF MessageHeaderBits, MessageIdBits, GiveUpBits
<1> QED
  BY <1>4, <1>7 DEF bits, m

\* The first turn takes it.
LEMMA FirstTurn ==
  ASSUME MeasuredMessages(Sizes), NEW r \in ReliableEnds, OldestDue(r)
  PROVE  BeginsWith(Consider(r, PacketBudget, [ids |-> <<>>, used |-> MessageHeaderBits],
                             r.oldest_unacked_message_id).ids,
                    r.oldest_unacked_message_id)
<1> DEFINE q == r.message_send_queue
           id == r.oldest_unacked_message_id
           entry == Get(q, id)
           bits == MeasuredBits(entry.message)
           base == [ids |-> <<>>, used |-> MessageHeaderBits]
<1>1. /\ bits \in Nat
      /\ MessageHeaderBits + (bits + MessageIdBits) <= PacketBudget
      /\ PacketBudget - MessageHeaderBits >= GiveUpBits
  BY OldestFits
<1>2. Exists(q, id) /\ entry.waited >= ResendTicks
  BY DEF OldestDue
<1>3. Len(<<>>) < MaxPerPacket
  BY ConfigAssumption
<1>4. base.ids = <<>> /\ base.used = MessageHeaderBits
  OBVIOUS
<1> HIDE DEF base, entry
<1>5. Consider(r, PacketBudget, base, id).ids = Append(<<>>, id)
  BY <1>1, <1>2, <1>3, <1>4 DEF Consider, entry
<1>6. id \in SeqNum
  BY EndFields
<1> HIDE DEF id
<1>7. Append(<<>>, id) # <<>> /\ Append(<<>>, id)[1] = id
  OBVIOUS
<1> QED
  BY <1>5, <1>7 DEF BeginsWith, base, id

\* No later turn takes it away.
LEMMA LaterTurn ==
  ASSUME NEW r, NEW available, NEW ids \in Seq(SeqNum), NEW d, d.ids = ids,
         NEW id \in SeqNum, NEW first, BeginsWith(ids, first)
  PROVE  BeginsWith(Consider(r, available, d, id).ids, first)
<1>1. Append(ids, id) # <<>> /\ Append(ids, id)[1] = ids[1]
  BY DEF BeginsWith
<1>2. Consider(r, available, d, id).ids = ids \/ Consider(r, available, d, id).ids = Append(ids, id)
  BY DEF Consider
<1> QED
  BY <1>1, <1>2 DEF BeginsWith

\* A reliable channel that is offered its budget sends its oldest message first.
LEMMA OldestChosen ==
  ASSUME MeasuredMessages(Sizes), NEW r \in ReliableEnds, OldestDue(r),
         NEW i \in ChannelIndexes, Kinds[i] = ReliableOrdered,
         NEW bits \in Int, bits >= PacketBudget, NEW sequence \in SeqNum
  PROVE  /\ PacketData(r, sequence, bits).bits # 0
         /\ PacketData(r, sequence, bits).messages[1].id = r.oldest_unacked_message_id
<1> DEFINE available == Min({PacketBudget, bits})
           base == [ids |-> <<>>, used |-> MessageHeaderBits]
           D == GoodChoices(r, i, available)
           first == r.oldest_unacked_message_id
           c == Candidates(r)
           n == Len(c)
           begun == {d \in D : BeginsWith(d.ids, first)}
           Inv == [k \in 0 .. n |-> IF k = 0 THEN {base} ELSE begun]
           chosen == GetMessagesToSend(r, bits)
<1>1. available \in Int /\ available = PacketBudget
  BY AvailableBits
<1>2. base \in D
  BY NothingChosen
<1>3. c \in Seq(SeqNum) /\ n \in Nat /\ n >= 1 /\ c[1] = first /\ \A k \in 1 .. n : c[k] \in SeqNum
  <2>1. c \in Seq(SeqNum) /\ n \in Nat /\ n >= 1 /\ c[1] = first
    BY CandidateIds
  <2> HIDE DEF c
  <2> QED
    BY <2>1
<1>4. BeginsWith(Consider(r, available, base, first).ids, first)
  BY <1>1, FirstTurn
<1> HIDE DEF base, available, c, n
<1>5. \A d \in D, id \in SeqNum : Consider(r, available, d, id) \in D
  BY <1>1, ConsiderCounts
<1>6. \A d \in D : d.ids \in Seq(SeqNum)
  BY DEF GoodChoices
<1>7. base \in Inv[0] /\ Inv[n] = begun
  BY <1>3
<1> HIDE DEF D
<1>8. ASSUME NEW k \in 1 .. n, NEW d \in D, d \in Inv[k - 1]
      PROVE  Consider(r, available, d, c[k]) \in Inv[k]
  <2>1. Consider(r, available, d, c[k]) \in D
    BY <1>3, <1>5
  <2>2. /\ k \in 0 .. n /\ k # 0 /\ k - 1 \in 0 .. n /\ c[k] \in SeqNum
        /\ k = 1 \/ k - 1 # 0
    BY <1>3
  <2>3. BeginsWith(Consider(r, available, d, c[k]).ids, first)
    <3>1. CASE k = 1
      <4>1. k - 1 = 0
        BY <3>1
      <4>2. d = base
        BY <1>8, <2>2, <4>1
      <4> QED
        BY <1>3, <1>4, <3>1, <4>2
    <3>2. CASE k - 1 # 0
      <4>1. BeginsWith(d.ids, first)
        BY <1>8, <2>2, <3>2
      <4> HIDE DEF first
      <4> QED
        BY <1>6, <2>2, <4>1, LaterTurn
    <3> QED
      BY <2>2, <3>1, <3>2
  <2> QED
    BY <2>1, <2>2, <2>3
<1>9. Choosing!Fold(r, available, base, c) \in Inv[n]
  <2> HIDE DEF Inv
  <2> QED
    BY <1>2, <1>3, <1>5, <1>7, <1>8, Choosing!FoldKeeps DEF n
<1>10. chosen \in begun
  BY <1>7, <1>9, ChoosingIs DEF available, base, c
<1> HIDE DEF chosen, Inv
<1>11. BeginsWith(chosen.ids, first) /\ chosen.ids \in Seq(SeqNum)
       /\ chosen.used >= MessageHeaderBits /\ chosen.used \in Nat
  BY <1>6, <1>10 DEF D, GoodChoices
<1>12. PacketData(r, sequence, bits) = PackMessages(r, sequence, chosen.ids, chosen.used)
  BY <1>11 DEF PacketData, chosen, OldestDue, BeginsWith
<1> DEFINE ids == chosen.ids
           used == chosen.used
<1> HIDE DEF ids, used
<1>13. /\ PacketData(r, sequence, bits).messages = Chosen(r.message_send_queue, ids)
       /\ PacketData(r, sequence, bits).bits = used
  BY <1>11, <1>12, PackedGood DEF ids, used
<1>14. Chosen(r.message_send_queue, ids)[1].id = first
  <2>1. ids \in Seq(SeqNum) /\ ids # <<>> /\ ids[1] = first
    BY <1>11 DEF BeginsWith, ids
  <2>2. 1 \in DOMAIN ids
    BY <2>1
  <2> QED
    BY <2>1, <2>2 DEF Chosen
<1> QED
  BY <1>11, <1>13, <1>14 DEF MessageHeaderBits, used

\* A packet of such a connection.
LEMMA OldestInPacket ==
  ASSUME Configured, NEW conn \in MixedConnections, NEW sequence \in SeqNum, Reserved,
         NEW i \in ChannelIndexes, Kinds[i] = ReliableOrdered,
         OldestDue(conn.channels[i].processor)
  PROVE  \E entry \in ToSet(GeneratePacket(conn, sequence, BufferBits).data) :
             /\ entry.channel_index = i
             /\ entry.messages[1].id = conn.channels[i].processor.oldest_unacked_message_id
<1> DEFINE c == conn.channels[i]
           r == c.processor
           g == GeneratePacket(conn, sequence, BufferBits)
<1>1. MeasuredMessages(Sizes)
  BY DEF Configured
<1>2. c \in ReliableChannels
  BY DEF MixedConnections, ChannelsAt
<1>3. r \in ReliableEnds /\ IsReliable(c)
  BY <1>2, ReliableWith
<1>4. AfterChannels(conn.channels, sequence, BufferBits, g, Len(Kinds))
  BY MixedGenerate
<1>5. PacketBudget >= MessageHeaderBits
  <2> HIDE DEF r
  <2>1. PacketBudget - MessageHeaderBits >= GiveUpBits
    BY <1>1, <1>3, OldestFits DEF r
  <2> QED
    BY <2>1, ConfigAssumption DEF MessageHeaderBits, GiveUpBits
<1>6. Calm(conn.channels, BufferBits)
  BY <1>5 DEF Calm, Room, Reserved
<1>7. Offers(conn.channels, sequence, g.data, Len(Kinds))
  BY <1>4, <1>6 DEF AfterChannels
<1>8. i <= Len(Kinds)
  BY Indexes
<1>9. PICK bits \in Int :
         LET answer == ChannelPacketData(c, sequence, bits)
         IN  /\ bits >= PacketBudget
             /\ answer.bits # 0 => \E a \in DOMAIN g.data : g.data[a] = EntryOf(i, answer.messages)
  BY <1>7, <1>8 DEF Offers
<1> DEFINE u == PacketData(r, sequence, bits)
           answer == ChannelPacketData(c, sequence, bits)
<1>10. u.bits # 0 /\ u.messages[1].id = r.oldest_unacked_message_id
  <2> HIDE DEF r
  <2>1. OldestDue(r)
    BY DEF r
  <2> QED
    BY <1>1, <1>3, <1>9, <2>1, OldestChosen
<1>11. answer.bits = u.bits /\ answer.messages = u.messages
  <2>1. PacketDataIs(i, bits, u)
    BY <1>1, <1>3, <1>9, PacketDataGood
  <2>2. answer = [u EXCEPT !.channel = [c EXCEPT !.processor = u.channel]]
    BY <1>3 DEF ChannelPacketData
  <2> HIDE DEF u, answer
  <2> QED
    BY <2>1, <2>2 DEF PacketDataIs
<1> HIDE DEF g, u, answer, r, c
<1>12. PICK a \in DOMAIN g.data : g.data[a] = EntryOf(i, answer.messages)
  BY <1>9, <1>10, <1>11 DEF answer
<1> DEFINE e == EntryOf(i, answer.messages)
<1>13. e \in ToSet(g.data)
  BY <1>12 DEF ToSet
<1>14. e.channel_index = i /\ e.messages[1].id = r.oldest_unacked_message_id
  BY <1>10, <1>11 DEF EntryOf
<1> QED
  BY <1>13, <1>14 DEF g, r, c

\* OldestGoesFirst: get_messages_to_send puts the oldest unacknowledged message
\* first when it is due and fits its channel's budget, whatever the channels
\* before have taken of a packet with room for all.
THEOREM BudgetOldestGoesFirst ==
  ASSUME Configured
  PROVE  Spec => OldestGoesFirst
<1>1. ASSUME IInv, [Next]_vars
      PROVE  [SendPackets /\ Reserved =>
                \A i \in ChannelIndexes :
                   LET r == connection.channels[i].processor
                   IN  Kinds[i] = ReliableOrdered /\ OldestDue(r) =>
                           \E entry \in ToSet(packet'.data) :
                               /\ entry.channel_index = i
                               /\ entry.messages[1].id = r.oldest_unacked_message_id]_vars
  <2> SUFFICES ASSUME SendPackets, Reserved, NEW i \in ChannelIndexes,
                      Kinds[i] = ReliableOrdered,
                      OldestDue(connection.channels[i].processor)
               PROVE  \E entry \in ToSet(packet'.data) :
                          /\ entry.channel_index = i
                          /\ entry.messages[1].id =
                                connection.channels[i].processor.oldest_unacked_message_id
    OBVIOUS
  <2>1. connection \in MixedConnections /\ next_sequence \in SeqNum
    BY <1>1 DEF IInv
  <2>2. packet'.data = GeneratePacket(connection, next_sequence, BufferBits).data
    BY DEF SendPackets, SendGenerated
  <2> QED
    BY <2>1, <2>2, OldestInPacket
<1>2. IInv /\ [Next]_vars =>
        [SendPackets /\ Reserved =>
           \A i \in ChannelIndexes :
              LET r == connection.channels[i].processor
              IN  Kinds[i] = ReliableOrdered /\ OldestDue(r) =>
                      \E entry \in ToSet(packet'.data) :
                          /\ entry.channel_index = i
                          /\ entry.messages[1].id = r.oldest_unacked_message_id]_vars
  BY <1>1
<1> QED
  BY <1>2, BudgetInvariant, PTL DEF Spec, OldestGoesFirst

-----------------------------------------------------------------------------
(* What is written.                                                          *)

\* One sequence after another, as an operator FoldTheory takes.
JoinOf(unused, none, s, t) == s \o t

\* FlattenSeq's loop.
Joining == INSTANCE FoldTheory WITH Op <- JoinOf

\* The first k of these sequences, one after the other, for every k.
Joined(S, seqs, g) ==
    /\ g \in [0 .. Len(seqs) -> Seq(S)]
    /\ g[0] = <<>>
    /\ \A k \in 1 .. Len(seqs) : g[k] = g[k - 1] \o seqs[k]
    /\ FlattenSeq(seqs) = g[Len(seqs)]

\* FlattenSeq joins them one by one.
LEMMA FlattenJoins ==
  ASSUME NEW S, NEW seqs \in Seq(Seq(S))
  PROVE  \E g : Joined(S, seqs, g)
<1> DEFINE n == Len(seqs)
           SS == Seq(S)
<1>1. n \in Nat /\ DOMAIN seqs = 1 .. n /\ seqs \in Seq(SS)
  OBVIOUS
<1>2. <<>> \in SS /\ \A s \in SS, t \in SS : JoinOf(0, 0, s, t) \in SS
  BY DEF JoinOf
<1> HIDE DEF SS
<1>3. \A k \in 1 .. n : seqs[k] \in SS
  BY <1>1
<1>4. PICK g : Joining!Runs(0, 0, SS, <<>>, seqs, g)
  BY <1>1, <1>2, Joining!FoldRuns
<1>5. /\ g \in [0 .. n -> SS] /\ g[0] = <<>>
      /\ \A k \in 1 .. n : g[k] = g[k - 1] \o seqs[k]
  BY <1>4 DEF Joining!Runs, JoinOf
<1>6. CASE n = 0
  <2>1. seqs = <<>>
    BY <1>1, <1>6
  <2>2. FlattenSeq(seqs) = g[n]
    BY <1>5, <1>6, <2>1 DEF FlattenSeq
  <2> QED
    BY <1>5, <2>2 DEF Joined, SS
<1>7. CASE n # 0
  <2> DEFINE eq(f) == f = [i \in 1 .. n |-> IF i = 1 THEN seqs[i] ELSE f[i - 1] \o seqs[i]]
             it == CHOOSE f : eq(f)
             h == [i \in 1 .. n |-> g[i]]
  <2>1. FlattenSeq(seqs) = it[n]
    BY <1>7 DEF FlattenSeq
  <2>2. eq(h)
    <3>1. g[1] = seqs[1]
      <4>1. 1 \in 1 .. n /\ 1 - 1 = 0
        BY <1>1, <1>7
      <4>2. g[1] = <<>> \o seqs[1] /\ seqs[1] \in SS
        BY <1>3, <1>5, <4>1
      <4> DEFINE e == seqs[1]
      <4> HIDE DEF e
      <4>3. e \in Seq(S)
        BY <4>2 DEF SS, e
      <4>4. <<>> \o e = e
        BY <4>3
      <4> QED
        BY <4>2, <4>4 DEF e
    <3>2. \A i \in 1 .. n : i # 1 => i - 1 \in 1 .. n
      BY <1>1
    <3> QED
      BY <1>5, <3>1, <3>2
  <2>3. eq(it)
    <3> HIDE DEF eq
    <3> QED
      BY <2>2
  <2> HIDE DEF it
  <2>4. \A i \in 1 .. n : it[i] = IF i = 1 THEN seqs[i] ELSE it[i - 1] \o seqs[i]
    BY <2>3
  <2>5. \A i \in 1 .. n : h[i] = IF i = 1 THEN seqs[i] ELSE h[i - 1] \o seqs[i]
    BY <2>2
  <2> HIDE DEF h, eq
  <2> DEFINE T == {i \in Nat : i + 1 <= n => it[i + 1] = h[i + 1]}
  <2>6. 0 \in T
    BY <1>1, <2>4, <2>5
  <2>7. ASSUME NEW i \in Nat, i \in T PROVE i + 1 \in T
    <3> SUFFICES ASSUME (i + 1) + 1 <= n PROVE it[(i + 1) + 1] = h[(i + 1) + 1]
      OBVIOUS
    <3>1. /\ (i + 1) + 1 \in 1 .. n /\ (i + 1) + 1 # 1 /\ ((i + 1) + 1) - 1 = i + 1
          /\ i + 1 <= n
      BY <1>1
    <3>2. it[i + 1] = h[i + 1]
      BY <2>7, <3>1
    <3> QED
      BY <2>4, <2>5, <3>1, <3>2
  <2>8. n - 1 \in T
    <3>1. n - 1 \in Nat
      BY <1>1, <1>7
    <3> HIDE DEF T
    <3> QED
      BY <2>6, <2>7, <3>1, Joining!SetInduction
  <2>9. it[n] = h[n]
    <3>1. (n - 1) + 1 = n
      BY <1>1
    <3> QED
      BY <2>8, <3>1
  <2>10. FlattenSeq(seqs) = g[n]
    BY <1>1, <1>7, <2>1, <2>9 DEF h
  <2> QED
    BY <1>5, <2>10 DEF Joined, SS
<1> QED
  BY <1>6, <1>7

\* Where the sequences are in what FlattenSeq makes of them: the k-th one begins
\* after at[k - 1].
Pieces(S, seqs, at) ==
    /\ at \in [0 .. Len(seqs) -> Nat]
    /\ at[0] = 0
    /\ \A k \in 1 .. Len(seqs) : at[k] = at[k - 1] + Len(seqs[k])
    /\ FlattenSeq(seqs) \in Seq(S) /\ Len(FlattenSeq(seqs)) = at[Len(seqs)]
    /\ \A k \in 1 .. Len(seqs) : at[k] <= at[Len(seqs)]
    /\ \A k \in 1 .. Len(seqs) : \A j \in 1 .. Len(seqs[k]) :
          FlattenSeq(seqs)[at[k - 1] + j] = seqs[k][j]

\* The elements of one sequence and then those of another.
Concatenated(s, t, l) ==
    /\ Len(l) = Len(s) + Len(t)
    /\ \A j \in 1 .. Len(s) : l[j] = s[j]
    /\ \A j \in 1 .. Len(t) : l[Len(s) + j] = t[j]

\* What one sequence after another holds.
LEMMA ConcatElements ==
  ASSUME NEW S, NEW s \in Seq(S), NEW t \in Seq(S)
  PROVE  s \o t \in Seq(S) /\ Concatenated(s, t, s \o t)
BY DEF Concatenated

\* It holds them in their places.
LEMMA FlattenPieces ==
  ASSUME NEW S, NEW seqs \in Seq(Seq(S))
  PROVE  \E at : Pieces(S, seqs, at)
<1> DEFINE n == Len(seqs)
           SS == Seq(S)
<1>1. n \in Nat /\ DOMAIN seqs = 1 .. n /\ \A k \in 1 .. n : seqs[k] \in SS
  <2>1. seqs \in Seq(SS)
    OBVIOUS
  <2> HIDE DEF SS
  <2> QED
    BY <2>1
<1>2. PICK g : Joined(S, seqs, g)
  BY FlattenJoins
<1> DEFINE at == [k \in 0 .. n |-> Len(g[k])]
<1>3. /\ \A k \in 0 .. n : g[k] \in SS /\ at[k] = Len(g[k])
      /\ g[0] = <<>> /\ FlattenSeq(seqs) = g[n]
      /\ \A k \in 1 .. n : g[k] = g[k - 1] \o seqs[k]
  BY <1>2 DEF Joined
<1>4. \A s \in SS : Len(s) \in Nat
  OBVIOUS
<1>5. at \in [0 .. n -> Nat]
  BY <1>3, <1>4
<1>6. at[0] = 0
  <2>1. 0 \in 0 .. n
    BY <1>1
  <2> QED
    BY <1>3, <2>1
<1> HIDE DEF at
<1>7. ASSUME NEW k \in 1 .. n
      PROVE  /\ at[k] = at[k - 1] + Len(seqs[k])
             /\ \A j \in 1 .. at[k - 1] : g[k][j] = g[k - 1][j]
             /\ \A j \in 1 .. Len(seqs[k]) : g[k][at[k - 1] + j] = seqs[k][j]
  <2> DEFINE s == g[k - 1]
             t == seqs[k]
  <2>1. k \in 0 .. n /\ k - 1 \in 0 .. n
    BY <1>1
  <2>2. s \in Seq(S) /\ t \in Seq(S) /\ g[k] = s \o t /\ at[k] = Len(g[k]) /\ at[k - 1] = Len(s)
    BY <1>1, <1>3, <2>1
  <2> HIDE DEF s, t
  <2>3. /\ Len(s \o t) = Len(s) + Len(t)
        /\ \A j \in 1 .. Len(s) : (s \o t)[j] = s[j]
        /\ \A j \in 1 .. Len(t) : (s \o t)[Len(s) + j] = t[j]
    BY <2>2, ConcatElements DEF Concatenated
  <2>4. /\ at[k] = at[k - 1] + Len(t)
        /\ \A j \in 1 .. at[k - 1] : g[k][j] = s[j]
        /\ \A j \in 1 .. Len(t) : g[k][at[k - 1] + j] = t[j]
    BY <2>2, <2>3
  <2> QED
    BY <2>4 DEF s, t
<1> DEFINE U(m) == {j \in Nat : m + j <= n =>
                       /\ at[m] <= at[m + j]
                       /\ \A i \in 1 .. at[m] : g[m + j][i] = g[m][i]}
<1>8. ASSUME NEW m \in 0 .. n PROVE n - m \in U(m)
  <2>1. 0 \in U(m)
    <3>1. m + 0 = m /\ at[m] \in Nat
      BY <1>5
    <3> QED
      BY <3>1
  <2>2. ASSUME NEW j \in Nat, j \in U(m) PROVE j + 1 \in U(m)
    <3> SUFFICES ASSUME m + (j + 1) <= n
                 PROVE  /\ at[m] <= at[m + (j + 1)]
                        /\ \A i \in 1 .. at[m] : g[m + (j + 1)][i] = g[m][i]
      OBVIOUS
    <3> DEFINE k == m + (j + 1)
    <3>1. k \in 1 .. n /\ k - 1 = m + j /\ m + j <= n /\ m + j \in 0 .. n
      BY <1>1
    <3>2. at[m] <= at[m + j] /\ \A i \in 1 .. at[m] : g[m + j][i] = g[m][i]
      BY <2>2, <3>1
    <3> HIDE DEF k
    <3>3. /\ at[k] = at[m + j] + Len(seqs[k])
          /\ \A i \in 1 .. at[m + j] : g[k][i] = g[m + j][i]
      BY <1>7, <3>1
    <3>4. Len(seqs[k]) \in Nat /\ at[m + j] \in Nat /\ at[m] \in Nat
      BY <1>1, <1>4, <1>5, <3>1
    <3> DEFINE a == at[m]
               b == at[m + j]
               l == Len(seqs[k])
    <3>5. a <= b + l /\ \A i \in 1 .. a : i \in 1 .. b
      <4>1. a \in Nat /\ b \in Nat /\ l \in Nat /\ a <= b
        BY <3>2, <3>4
      <4> HIDE DEF a, b, l
      <4> QED
        BY <4>1
    <3>6. at[m] <= at[k] /\ \A i \in 1 .. at[m] : g[k][i] = g[m][i]
      BY <3>2, <3>3, <3>5
    <3> QED
      BY <3>6 DEF k
  <2>3. n - m \in Nat
    BY <1>1
  <2> HIDE DEF U
  <2> QED
    BY <2>1, <2>2, <2>3, Joining!SetInduction
<1>9. \A m \in 0 .. n : at[m] <= at[n] /\ \A i \in 1 .. at[m] : g[n][i] = g[m][i]
  <2> TAKE m \in 0 .. n
  <2>1. m + (n - m) = n /\ n <= n
    BY <1>1
  <2>2. n - m \in U(m)
    BY <1>8
  <2> QED
    BY <2>1, <2>2
<1> HIDE DEF U
<1>10. ASSUME NEW k \in 1 .. n, NEW j \in 1 .. Len(seqs[k])
       PROVE  g[n][at[k - 1] + j] = seqs[k][j]
  <2>1. k \in 0 .. n /\ k - 1 \in 0 .. n
    BY <1>1
  <2> DEFINE a == at[k - 1]
             b == at[k]
             l == Len(seqs[k])
             i == a + j
  <2>2. a \in Nat /\ l \in Nat /\ b = a + l /\ j \in 1 .. l
    BY <1>1, <1>4, <1>5, <1>7, <2>1
  <2>3. i \in 1 .. b
    <3> HIDE DEF a, b, l
    <3> QED
      BY <2>2
  <2>4. g[n][i] = g[k][i]
    <3> HIDE DEF i
    <3> QED
      BY <1>9, <2>1, <2>3
  <2> QED
    BY <1>7, <2>4
<1>11. g[n] \in Seq(S) /\ Len(g[n]) = at[n]
  <2>1. n \in 0 .. n
    BY <1>1
  <2> QED
    BY <1>3, <2>1
<1>12. \A k \in 1 .. n : at[k] <= at[n]
  <2>1. \A k \in 1 .. n : k \in 0 .. n
    BY <1>1
  <2> QED
    BY <1>9, <2>1
<1>13. Pieces(S, seqs, at)
  BY <1>3, <1>5, <1>6, <1>7, <1>10, <1>11, <1>12 DEF Pieces
<1> QED
  BY <1>13

-----------------------------------------------------------------------------
(* Where everything is in the stream.                                        *)

\* Tokens of numbers.
NumberTokens == [type : {"u16", "u8", "check"}, value : Nat]
\* What a stream is made of.
Tokens == NumberTokens \cup [type : {"message"}, value : Sizes]

\* The tokens of a check value.
Gap(check) == Len(Check(check))
\* Those of a message and its check value.
Stride(check) == Len(<<Misread>> \o Check(check))

\* The tokens of an entry before its messages: the header and the ids.
BeforeBodies(x, check) ==
    3 + (IF Kinds[x.channel_index] = ReliableOrdered THEN Len(x.messages) + Gap(check) ELSE 0)

\* The k-th message of an entry, without its id.
BodyOf(x, k) ==
    IF Kinds[x.channel_index] = ReliableOrdered THEN x.messages[k].message ELSE x.messages[k]

\* Which token of an entry is its k-th message.
BodyAt(x, k, check) == BeforeBodies(x, check) + (k - 1) * Stride(check) + 1

\* These tokens are the entry: every one is where the reader expects it.
LaidOut(x, check, s) ==
    /\ s \in Seq(Tokens)
    /\ Len(s) = BeforeBodies(x, check) + Len(x.messages) * Stride(check)
    /\ s[1] = U16(x.channel_index) /\ s[2] = U8(1) /\ s[3] = U8(Len(x.messages) - 1)
    /\ \A k \in 1 .. Len(x.messages) : s[BodyAt(x, k, check)] = Body(BodyOf(x, k))
    /\ Kinds[x.channel_index] = ReliableOrdered =>
          \A k \in 1 .. Len(x.messages) : s[3 + k] = U16(x.messages[k].id)

\* Tokens, and their bits.
LEMMA TokensAre ==
  /\ \A n \in Nat : /\ U16(n) \in Tokens /\ BitsOf(U16(n)) = 16
                    /\ U8(n) \in Tokens /\ BitsOf(U8(n)) = 8
  /\ \A m \in Sizes : Body(m) \in Tokens /\ BitsOf(Body(m)) = MeasuredBits(m)
<1>1. ASSUME NEW n \in Nat PROVE n % CountModulus \in Nat
  BY FormatAssumption
<1>2. /\ \A n \in Nat : U16(n) \in Tokens /\ U8(n) \in Tokens
      /\ \A m \in Sizes : Body(m) \in Tokens
  BY <1>1 DEF Tokens, NumberTokens, U16, U8, Body
<1>3. /\ \A n : BitsOf(U16(n)) = 16 /\ BitsOf(U8(n)) = 8
      /\ \A m : BitsOf(Body(m)) = MeasuredBits(m)
  BY DEF BitsOf, U16, U8, Body
<1> QED
  BY <1>2, <1>3

\* Check values.
LEMMA Gaps ==
  ASSUME NEW check \in {0, 32}
  PROVE  /\ Check(check) \in Seq(Tokens)
         /\ Gap(check) \in Nat /\ Stride(check) \in Nat /\ Stride(check) = 1 + Gap(check)
         /\ check = 0 => Check(check) = <<>> /\ Gap(check) = 0 /\ Stride(check) = 1
<1>1. CASE check = 0
  <2>1. Check(check) = <<>> /\ <<Misread>> \o <<>> = <<Misread>> /\ Len(<<Misread>>) = 1
    BY <1>1 DEF Check
  <2>2. <<>> \in Seq(Tokens) /\ Len(<<>>) = 0
    OBVIOUS
  <2> QED
    BY <2>1, <2>2 DEF Gap, Stride
<1>2. CASE check # 0
  <2> DEFINE v == [type |-> "check", value |-> 0]
  <2>1. Check(check) = <<v>>
    BY <1>2 DEF Check
  <2>2. v \in Tokens
    BY DEF Tokens, NumberTokens
  <2> HIDE DEF v
  <2>3. <<v>> \in Seq(Tokens) /\ Len(<<v>>) = 1
    BY <2>2
  <2>4. Len(<<Misread>> \o <<v>>) = 2
    OBVIOUS
  <2> QED
    BY <1>2, <2>1, <2>3, <2>4 DEF Gap, Stride
<1> QED
  BY <1>1, <1>2

\* Messages and their check values, one after the other.
LEMMA MessagesLaidOut ==
  ASSUME NEW bodies \in Seq(Sizes), NEW check \in {0, 32}
  PROVE  /\ SerializeMessages(bodies, check) \in Seq(Tokens)
         /\ Len(SerializeMessages(bodies, check)) = Len(bodies) * Stride(check)
         /\ \A k \in 1 .. Len(bodies) :
               SerializeMessages(bodies, check)[(k - 1) * Stride(check) + 1] = Body(bodies[k])
<1> DEFINE n == Len(bodies)
           c == Check(check)
           d == Stride(check)
           one(k) == <<Body(bodies[k])>> \o c
           seqs == [k \in DOMAIN bodies |-> one(k)]
           all == SerializeMessages(bodies, check)
<1>1. n \in Nat /\ DOMAIN bodies = 1 .. n /\ \A k \in 1 .. n : bodies[k] \in Sizes
  OBVIOUS
<1>2. c \in Seq(Tokens) /\ d \in Nat /\ d = 1 + Len(c) /\ Len(c) \in Nat
  BY Gaps DEF Gap
<1>3. all = FlattenSeq(seqs)
  BY DEF SerializeMessages
<1> HIDE DEF n, c, d, all
<1>4. ASSUME NEW k \in 1 .. n
      PROVE  one(k) \in Seq(Tokens) /\ Len(one(k)) = d /\ one(k)[1] = Body(bodies[k]) /\ 1 \in 1 .. d
  <2> DEFINE b == Body(bodies[k])
  <2>1. b \in Tokens
    BY <1>1, TokensAre
  <2> HIDE DEF b
  <2>2. /\ <<b>> \o c \in Seq(Tokens) /\ Len(<<b>> \o c) = 1 + Len(c)
        /\ (<<b>> \o c)[1] = b
    BY <1>2, <2>1
  <2>3. 1 \in 1 .. d
    BY <1>2
  <2> QED
    BY <1>2, <2>2, <2>3 DEF b
<1> DEFINE SS == Seq(Tokens)
<1>5. /\ seqs \in Seq(SS) /\ Len(seqs) = n
      /\ \A k \in 1 .. n : Len(seqs[k]) = d /\ seqs[k][1] = Body(bodies[k])
  <2>1. \A k \in 1 .. n : one(k) \in SS
    BY <1>4
  <2> HIDE DEF SS, one
  <2>2. seqs \in [1 .. n -> SS] /\ \A k \in 1 .. n : seqs[k] = one(k)
    BY <1>1, <2>1
  <2> HIDE DEF seqs
  <2>3. seqs \in Seq(SS) /\ Len(seqs) = n
    BY <1>1, <2>2
  <2> QED
    BY <1>4, <2>2, <2>3 DEF one
<1> HIDE DEF seqs, one
<1>6. PICK at : Pieces(Tokens, seqs, at)
  BY <1>5, FlattenPieces DEF SS
<1>7. /\ at[0] = 0 /\ all \in Seq(Tokens) /\ Len(all) = at[n]
      /\ \A k \in 1 .. n : at[k] = at[k - 1] + d
      /\ \A k \in 1 .. n : \A j \in 1 .. d : all[at[k - 1] + j] = seqs[k][j]
  BY <1>3, <1>5, <1>6 DEF Pieces
<1> DEFINE T == {k \in Nat : k <= n => at[k] = k * d}
<1>8. 0 \in T
  BY <1>2, <1>7
<1>9. ASSUME NEW k \in Nat, k \in T PROVE k + 1 \in T
  <2> SUFFICES ASSUME k + 1 <= n PROVE at[k + 1] = (k + 1) * d
    OBVIOUS
  <2>1. k + 1 \in 1 .. n /\ (k + 1) - 1 = k /\ k <= n
    BY <1>1
  <2>2. at[k + 1] = at[k] + d /\ at[k] = k * d
    BY <1>7, <1>9, <2>1
  <2>3. (k + 1) * d = k * d + d
    BY <1>2, BudgetsLeft
  <2> QED
    BY <2>2, <2>3
<1> HIDE DEF T
<1>10. \A k \in Nat : k \in T
  BY <1>8, <1>9, Joining!SetInduction
<1>11. \A k \in 0 .. n : at[k] = k * d
  BY <1>1, <1>10 DEF T
<1>12. Len(all) = n * d
  <2>1. n \in 0 .. n
    BY <1>1
  <2> QED
    BY <1>7, <1>11, <2>1
<1>13. \A k \in 1 .. n : all[(k - 1) * d + 1] = Body(bodies[k])
  <2> TAKE k \in 1 .. n
  <2>1. k - 1 \in 0 .. n /\ 1 \in 1 .. d
    BY <1>1, <1>4
  <2>2. all[at[k - 1] + 1] = seqs[k][1] /\ at[k - 1] = (k - 1) * d
    BY <1>7, <1>11, <2>1
  <2> QED
    BY <1>5, <2>2
<1> QED
  BY <1>7, <1>12, <1>13 DEF n, d, all

\* The entries are those of one kind or the other.
LEMMA EntryKinds ==
  ASSUME NEW x \in Entries
  PROVE  /\ x.channel_index \in ChannelIndexes /\ x.channel_index \in Nat
         /\ Len(x.messages) \in 1 .. MaxPerPacket /\ DOMAIN x.messages = 1 .. Len(x.messages)
         /\ x = [channel_index |-> x.channel_index, messages |-> x.messages]
         /\ \/ Kinds[x.channel_index] = ReliableOrdered /\ x.messages \in Seq(IdMessages)
            \/ Kinds[x.channel_index] # ReliableOrdered /\ x.messages \in Seq(Sizes)
<1>1. x.channel_index \in ChannelIndexes => x.channel_index \in Nat
  BY Indexes
<1>2. CASE x \in ReliableEntries
  <2> DEFINE ms == x.messages
  <2>1. /\ x.channel_index \in ChannelIndexes /\ ms \in Seq(IdMessages)
        /\ Len(ms) \in 1 .. MaxPerPacket /\ Kinds[x.channel_index] = ReliableOrdered
        /\ x = [channel_index |-> x.channel_index, messages |-> x.messages]
    BY <1>2 DEF ReliableEntries
  <2> HIDE DEF ms
  <2>2. DOMAIN ms = 1 .. Len(ms)
    BY <2>1
  <2> QED
    BY <1>1, <2>1, <2>2 DEF ms
<1>3. CASE x \in UnreliableEntries(Sizes)
  <2> DEFINE ms == x.messages
  <2>1. /\ x.channel_index \in ChannelIndexes /\ ms \in Seq(Sizes)
        /\ Len(ms) \in 1 .. MaxPerPacket /\ Kinds[x.channel_index] # ReliableOrdered
        /\ x = [channel_index |-> x.channel_index, messages |-> x.messages]
    BY <1>3, Strings DEF UnreliableEntries
  <2> HIDE DEF ms
  <2>2. DOMAIN ms = 1 .. Len(ms)
    BY <2>1
  <2> QED
    BY <1>1, <2>1, <2>2 DEF ms
<1> QED
  BY <1>2, <1>3 DEF Entries

\* Two sequences after a header of three tokens.
LEMMA HeaderThen ==
  ASSUME NEW S, NEW a \in S, NEW b \in S, NEW c \in S, NEW s \in Seq(S)
  PROVE  /\ <<a, b, c>> \o s \in Seq(S) /\ Len(<<a, b, c>> \o s) = 3 + Len(s)
         /\ (<<a, b, c>> \o s)[1] = a /\ (<<a, b, c>> \o s)[2] = b /\ (<<a, b, c>> \o s)[3] = c
         /\ \A j \in 1 .. Len(s) : (<<a, b, c>> \o s)[3 + j] = s[j]
<1> DEFINE h == <<a, b, c>>
<1>1. h \in Seq(S) /\ Len(h) = 3 /\ h[1] = a /\ h[2] = b /\ h[3] = c
  OBVIOUS
<1> HIDE DEF h
<1>2. /\ h \o s \in Seq(S) /\ Len(h \o s) = 3 + Len(s)
      /\ \A j \in 1 .. 3 : (h \o s)[j] = h[j]
      /\ \A j \in 1 .. Len(s) : (h \o s)[3 + j] = s[j]
  <2>1. h \o s \in Seq(S) /\ Concatenated(h, s, h \o s)
    BY <1>1, ConcatElements
  <2> QED
    BY <1>1, <2>1 DEF Concatenated
<1> QED
  BY <1>1, <1>2 DEF h

\* Where a message may be, among the bodies.
LEMMA PlaceOfBody ==
  ASSUME NEW n \in Nat, NEW k \in 1 .. n, NEW d \in Nat, d >= 1
  PROVE  (k - 1) * d + 1 \in 1 .. n * d /\ (k - 1) * d \in Nat /\ n * d \in Nat
<1>1. n - k \in Nat /\ k - 1 \in Nat /\ n = (n - k) + ((k - 1) + 1)
  OBVIOUS
<1> DEFINE a == k - 1
           b == n - k
<1>2. a \in Nat /\ b \in Nat /\ n = b + (a + 1)
  BY <1>1
<1> HIDE DEF a, b
<1>3. n * d = b * d + (a * d + d)
  BY <1>2
<1>4. a * d \in Nat /\ b * d \in Nat
  BY <1>2
<1> DEFINE p == a * d
           q == b * d
<1> HIDE DEF p, q
<1>5. p + 1 \in 1 .. (q + (p + d)) /\ p \in Nat /\ q + (p + d) \in Nat
  BY <1>4 DEF p, q
<1> QED
  BY <1>3, <1>5 DEF p, q, a

\* Entries of an unreliable channel.
LEMMA UnorderedLaidOut ==
  ASSUME NEW x \in Entries, Kinds[x.channel_index] # ReliableOrdered, NEW check \in {0, 32}
  PROVE  LaidOut(x, check, Serialize(x, check))
<1> DEFINE ms == x.messages
           n == Len(ms)
           d == Stride(check)
           a == U16(x.channel_index)
           b == U8(1)
           c == U8(n - 1)
           t == SerializeMessages(ms, check)
           s == <<a, b, c>> \o t
<1>1. /\ x.channel_index \in Nat /\ n \in 1 .. MaxPerPacket /\ ms \in Seq(Sizes)
      /\ n \in Nat /\ n - 1 \in Nat
  BY EntryKinds
<1>2. ms # <<>>
  BY <1>1
<1>3. Serialize(x, check) = s
  BY <1>2 DEF Serialize
<1>4. a \in Tokens /\ b \in Tokens /\ c \in Tokens
  BY <1>1, TokensAre
<1>5. d \in Nat /\ d >= 1
  BY Gaps
<1>6. BeforeBodies(x, check) = 3 /\ \A k : BodyOf(x, k) = ms[k]
  BY DEF BeforeBodies, BodyOf
<1> HIDE DEF ms
<1>7. /\ t \in Seq(Tokens) /\ Len(t) = n * d
      /\ \A k \in 1 .. n : t[(k - 1) * d + 1] = Body(ms[k])
  BY <1>1, MessagesLaidOut
<1> HIDE DEF n, d, a, b, c, t
<1>8. /\ s \in Seq(Tokens) /\ Len(s) = 3 + Len(t) /\ s[1] = a /\ s[2] = b /\ s[3] = c
      /\ \A j \in 1 .. Len(t) : s[3 + j] = t[j]
  BY <1>4, <1>7, HeaderThen
<1> HIDE DEF s
<1>9. \A k \in 1 .. n : s[3 + (k - 1) * d + 1] = Body(ms[k])
  <2> TAKE k \in 1 .. n
  <2> DEFINE p == (k - 1) * d
  <2>1. p + 1 \in 1 .. n * d /\ p \in Nat
    BY <1>1, <1>5, PlaceOfBody
  <2>2. t[p + 1] = Body(ms[k])
    BY <1>7
  <2> HIDE DEF p
  <2>3. 3 + (p + 1) = 3 + p + 1
    BY <2>1
  <2> QED
    BY <1>7, <1>8, <2>1, <2>2, <2>3 DEF p
<1>10. Len(s) = 3 + n * d
  BY <1>7, <1>8
<1>11. \A k \in 1 .. n : s[BodyAt(x, k, check)] = Body(BodyOf(x, k))
  BY <1>6, <1>9 DEF BodyAt, d
<1> QED
  BY <1>3, <1>6, <1>8, <1>10, <1>11 DEF LaidOut, n, d, a, b, c, ms

\* Entries of a reliable channel.
LEMMA OrderedLaidOut ==
  ASSUME NEW x \in Entries, Kinds[x.channel_index] = ReliableOrdered, NEW check \in {0, 32}
  PROVE  LaidOut(x, check, Serialize(x, check))
<1> DEFINE ms == x.messages
           n == Len(ms)
           d == Stride(check)
           g == Gap(check)
           a == U16(x.channel_index)
           b == U8(1)
           c == U8(n - 1)
           ids == [k \in DOMAIN ms |-> U16(ms[k].id)]
           bodies == [k \in DOMAIN ms |-> ms[k].message]
           t == SerializeMessages(bodies, check)
           front == ids \o Check(check)
           rest == front \o t
           s == <<a, b, c>> \o rest
<1>1. /\ x.channel_index \in Nat /\ n \in 1 .. MaxPerPacket /\ ms \in Seq(IdMessages)
      /\ n \in Nat /\ n - 1 \in Nat /\ DOMAIN ms = 1 .. n
  BY EntryKinds
<1>2. ms # <<>>
  BY <1>1
<1>3. Serialize(x, check) = s
  BY <1>2 DEF Serialize, SerializeOrdered
<1>4. a \in Tokens /\ b \in Tokens /\ c \in Tokens
  BY <1>1, TokensAre
<1>5. d \in Nat /\ d >= 1 /\ g \in Nat /\ Check(check) \in Seq(Tokens) /\ Len(Check(check)) = g
  BY Gaps DEF Gap
<1>6. BeforeBodies(x, check) = 3 + (n + g) /\ \A k : BodyOf(x, k) = ms[k].message
  BY DEF BeforeBodies, BodyOf
<1> HIDE DEF ms
<1>7. \A k \in 1 .. n : ms[k].id \in Nat /\ ms[k].message \in Sizes
  <2>1. \A k \in 1 .. n : ms[k] \in IdMessages
    BY <1>1
  <2>2. SeqNum \subseteq Nat
    BY ModulusAssumption DEF SeqNum
  <2> QED
    BY <2>1, <2>2 DEF IdMessages
<1> HIDE DEF n, d, g, a, b, c
<1>8. ids \in Seq(Tokens) /\ Len(ids) = n /\ \A k \in 1 .. n : ids[k] = U16(ms[k].id)
  <2>1. \A k \in 1 .. n : U16(ms[k].id) \in Tokens
    BY <1>7, TokensAre
  <2>2. ids \in [1 .. n -> Tokens] /\ \A k \in 1 .. n : ids[k] = U16(ms[k].id)
    BY <1>1, <2>1
  <2> HIDE DEF ids
  <2> QED
    BY <1>1, <2>2
<1>9. bodies \in Seq(Sizes) /\ Len(bodies) = n /\ \A k \in 1 .. n : bodies[k] = ms[k].message
  <2>1. bodies \in [1 .. n -> Sizes] /\ \A k \in 1 .. n : bodies[k] = ms[k].message
    BY <1>1, <1>7
  <2> HIDE DEF bodies
  <2> QED
    BY <1>1, <2>1
<1> HIDE DEF ids, bodies
<1>10. /\ t \in Seq(Tokens) /\ Len(t) = n * d
       /\ \A k \in 1 .. n : t[(k - 1) * d + 1] = Body(bodies[k])
  BY <1>9, MessagesLaidOut DEF d
<1> HIDE DEF t
<1>11. /\ front \in Seq(Tokens) /\ Len(front) = n + g /\ \A k \in 1 .. n : front[k] = ids[k]
  <2> DEFINE e == Check(check)
  <2>1. front = ids \o e /\ ids \in Seq(Tokens) /\ e \in Seq(Tokens) /\ Len(e) = g
    BY <1>5, <1>8
  <2> HIDE DEF front, e
  <2>2. front \in Seq(Tokens) /\ Concatenated(ids, e, front)
    BY <2>1, ConcatElements
  <2> QED
    BY <1>8, <2>1, <2>2 DEF Concatenated
<1> HIDE DEF front
<1>12. /\ rest \in Seq(Tokens) /\ Len(rest) = (n + g) + Len(t)
       /\ \A k \in 1 .. n + g : rest[k] = front[k]
       /\ \A j \in 1 .. Len(t) : rest[(n + g) + j] = t[j]
  <2>1. front \o t \in Seq(Tokens) /\ Concatenated(front, t, front \o t)
    BY <1>10, <1>11, ConcatElements
  <2> QED
    BY <1>11, <2>1 DEF Concatenated
<1> HIDE DEF rest
<1>13. /\ s \in Seq(Tokens) /\ Len(s) = 3 + Len(rest) /\ s[1] = a /\ s[2] = b /\ s[3] = c
       /\ \A j \in 1 .. Len(rest) : s[3 + j] = rest[j]
  BY <1>4, <1>12, HeaderThen
<1> HIDE DEF s
<1> DEFINE l == n * d
<1>14. l \in Nat /\ Len(t) = l
  <2>1. n * d \in Nat
    BY <1>1, <1>5
  <2> QED
    BY <1>10, <2>1
<1> HIDE DEF l
<1>15. Len(s) = 3 + (n + g) + l
  BY <1>1, <1>5, <1>12, <1>13, <1>14
<1>16. \A k \in 1 .. n : s[3 + k] = U16(ms[k].id)
  <2> TAKE k \in 1 .. n
  <2>1. k \in 1 .. n + g /\ k \in 1 .. Len(rest)
    BY <1>1, <1>5, <1>12, <1>14
  <2> QED
    BY <1>8, <1>11, <1>12, <1>13, <2>1
<1>17. \A k \in 1 .. n : s[3 + (n + g) + (k - 1) * d + 1] = Body(ms[k].message)
  <2> TAKE k \in 1 .. n
  <2> DEFINE p == (k - 1) * d
  <2>1. p + 1 \in 1 .. n * d /\ p \in Nat
    BY <1>1, <1>5, PlaceOfBody
  <2>2. t[p + 1] = Body(ms[k].message)
    BY <1>9, <1>10
  <2> HIDE DEF p
  <2>3. p + 1 \in 1 .. l
    BY <2>1 DEF l
  <2>4. /\ 3 + ((n + g) + (p + 1)) = 3 + (n + g) + p + 1
        /\ (n + g) + (p + 1) \in 1 .. Len(rest)
    BY <1>1, <1>5, <1>12, <1>14, <2>1, <2>3
  <2>5. rest[(n + g) + (p + 1)] = t[p + 1]
    BY <1>12, <1>14, <2>3
  <2> QED
    BY <1>13, <2>2, <2>4, <2>5 DEF p
<1> QED
  BY <1>3, <1>6, <1>13, <1>15, <1>16, <1>17 DEF LaidOut, BodyAt, n, d, a, b, c, ms, l

\* What ChannelPacketData::serialize writes.
LEMMA SerializeLaysOut ==
  ASSUME NEW x \in Entries, NEW check \in {0, 32}
  PROVE  LaidOut(x, check, Serialize(x, check))
BY UnorderedLaidOut, OrderedLaidOut

-----------------------------------------------------------------------------
(* What is counted and what is written.                                      *)

\* A token more, as an operator FoldTheory takes.
WeighOf(unused, none, bits, token) == bits + BitsOf(token)

\* The sum of StreamBits.
Weighing == INSTANCE FoldTheory WITH Op <- WeighOf

\* Every token has a size.
LEMMA TokensMeasured ==
  ASSUME MeasuredMessages(Sizes)
  PROVE  \A token \in Tokens : BitsOf(token) \in Int
<1>1. \A token \in NumberTokens : BitsOf(token) \in Int
  BY DEF NumberTokens, BitsOf
<1>2. ASSUME NEW token \in [type : {"message"}, value : Sizes] PROVE BitsOf(token) \in Int
  <2>1. token.value \in Sizes /\ token.type = "message"
    OBVIOUS
  <2>2. BitsOf(token) = MeasuredBits(token.value)
    BY <2>1 DEF BitsOf
  <2> QED
    BY <2>1, <2>2 DEF MeasuredMessages
<1> QED
  BY <1>1, <1>2 DEF Tokens

\* An entry without check values, token by token.
LEMMA PlainLayout ==
  ASSUME NEW x \in Entries
  PROVE  LET s == Serialize(x, 0)
             n == Len(x.messages)
             ids == IF Kinds[x.channel_index] = ReliableOrdered THEN n ELSE 0
         IN  /\ s \in Seq(Tokens) /\ n \in Nat /\ ids \in Nat /\ Len(s) = 3 + ids + n
             /\ BitsOf(s[1]) = 16 /\ BitsOf(s[2]) = 8 /\ BitsOf(s[3]) = 8
             /\ \A k \in 1 .. ids : BitsOf(s[3 + k]) = 16
             /\ \A k \in 1 .. n : BitsOf(s[3 + ids + k]) = MeasuredBits(BodyOf(x, k))
<1> DEFINE s == Serialize(x, 0)
           ms == x.messages
           n == Len(ms)
           ids == IF Kinds[x.channel_index] = ReliableOrdered THEN n ELSE 0
<1>1. /\ x.channel_index \in Nat /\ n \in Nat /\ n - 1 \in Nat /\ DOMAIN ms = 1 .. n
      /\ \/ Kinds[x.channel_index] = ReliableOrdered /\ ms \in Seq(IdMessages)
         \/ Kinds[x.channel_index] # ReliableOrdered /\ ms \in Seq(Sizes)
  BY EntryKinds
<1>2. LaidOut(x, 0, s)
  BY SerializeLaysOut
<1>3. Gap(0) = 0 /\ Stride(0) = 1
  BY Gaps
<1>4. ids \in Nat /\ BeforeBodies(x, 0) = 3 + ids
  BY <1>1, <1>3 DEF BeforeBodies
<1>5. /\ s \in Seq(Tokens) /\ Len(s) = 3 + ids + n
      /\ s[1] = U16(x.channel_index) /\ s[2] = U8(1) /\ s[3] = U8(n - 1)
  <2>1. /\ s \in Seq(Tokens) /\ Len(s) = BeforeBodies(x, 0) + n * Stride(0)
        /\ s[1] = U16(x.channel_index) /\ s[2] = U8(1) /\ s[3] = U8(n - 1)
    BY <1>2 DEF LaidOut
  <2> HIDE DEF s, n
  <2>2. n * Stride(0) = n
    BY <1>1, <1>3
  <2> QED
    BY <1>4, <2>1, <2>2
<1>6. ASSUME NEW k \in 1 .. n
      PROVE  /\ s[3 + ids + k] = Body(BodyOf(x, k)) /\ BodyOf(x, k) \in Sizes
             /\ Kinds[x.channel_index] = ReliableOrdered =>
                   s[3 + k] = U16(ms[k].id) /\ ms[k].id \in Nat
  <2>1. BodyAt(x, k, 0) = 3 + ids + k
    <3> HIDE DEF ids
    <3> QED
      BY <1>1, <1>3, <1>4 DEF BodyAt
  <2>2. s[BodyAt(x, k, 0)] = Body(BodyOf(x, k))
    BY <1>2 DEF LaidOut
  <2>3. CASE Kinds[x.channel_index] = ReliableOrdered
    <3>1. ms[k] \in IdMessages
      <4> HIDE DEF ms
      <4> QED
        BY <1>1, <2>3
    <3>2. BodyOf(x, k) \in Sizes /\ ms[k].id \in Nat
      BY <2>3, <3>1, ModulusAssumption DEF BodyOf, IdMessages, SeqNum
    <3>3. s[3 + k] = U16(ms[k].id)
      BY <1>2, <2>3 DEF LaidOut
    <3> QED
      BY <2>1, <2>2, <3>2, <3>3
  <2>4. CASE Kinds[x.channel_index] # ReliableOrdered
    <3>1. ms[k] \in Sizes
      <4> HIDE DEF ms
      <4> QED
        BY <1>1, <2>4
    <3> QED
      BY <2>1, <2>2, <2>4, <3>1 DEF BodyOf
  <2> QED
    BY <2>3, <2>4
<1>7. BitsOf(s[1]) = 16 /\ BitsOf(s[2]) = 8 /\ BitsOf(s[3]) = 8
  BY <1>1, <1>5, TokensAre
<1>8. \A k \in 1 .. ids : BitsOf(s[3 + k]) = 16
  <2> TAKE k \in 1 .. ids
  <2>1. k \in 1 .. n /\ Kinds[x.channel_index] = ReliableOrdered
    BY <1>1
  <2>2. s[3 + k] = U16(ms[k].id) /\ ms[k].id \in Nat
    BY <1>6, <2>1
  <2> HIDE DEF s
  <2> QED
    BY <2>2, TokensAre
<1>9. \A k \in 1 .. n : BitsOf(s[3 + ids + k]) = MeasuredBits(BodyOf(x, k))
  <2> TAKE k \in 1 .. n
  <2>1. s[3 + ids + k] = Body(BodyOf(x, k)) /\ BodyOf(x, k) \in Sizes
    BY <1>6
  <2> HIDE DEF s, ids
  <2> QED
    BY <2>1, TokensAre
<1> QED
  BY <1>1, <1>4, <1>5, <1>7, <1>8, <1>9

\* Without check values an entry is written with the bits it was counted for.
LEMMA WrittenAsCounted ==
  ASSUME MeasuredMessages(Sizes), NEW x \in Entries
  PROVE  StreamBits(Serialize(x, 0)) = SerializedBits(x, 0)
<1> DEFINE s == Serialize(x, 0)
           ms == x.messages
           n == Len(ms)
           reliable == Kinds[x.channel_index] = ReliableOrdered
           ids == IF reliable THEN n ELSE 0
           e == IF reliable THEN 16 ELSE 0
           size(k) == MessageBits(x.channel_index, ms[k], 0)
           sizes == [k \in DOMAIN ms |-> size(k)]
           base == 16 + 8 + 8 + (IF reliable THEN 0 ELSE 0)
           bits(k) == MeasuredBits(BodyOf(x, k))
<1>1. /\ s \in Seq(Tokens) /\ n \in Nat /\ ids \in Nat /\ Len(s) = 3 + ids + n
      /\ BitsOf(s[1]) = 16 /\ BitsOf(s[2]) = 8 /\ BitsOf(s[3]) = 8
      /\ \A k \in 1 .. ids : BitsOf(s[3 + k]) = 16
      /\ \A k \in 1 .. n : BitsOf(s[3 + ids + k]) = bits(k)
  BY PlainLayout
<1>2. /\ DOMAIN ms = 1 .. n
      /\ \/ reliable /\ ms \in Seq(IdMessages)
         \/ ~reliable /\ ms \in Seq(Sizes)
      /\ x = EntryOf(x.channel_index, ms)
  BY EntryKinds DEF EntryOf
<1>3. \A k \in 1 .. n : size(k) = e + bits(k) /\ bits(k) \in Nat /\ size(k) \in Int
  <2> TAKE k \in 1 .. n
  <2>1. CASE reliable
    <3>1. ms[k] \in IdMessages
      <4> HIDE DEF ms
      <4> QED
        BY <1>2, <2>1
    <3>2. bits(k) \in Nat /\ bits(k) = MeasuredBits(ms[k].message)
      BY <2>1, <3>1 DEF BodyOf, IdMessages, MeasuredMessages
    <3> QED
      BY <2>1, <3>2 DEF MessageBits, MessageIdBits
  <2>2. CASE ~reliable
    <3>1. ms[k] \in Sizes
      <4> HIDE DEF ms
      <4> QED
        BY <1>2, <2>2
    <3>2. bits(k) \in Nat /\ bits(k) = MeasuredBits(ms[k])
      BY <2>2, <3>1 DEF BodyOf, MeasuredMessages
    <3> QED
      BY <2>2, <3>2 DEF MessageBits
  <2> QED
    BY <2>1, <2>2
<1>4. SerializedBits(x, 0) = Adding!Fold(0, 0, base, sizes)
  BY <1>2, CountedIsSum DEF CountedFor
<1>5. StreamBits(s) = Weighing!Fold(0, 0, 0, s)
  BY DEF StreamBits, WeighOf, FoldLeft, MapThenFoldSet, Max, Weighing!Fold,
         Weighing!FoldLeft, Weighing!MapThenFoldSet, Weighing!Max
<1>6. base = 32
  OBVIOUS
<1>7. e \in Nat /\ (reliable => e = 16 /\ ids = n) /\ (~reliable => e = 0 /\ ids = 0)
  OBVIOUS
<1> HIDE DEF base, s, size, bits, ids, n, e
<1>8. sizes \in Seq(Int) /\ Len(sizes) = n /\ \A k \in 1 .. n : sizes[k] = size(k)
  <2>1. sizes \in [1 .. n -> Int] /\ \A k \in 1 .. n : sizes[k] = size(k)
    BY <1>2, <1>3
  <2> HIDE DEF sizes
  <2> QED
    BY <1>1, <2>1
<1> HIDE DEF sizes
<1>9. PICK g : Weighing!Runs(0, 0, Int, 0, s, g)
  <2>1. \A d \in Int, t \in Tokens : WeighOf(0, 0, d, t) \in Int
    BY TokensMeasured DEF WeighOf
  <2>2. 0 \in Int
    OBVIOUS
  <2> QED
    BY <1>1, <2>1, <2>2, Weighing!FoldRuns
<1>10. PICK h : Adding!Runs(0, 0, Int, base, sizes, h)
  <2>1. \A d \in Int, t \in Int : PlusOf(0, 0, d, t) \in Int
    BY DEF PlusOf
  <2>2. base \in Int
    BY <1>6
  <2> QED
    BY <1>8, <2>1, <2>2, Adding!FoldRuns
<1>11. /\ g[0] = 0 /\ \A k \in 1 .. 3 + ids + n : g[k] = g[k - 1] + BitsOf(s[k])
       /\ StreamBits(s) = g[3 + ids + n]
  BY <1>1, <1>5, <1>9 DEF Weighing!Runs, WeighOf
<1>12. /\ h \in [0 .. n -> Int] /\ h[0] = 32 /\ \A k \in 1 .. n : h[k] = h[k - 1] + sizes[k]
       /\ SerializedBits(x, 0) = h[n]
  BY <1>4, <1>6, <1>8, <1>10 DEF Adding!Runs, PlusOf
<1>13. g[3] = 32
  <2>1. 1 \in 1 .. 3 + ids + n /\ 2 \in 1 .. 3 + ids + n /\ 3 \in 1 .. 3 + ids + n
    BY <1>1
  <2>2. g[1] = g[1 - 1] + BitsOf(s[1]) /\ g[2] = g[2 - 1] + BitsOf(s[2])
        /\ g[3] = g[3 - 1] + BitsOf(s[3])
    BY <1>11, <2>1
  <2> QED
    BY <1>1, <1>11, <2>2
<1> DEFINE I == {k \in Nat : k <= ids => g[3 + k] = 32 + 16 * k}
<1>14. g[3 + ids] = 32 + 16 * ids
  <2>1. 0 \in I
    BY <1>13
  <2>2. ASSUME NEW k \in Nat, k \in I PROVE k + 1 \in I
    <3> SUFFICES ASSUME k + 1 <= ids PROVE g[3 + (k + 1)] = 32 + 16 * (k + 1)
      OBVIOUS
    <3>1. /\ 3 + (k + 1) \in 1 .. 3 + ids + n /\ (3 + (k + 1)) - 1 = 3 + k /\ k <= ids
          /\ k + 1 \in 1 .. ids
      BY <1>1
    <3>2. g[3 + (k + 1)] = g[3 + k] + BitsOf(s[3 + (k + 1)]) /\ g[3 + k] = 32 + 16 * k
      BY <1>11, <2>2, <3>1
    <3>3. BitsOf(s[3 + (k + 1)]) = 16
      BY <1>1, <3>1
    <3>4. (32 + 16 * k) + 16 = 32 + 16 * (k + 1)
      OBVIOUS
    <3> QED
      BY <3>2, <3>3, <3>4
  <2> HIDE DEF I
  <2>3. ids \in I
    BY <1>1, <2>1, <2>2, Weighing!SetInduction
  <2> QED
    BY <1>1, <2>3 DEF I
<1> HIDE DEF I
<1>15. 16 * ids = n * e
  <2>1. CASE reliable
    BY <1>1, <1>7, <2>1
  <2>2. CASE ~reliable
    BY <1>1, <1>7, <2>2
  <2> QED
    BY <2>1, <2>2
<1> DEFINE J == {k \in Nat : k <= n => g[3 + ids + k] = h[k] + (n - k) * e}
<1>16. g[3 + ids + n] = h[n]
  <2>1. 0 \in J
    <3>1. 3 + ids + 0 = 3 + ids /\ n - 0 = n
      BY <1>1
    <3> DEFINE p == n * e
    <3>2. p = 16 * ids /\ p \in Int
      BY <1>1, <1>15
    <3> HIDE DEF p
    <3>3. g[3 + ids + 0] = h[0] + p
      BY <1>1, <1>12, <1>14, <3>1, <3>2
    <3> QED
      BY <3>1, <3>3 DEF p
  <2>2. ASSUME NEW k \in Nat, k \in J PROVE k + 1 \in J
    <3> SUFFICES ASSUME k + 1 <= n PROVE g[3 + ids + (k + 1)] = h[k + 1] + (n - (k + 1)) * e
      OBVIOUS
    <3> DEFINE m == n - (k + 1)
               p == m * e
               q == (m + 1) * e
    <3>1. /\ 3 + ids + (k + 1) \in 1 .. 3 + ids + n
          /\ (3 + ids + (k + 1)) - 1 = 3 + ids + k /\ k <= n
          /\ k + 1 \in 1 .. n /\ (k + 1) - 1 = k /\ k \in 0 .. n
          /\ n - k = m + 1 /\ m \in Nat
      BY <1>1
    <3>2. g[3 + ids + (k + 1)] = g[3 + ids + k] + BitsOf(s[3 + ids + (k + 1)])
      BY <1>11, <3>1
    <3>3. BitsOf(s[3 + ids + (k + 1)]) = bits(k + 1)
      BY <1>1, <3>1
    <3>4. g[3 + ids + k] = h[k] + q
      BY <2>2, <3>1
    <3>5. h[k + 1] = h[k] + (e + bits(k + 1)) /\ bits(k + 1) \in Nat /\ h[k] \in Int
      BY <1>3, <1>8, <1>12, <3>1
    <3> HIDE DEF m
    <3>6. q = p + e /\ p \in Int
      BY <1>7, <3>1, BudgetsLeft
    <3> HIDE DEF p, q
    <3>7. g[3 + ids + (k + 1)] = h[k + 1] + p
      BY <1>7, <3>2, <3>3, <3>4, <3>5, <3>6
    <3> QED
      BY <3>7 DEF p, m
  <2> HIDE DEF J
  <2>3. n \in J
    BY <1>1, <2>1, <2>2, Weighing!SetInduction
  <2>4. g[3 + ids + n] = h[n] + (n - n) * e
    BY <1>1, <2>3 DEF J
  <2>5. (n - n) * e = 0 /\ h[n] \in Int
    BY <1>1, <1>7, <1>12
  <2> QED
    BY <2>4, <2>5
<1> QED
  BY <1>11, <1>12, <1>16 DEF s

\* The elements of a packet are entries.
LEMMA PacketEntriesAre ==
  ASSUME IInv
  PROVE  \A k \in DOMAIN packet.data : packet.data[k] \in Entries
<1> DEFINE d == packet.data
<1>1. d \in Seq(Entries)
  BY DEF IInv
<1> HIDE DEF d
<1>2. \A k \in DOMAIN d : d[k] \in Entries
  BY <1>1
<1> QED
  BY <1>2 DEF d

\* BudgetRespected, where a subtraction below zero is noticed or cannot happen:
\* serialize writes for a channel no more than its budget, and no more than
\* generate_packet had left for it.
THEOREM BudgetBudgetRespected ==
  ASSUME Configured, OverflowChecks \/ Reserved
  PROVE  Spec => []BudgetRespected
<1>1. ASSUME IInv PROVE BudgetRespected
  <2> SUFFICES ASSUME NEW k \in DOMAIN packet.data
               PROVE  /\ Written[k] <= PacketBudget
                      /\ packet.panic = NoPanic => Written[k] <= Offered(k)
    BY DEF BudgetRespected
  <2> DEFINE x == packet.data[k]
  <2>1. x \in Entries
    BY <1>1, PacketEntriesAre
  <2>2. Written[k] = SerializedBits(x, 0)
    <3>1. Written[k] = StreamBits(Serialize(x, 0))
      BY DEF Written, Configured
    <3> HIDE DEF x
    <3> QED
      BY <2>1, <3>1, WrittenAsCounted DEF Configured
  <2>3. SerializedBits(x, 0) <= PacketBudget
    <3> HIDE DEF x
    <3> QED
      BY <2>1 DEF Entries, ReliableEntries, UnreliableEntries
  <2>4. Offered(k) = Left(BufferBits, SubSeq(CountsOf(packet.data), 1, k - 1))
    BY DEF Offered, Counted, CountsOf, Left, TakenOf, FoldLeft, MapThenFoldSet, Max,
           Spending!Fold, Spending!FoldLeft, Spending!MapThenFoldSet, Spending!Max
  <2>5. packet.panic = NoPanic => SerializedBits(x, 0) <= Offered(k)
    BY <1>1, <2>4 DEF IInv, WithinOffers, Reserved, Room
  <2> QED
    BY <2>2, <2>3, <2>5
<1>2. IInv => BudgetRespected
  BY <1>1
<1> QED
  BY <1>2, BudgetInvariant, PTL

-----------------------------------------------------------------------------
(* What is read.                                                             *)

\* A token of its type is read.
LEMMA ReadsToken ==
  ASSUME NEW stream \in Seq(Tokens), NEW at \in 1 .. Len(stream)
  PROVE  /\ \A n : stream[at] = U16(n) => Read(stream, at, "u16") = n
         /\ \A n : stream[at] = U8(n) => Read(stream, at, "u8") = n % CountModulus
         /\ \A m : stream[at] = Body(m) => Read(stream, at, "message") = m
<1>1. at \in DOMAIN stream
  OBVIOUS
<1> QED
  BY <1>1 DEF Read, U16, U8, Body

\* The reader finds this entry after so many tokens.
FoundAt(x, check, stream, from) ==
    LET s == Serialize(x, check)
    IN  /\ from + Len(s) <= Len(stream)
        /\ \A j \in 1 .. Len(s) : stream[from + j] = s[j]

\* The places of an entry's tokens are within it.
LEMMA PlacesAre ==
  ASSUME NEW x \in Entries, NEW check \in {0, 32}
  PROVE  LET n == Len(x.messages)
             l == Len(Serialize(x, check))
         IN  /\ n \in Nat /\ n >= 1 /\ BeforeBodies(x, check) \in Nat /\ BeforeBodies(x, check) >= 3
             /\ n * Stride(check) \in Nat /\ l \in Nat
             /\ l = BeforeBodies(x, check) + n * Stride(check)
             /\ 1 \in 1 .. l /\ 2 \in 1 .. l /\ 3 \in 1 .. l
             /\ \A k \in 1 .. n : /\ BodyAt(x, k, check) \in 1 .. l
                                  /\ (k - 1) * Stride(check) \in Nat
             /\ Kinds[x.channel_index] = ReliableOrdered => \A k \in 1 .. n : 3 + k \in 1 .. l
<1> DEFINE n == Len(x.messages)
           d == Stride(check)
           b == BeforeBodies(x, check)
           l == Len(Serialize(x, check))
<1>1. n \in Nat /\ n >= 1
  BY EntryKinds, ConfigAssumption
<1>2. d \in Nat /\ d >= 1 /\ Gap(check) \in Nat
  BY Gaps
<1>3. b \in Nat /\ b >= 3 /\ (Kinds[x.channel_index] = ReliableOrdered => b >= 3 + n)
  BY <1>1, <1>2 DEF BeforeBodies
<1>4. l = b + n * d
  BY SerializeLaysOut DEF LaidOut
<1> HIDE DEF n, d, b, l
<1> DEFINE q == n * d
<1>5. q \in Nat /\ \A k \in 1 .. n : (k - 1) * d + 1 \in 1 .. q /\ (k - 1) * d \in Nat
  <2>1. ASSUME NEW k \in 1 .. n
        PROVE  (k - 1) * d + 1 \in 1 .. n * d /\ (k - 1) * d \in Nat /\ n * d \in Nat
    BY <1>1, <1>2, PlaceOfBody
  <2>2. 1 \in 1 .. n
    BY <1>1
  <2> QED
    BY <2>1, <2>2
<1> HIDE DEF q
<1>6. q >= 1
  <2>1. 1 \in 1 .. n
    BY <1>1
  <2> QED
    BY <1>5, <2>1
<1>7. l \in Nat /\ l = b + q /\ 1 \in 1 .. l /\ 2 \in 1 .. l /\ 3 \in 1 .. l
  BY <1>3, <1>4, <1>5, <1>6 DEF q
<1>8. \A k \in 1 .. n : BodyAt(x, k, check) \in 1 .. l /\ (k - 1) * d \in Nat
  <2> TAKE k \in 1 .. n
  <2> DEFINE p == (k - 1) * d
  <2>1. p + 1 \in 1 .. q /\ p \in Nat
    BY <1>5
  <2>2. BodyAt(x, k, check) = b + p + 1
    BY DEF BodyAt, b, d
  <2> HIDE DEF p
  <2>3. b + p + 1 \in 1 .. l
    BY <1>3, <1>5, <1>7, <2>1
  <2> QED
    BY <2>1, <2>2, <2>3 DEF p
<1>9. Kinds[x.channel_index] = ReliableOrdered => \A k \in 1 .. n : 3 + k \in 1 .. l
  BY <1>1, <1>3, <1>5, <1>7
<1> QED
  BY <1>1, <1>3, <1>5, <1>7, <1>8, <1>9 DEF n, d, b, l, q

\* The tokens of an entry, where the reader looks for them.
LEMMA TokensFound ==
  ASSUME NEW x \in Entries, NEW check \in {0, 32}, NEW stream \in Seq(Tokens), NEW from \in Nat,
         FoundAt(x, check, stream, from)
  PROVE  LET n == Len(x.messages)
         IN  /\ Read(stream, from + 1, "u16") = x.channel_index
             /\ Read(stream, from + 2, "u8") = 1
             /\ 1 + Read(stream, from + 3, "u8") = n
             /\ \A k \in 1 .. n : Read(stream, from + BodyAt(x, k, check), "message") = BodyOf(x, k)
             /\ Kinds[x.channel_index] = ReliableOrdered =>
                   \A k \in 1 .. n : Read(stream, from + 3 + k, "u16") = x.messages[k].id
<1> DEFINE n == Len(x.messages)
           s == Serialize(x, check)
           l == Len(s)
<1>1. /\ n \in Nat /\ n >= 1 /\ l \in Nat
      /\ 1 \in 1 .. l /\ 2 \in 1 .. l /\ 3 \in 1 .. l
      /\ \A k \in 1 .. n : BodyAt(x, k, check) \in 1 .. l
      /\ Kinds[x.channel_index] = ReliableOrdered => \A k \in 1 .. n : 3 + k \in 1 .. l
  BY PlacesAre
<1>2. /\ s[1] = U16(x.channel_index) /\ s[2] = U8(1) /\ s[3] = U8(n - 1)
      /\ \A k \in 1 .. n : s[BodyAt(x, k, check)] = Body(BodyOf(x, k))
      /\ Kinds[x.channel_index] = ReliableOrdered =>
            \A k \in 1 .. n : s[3 + k] = U16(x.messages[k].id)
  BY SerializeLaysOut DEF LaidOut
<1>3. from + l <= Len(stream) /\ \A j \in 1 .. l : stream[from + j] = s[j]
  BY DEF FoundAt
<1>4. n <= MaxPerPacket
  BY EntryKinds
<1> HIDE DEF n, l, s
<1>5. ASSUME NEW j \in 1 .. l PROVE from + j \in 1 .. Len(stream)
  <2>1. Len(stream) \in Nat
    OBVIOUS
  <2> QED
    BY <1>1, <1>3, <2>1
<1>6. Read(stream, from + 1, "u16") = x.channel_index
  <2>1. from + 1 \in 1 .. Len(stream) /\ stream[from + 1] = U16(x.channel_index)
    BY <1>1, <1>2, <1>3, <1>5
  <2> QED
    BY <2>1, ReadsToken
<1>7. 1 % CountModulus = 1 /\ (n - 1) % CountModulus = n - 1
  <2>1. CountModulus \in Nat /\ CountModulus > 1 /\ n - 1 \in 0 .. CountModulus - 1
    BY <1>1, <1>4, FormatAssumption, ConfigAssumption
  <2> DEFINE m == n - 1
  <2> HIDE DEF m
  <2>2. m % CountModulus = m
    BY <2>1 DEF m
  <2>3. 1 % CountModulus = 1
    BY <2>1
  <2> QED
    BY <2>2, <2>3 DEF m
<1>8. Read(stream, from + 2, "u8") = 1
  <2>1. from + 2 \in 1 .. Len(stream) /\ stream[from + 2] = U8(1)
    BY <1>1, <1>2, <1>3, <1>5
  <2>2. Read(stream, from + 2, "u8") = 1 % CountModulus
    BY <2>1, ReadsToken
  <2> QED
    BY <1>7, <2>2
<1>9. 1 + Read(stream, from + 3, "u8") = n
  <2>1. from + 3 \in 1 .. Len(stream) /\ stream[from + 3] = U8(n - 1)
    BY <1>1, <1>2, <1>3, <1>5
  <2> DEFINE m == n - 1
  <2> HIDE DEF m
  <2>2. Read(stream, from + 3, "u8") = m % CountModulus
    BY <2>1, ReadsToken DEF m
  <2>3. m % CountModulus = m
    BY <1>7 DEF m
  <2>4. 1 + m = n
    BY <1>1 DEF m
  <2> QED
    BY <2>2, <2>3, <2>4
<1>10. ASSUME NEW k \in 1 .. n
       PROVE  Read(stream, from + BodyAt(x, k, check), "message") = BodyOf(x, k)
  <2> DEFINE j == BodyAt(x, k, check)
  <2>1. j \in 1 .. l /\ s[j] = Body(BodyOf(x, k))
    BY <1>1, <1>2
  <2> HIDE DEF j
  <2>2. from + j \in 1 .. Len(stream) /\ stream[from + j] = Body(BodyOf(x, k))
    BY <1>3, <1>5, <2>1
  <2> QED
    BY <2>2, ReadsToken DEF j
<1>11. ASSUME Kinds[x.channel_index] = ReliableOrdered, NEW k \in 1 .. n
       PROVE  Read(stream, from + 3 + k, "u16") = x.messages[k].id
  <2>1. from + 3 + k = from + (3 + k)
    BY <1>1
  <2>2. 3 + k \in 1 .. l /\ s[3 + k] = U16(x.messages[k].id)
    BY <1>1, <1>2, <1>11
  <2>3. from + (3 + k) \in 1 .. Len(stream) /\ stream[from + (3 + k)] = U16(x.messages[k].id)
    BY <1>3, <1>5, <2>2
  <2> QED
    BY <2>1, <2>3, ReadsToken
<1> QED
  BY <1>6, <1>8, <1>9, <1>10, <1>11 DEF n

\* The messages are read, and the reader is at the end of the entry.
LEMMA BodiesRead ==
  ASSUME NEW x \in Entries, NEW check \in {0, 32}, NEW stream \in Seq(Tokens), NEW from \in Nat,
         FoundAt(x, check, stream, from)
  PROVE  DeserializeMessages(stream, from + BeforeBodies(x, check), Len(x.messages), check)
           = [messages |-> [k \in 1 .. Len(x.messages) |-> BodyOf(x, k)],
              end      |-> from + Len(Serialize(x, check))]
<1> DEFINE n == Len(x.messages)
           d == Stride(check)
           b == BeforeBodies(x, check)
           l == Len(Serialize(x, check))
           read(k) == Read(stream, from + b + (k - 1) * d + 1, "message")
<1>1. /\ n \in Nat /\ b \in Nat /\ l \in Nat /\ n * d \in Nat /\ l = b + n * d
      /\ \A k \in 1 .. n : (k - 1) * d \in Nat
  BY PlacesAre
<1>2. \A k \in 1 .. n : Read(stream, from + BodyAt(x, k, check), "message") = BodyOf(x, k)
  BY TokensFound
<1>3. DeserializeMessages(stream, from + b, n, check)
        = [messages |-> [k \in 1 .. n |-> read(k)], end |-> from + b + n * d]
  BY DEF DeserializeMessages, Stride
<1>4. \A k \in 1 .. n : BodyAt(x, k, check) = b + (k - 1) * d + 1
  BY DEF BodyAt
<1> HIDE DEF n, d, b, l
<1>5. ASSUME NEW k \in 1 .. n PROVE read(k) = BodyOf(x, k)
  <2> DEFINE p == (k - 1) * d
  <2>1. p \in Nat /\ BodyAt(x, k, check) = b + p + 1
    BY <1>1, <1>4
  <2>2. read(k) = Read(stream, from + b + p + 1, "message")
    OBVIOUS
  <2> HIDE DEF p, read
  <2>3. from + b + p + 1 = from + BodyAt(x, k, check)
    BY <1>1, <2>1
  <2> QED
    BY <1>2, <2>2, <2>3
<1>6. from + b + n * d = from + l
  <2> DEFINE q == n * d
  <2>1. q \in Nat /\ l = b + q
    BY <1>1
  <2> HIDE DEF q
  <2>2. from + b + q = from + l
    BY <1>1, <2>1
  <2> QED
    BY <2>2 DEF q
<1> HIDE DEF read
<1>7. [k \in 1 .. n |-> read(k)] = [k \in 1 .. n |-> BodyOf(x, k)]
  BY <1>5
<1> QED
  BY <1>3, <1>6, <1>7 DEF n, b, l

\* The messages of an entry, one by one.
LEMMA MessagesAre ==
  ASSUME NEW x \in Entries
  PROVE  /\ x.messages = [k \in 1 .. Len(x.messages) |-> x.messages[k]]
         /\ Kinds[x.channel_index] = ReliableOrdered =>
               x.messages = [k \in 1 .. Len(x.messages) |->
                                [id |-> x.messages[k].id, message |-> x.messages[k].message]]
<1> DEFINE ms == x.messages
           n == Len(ms)
<1>1. /\ n \in Nat
      /\ \/ Kinds[x.channel_index] = ReliableOrdered /\ ms \in Seq(IdMessages)
         \/ Kinds[x.channel_index] # ReliableOrdered /\ ms \in Seq(Sizes)
  BY EntryKinds
<1> HIDE DEF ms
<1>2. ms = [k \in 1 .. n |-> ms[k]]
  BY <1>1
<1>3. ASSUME Kinds[x.channel_index] = ReliableOrdered
      PROVE  ms = [k \in 1 .. n |-> [id |-> ms[k].id, message |-> ms[k].message]]
  <2>1. \A k \in 1 .. n : ms[k] \in IdMessages
    BY <1>1, <1>3
  <2>2. \A k \in 1 .. n : ms[k] = [id |-> ms[k].id, message |-> ms[k].message]
    BY <2>1 DEF IdMessages
  <2> HIDE DEF n
  <2> QED
    BY <1>2, <2>2
<1> QED
  BY <1>2, <1>3 DEF ms

\* ChannelPacketData::deserialize reads the entry, and nothing else.
LEMMA DeserializeReads ==
  ASSUME NEW x \in Entries, NEW check \in {0, 32}, NEW stream \in Seq(Tokens), NEW from \in Nat,
         FoundAt(x, check, stream, from)
  PROVE  LET entry == Deserialize(stream, from, check)
         IN  /\ entry.channel_index = x.channel_index
             /\ entry.messages = x.messages
             /\ entry.end = from + Len(Serialize(x, check))
<1> DEFINE n == Len(x.messages)
           ms == x.messages
           index == Read(stream, from + 1, "u16")
           count == 1 + Read(stream, from + 3, "u8")
           l == Len(Serialize(x, check))
           read == IF Kinds[index] = ReliableOrdered
                   THEN DeserializeOrdered(stream, from + 3, count, check)
                   ELSE DeserializeMessages(stream, from + 3, count, check)
           entry == [messages |-> read.messages, end |-> read.end, channel_index |-> index]
           bodies == [messages |-> [k \in 1 .. n |-> BodyOf(x, k)], end |-> from + l]
<1>1. /\ index = x.channel_index /\ count = n
      /\ Read(stream, from + 2, "u8") = 1
      /\ Kinds[x.channel_index] = ReliableOrdered =>
            \A k \in 1 .. n : Read(stream, from + 3 + k, "u16") = ms[k].id
  BY TokensFound
<1>2. index \in ChannelIndexes
  BY <1>1, EntryKinds
<1>3. Deserialize(stream, from, check) = entry
  BY <1>1, <1>2 DEF Deserialize
<1>4. DeserializeMessages(stream, from + BeforeBodies(x, check), n, check) = bodies
  BY BodiesRead
<1>5. read.messages = ms /\ read.end = from + l
  <2>1. CASE Kinds[x.channel_index] # ReliableOrdered
    <3>1. BeforeBodies(x, check) = 3 /\ \A k : BodyOf(x, k) = ms[k]
      BY <2>1 DEF BeforeBodies, BodyOf
    <3>2. read = bodies
      BY <1>1, <1>4, <2>1, <3>1
    <3>3. bodies.messages = [k \in 1 .. n |-> ms[k]] /\ bodies.end = from + l
      BY <3>1
    <3>4. ms = [k \in 1 .. n |-> ms[k]]
      BY MessagesAre
    <3> HIDE DEF read, bodies, ms
    <3> QED
      BY <3>2, <3>3, <3>4
  <2>2. CASE Kinds[x.channel_index] = ReliableOrdered
    <3> DEFINE both == [k \in 1 .. n |->
                          [id |-> Read(stream, from + 3 + k, "u16"), message |-> BodyOf(x, k)]]
    <3>1. from + 3 + n + Gap(check) = from + BeforeBodies(x, check)
      <4>1. n \in Nat /\ Gap(check) \in Nat /\ BeforeBodies(x, check) = 3 + (n + Gap(check))
        BY <2>2, PlacesAre, Gaps DEF BeforeBodies
      <4> HIDE DEF n
      <4> QED
        BY <4>1
    <3>2. DeserializeMessages(stream, from + 3 + n + Len(Check(check)), n, check) = bodies
      BY <1>4, <3>1 DEF Gap
    <3>3. DeserializeOrdered(stream, from + 3, n, check)
            = [bodies EXCEPT !.messages = [k \in 1 .. n |->
                  [id |-> Read(stream, from + 3 + k, "u16"), message |-> @[k]]]]
      <4> HIDE DEF bodies, n
      <4> QED
        BY <3>2 DEF DeserializeOrdered
    <3>4. bodies.messages = [k \in 1 .. n |-> BodyOf(x, k)] /\ bodies.end = from + l
      OBVIOUS
    <3>5. /\ DeserializeOrdered(stream, from + 3, n, check).messages = both
          /\ DeserializeOrdered(stream, from + 3, n, check).end = from + l
      <4> DEFINE m == [k \in 1 .. n |-> BodyOf(x, k)]
                 e == from + l
                 pair(a) == [k \in 1 .. n |->
                               [id |-> Read(stream, from + 3 + k, "u16"), message |-> a[k]]]
      <4>1. DeserializeOrdered(stream, from + 3, n, check)
              = [[messages |-> m, end |-> e] EXCEPT !.messages = pair(m)]
        BY <3>3
      <4>2. both = pair(m)
        OBVIOUS
      <4> HIDE DEF m, e, pair, both
      <4>3. [[messages |-> m, end |-> e] EXCEPT !.messages = pair(m)]
              = [messages |-> pair(m), end |-> e]
        OBVIOUS
      <4>4. e = from + l
        BY DEF e
      <4>5. /\ DeserializeOrdered(stream, from + 3, n, check).messages = pair(m)
            /\ DeserializeOrdered(stream, from + 3, n, check).end = e
        BY <4>1, <4>3
      <4> QED
        BY <4>2, <4>4, <4>5
    <3>6. both = [k \in 1 .. n |-> [id |-> ms[k].id, message |-> ms[k].message]]
      <4>1. \A k \in 1 .. n : BodyOf(x, k) = ms[k].message
        BY <2>2 DEF BodyOf
      <4>2. \A k \in 1 .. n : Read(stream, from + 3 + k, "u16") = ms[k].id
        BY <1>1, <2>2
      <4> HIDE DEF n, ms
      <4> QED
        BY <4>1, <4>2
    <3>7. ms = [k \in 1 .. n |-> [id |-> ms[k].id, message |-> ms[k].message]]
      BY <2>2, MessagesAre
    <3>8. read = DeserializeOrdered(stream, from + 3, n, check)
      BY <1>1, <2>2
    <3> HIDE DEF both, read, ms, l
    <3> QED
      BY <3>5, <3>6, <3>7, <3>8
  <2> QED
    BY <2>1, <2>2
<1> HIDE DEF read
<1>6. entry.messages = read.messages /\ entry.end = read.end /\ entry.channel_index = index
  OBVIOUS
<1> QED
  BY <1>1, <1>3, <1>5, <1>6 DEF n, ms, l

\* One turn of the loop of ConnectionPacket::deserialize.
ReadTurn(stream, check, read, n) ==
    LET entry == Deserialize(stream, read.end, check)
    IN  [end  |-> entry.end,
         data |-> Append(read.data, [channel_index |-> entry.channel_index,
                                     messages      |-> entry.messages])]

\* That loop.
Reading == INSTANCE FoldTheory WITH Op <- ReadTurn

\* at[k] tokens of the packet's stream are before the k-th entry has been read.
EntriesAt(data, check, at) ==
    LET stream == SerializeConnectionPacket(data, check)
    IN  /\ stream \in Seq(Tokens) /\ stream[1].value = Len(data)
        /\ at \in [0 .. Len(data) -> Nat]
        /\ at[0] = 1 /\ at[Len(data)] = Len(stream)
        /\ \A k \in 1 .. Len(data) :
              /\ FoundAt(data[k], check, stream, at[k - 1])
              /\ at[k] = at[k - 1] + Len(Serialize(data[k], check))

\* ConnectionPacket::serialize writes the entries one after the other.
LEMMA EntriesFound ==
  ASSUME NEW data \in Seq(Entries), NEW check \in {0, 32}
  PROVE  \E at : EntriesAt(data, check, at)
<1> DEFINE n == Len(data)
           seqs == [k \in DOMAIN data |-> Serialize(data[k], check)]
           flat == FlattenSeq(seqs)
           stream == <<U16(n)>> \o flat
<1>1. n \in Nat /\ DOMAIN data = 1 .. n /\ \A k \in 1 .. n : data[k] \in Entries
  OBVIOUS
<1>2. SerializeConnectionPacket(data, check) = stream
  BY DEF SerializeConnectionPacket
<1>3. \A k \in 1 .. n : Serialize(data[k], check) \in Seq(Tokens)
  BY <1>1, SerializeLaysOut DEF LaidOut
<1>4. seqs \in Seq(Seq(Tokens)) /\ Len(seqs) = n
      /\ \A k \in 1 .. n : seqs[k] = Serialize(data[k], check)
  <2> DEFINE S == Seq(Tokens)
  <2>1. seqs \in [1 .. n -> S] /\ \A k \in 1 .. n : seqs[k] = Serialize(data[k], check)
    BY <1>1, <1>3
  <2> HIDE DEF seqs, S, n
  <2>2. seqs \in Seq(S) /\ Len(seqs) = n
    BY <1>1, <2>1
  <2> QED
    BY <2>1, <2>2 DEF S
<1> HIDE DEF seqs
<1>5. PICK p : Pieces(Tokens, seqs, p)
  BY <1>4, FlattenPieces
<1>6. /\ p \in [0 .. n -> Nat] /\ p[0] = 0
      /\ flat \in Seq(Tokens) /\ Len(flat) = p[n]
      /\ \A k \in 1 .. n : /\ p[k] = p[k - 1] + Len(Serialize(data[k], check))
                           /\ p[k] <= p[n]
                           /\ \A j \in 1 .. Len(Serialize(data[k], check)) :
                                 flat[p[k - 1] + j] = Serialize(data[k], check)[j]
  <2>1. /\ p \in [0 .. n -> Nat] /\ p[0] = 0
        /\ flat \in Seq(Tokens) /\ Len(flat) = p[n]
        /\ \A k \in 1 .. n : p[k] = p[k - 1] + Len(seqs[k])
        /\ \A k \in 1 .. n : p[k] <= p[n]
        /\ \A k \in 1 .. n : \A j \in 1 .. Len(seqs[k]) : flat[p[k - 1] + j] = seqs[k][j]
    BY <1>4, <1>5 DEF Pieces
  <2> HIDE DEF flat, n
  <2> QED
    BY <1>4, <2>1
<1>7. U16(n) \in Tokens
  BY <1>1, TokensAre
<1>8. /\ stream \in Seq(Tokens) /\ Len(stream) = 1 + p[n]
      /\ stream[1] = U16(n)
      /\ \A j \in 1 .. p[n] : stream[1 + j] = flat[j]
  <2> DEFINE s == <<U16(n)>>
  <2>1. s \in Seq(Tokens) /\ Len(s) = 1 /\ s[1] = U16(n)
    BY <1>7
  <2> HIDE DEF s, flat
  <2>2. s \o flat \in Seq(Tokens) /\ Concatenated(s, flat, s \o flat)
    BY <1>6, <2>1, ConcatElements
  <2> QED
    BY <1>6, <2>1, <2>2 DEF Concatenated, s
<1> DEFINE at == [k \in 0 .. n |-> 1 + p[k]]
<1>9. at \in [0 .. n -> Nat] /\ \A k \in 0 .. n : at[k] = 1 + p[k]
  BY <1>6
<1>10. at[0] = 1 /\ at[n] = Len(stream)
  <2>1. 0 \in 0 .. n /\ n \in 0 .. n
    BY <1>1
  <2> QED
    BY <1>6, <1>8, <2>1
<1> HIDE DEF at, stream, flat
<1>11. ASSUME NEW k \in 1 .. n
       PROVE  /\ FoundAt(data[k], check, stream, at[k - 1])
              /\ at[k] = at[k - 1] + Len(Serialize(data[k], check))
  <2> DEFINE s == Serialize(data[k], check)
             l == Len(s)
             a == p[k - 1]
             b == p[n]
  <2>1. k \in 0 .. n /\ k - 1 \in 0 .. n /\ n \in 0 .. n
    BY <1>1
  <2>2. l \in Nat /\ a \in Nat /\ b \in Nat /\ a + l <= b /\ p[k] = a + l
        /\ at[k - 1] = 1 + a /\ at[k] = 1 + p[k]
        /\ \A j \in 1 .. l : flat[a + j] = s[j]
    <3>1. s \in Seq(Tokens)
      BY <1>3
    <3>2. l \in Nat
      <4> HIDE DEF s
      <4> QED
        BY <3>1
    <3> QED
      BY <1>6, <1>9, <2>1, <3>2
  <2>3. Len(stream) = 1 + b /\ \A j \in 1 .. b : stream[1 + j] = flat[j]
    BY <1>8
  <2> HIDE DEF l, a, b, s
  <2>4. at[k - 1] + l <= Len(stream) /\ at[k] = at[k - 1] + l
    BY <2>2, <2>3
  <2>5. ASSUME NEW j \in 1 .. l PROVE stream[at[k - 1] + j] = s[j]
    <3> DEFINE c == at[k - 1]
    <3>1. a + j \in 1 .. b /\ at[k - 1] + j = 1 + (a + j)
      <4>1. j \in Nat /\ j >= 1 /\ j <= l /\ l \in Nat /\ a \in Nat /\ b \in Nat /\ a + l <= b
            /\ c = 1 + a
        BY <2>2
      <4> HIDE DEF c
      <4>2. a + j \in 1 .. b /\ c + j = 1 + (a + j)
        BY <4>1
      <4> QED
        BY <4>2 DEF c
    <3>2. stream[1 + (a + j)] = flat[a + j]
      BY <2>3, <3>1
    <3> QED
      BY <2>2, <3>1, <3>2
  <2> QED
    BY <2>4, <2>5 DEF FoundAt, l, s
<1>12. stream[1].value = n
  BY <1>8 DEF U16
<1>13. EntriesAt(data, check, at)
  BY <1>2, <1>8, <1>9, <1>10, <1>11, <1>12 DEF EntriesAt
<1> QED
  BY <1>13

\* An entry more.
LEMMA OneMore ==
  ASSUME NEW S, NEW s \in Seq(S), NEW k \in 1 .. Len(s)
  PROVE  Append(SubSeq(s, 1, k - 1), s[k]) = SubSeq(s, 1, k)
<1> DEFINE t == SubSeq(s, 1, k - 1)
           u == SubSeq(s, 1, k)
           v == Append(t, s[k])
<1>1. Len(s) \in Nat /\ k - 1 \in 0 .. Len(s) /\ \A j \in 1 .. Len(s) : s[j] \in S
  OBVIOUS
<1>2. /\ t \in Seq(S) /\ Len(t) = k - 1 /\ \A j \in 1 .. k - 1 : t[j] = s[j]
      /\ u \in Seq(S) /\ Len(u) = k /\ \A j \in 1 .. k : u[j] = s[j]
  BY <1>1
<1> HIDE DEF t, u
<1>3. v \in Seq(S) /\ Len(v) = k /\ \A j \in 1 .. k : v[j] = IF j = k THEN s[k] ELSE t[j]
  BY <1>1, <1>2
<1>4. \A j \in 1 .. k : v[j] = u[j]
  BY <1>2, <1>3
<1> HIDE DEF v
<1>5. v = [j \in 1 .. k |-> v[j]] /\ u = [j \in 1 .. k |-> u[j]]
  BY <1>2, <1>3
<1>6. v = u
  BY <1>4, <1>5
<1> QED
  BY <1>6 DEF t, u, v

\* ConnectionPacket::deserialize reads them all.
LEMMA PacketRead ==
  ASSUME NEW data \in Seq(Entries), NEW check \in {0, 32}
  PROVE  LET stream == SerializeConnectionPacket(data, check)
         IN  DeserializeConnectionPacket(stream, check) = [end |-> Len(stream), data |-> data]
<1> DEFINE n == Len(data)
           stream == SerializeConnectionPacket(data, check)
           turns == [k \in 1 .. n |-> k]
           base == [end |-> 1, data |-> <<>>]
<1>1. PICK at : EntriesAt(data, check, at)
  BY EntriesFound
<1>2. /\ n \in Nat /\ DOMAIN data = 1 .. n /\ \A k \in 1 .. n : data[k] \in Entries
  OBVIOUS
<1>3. /\ stream \in Seq(Tokens) /\ stream[1].value = n
      /\ at \in [0 .. n -> Nat] /\ at[0] = 1 /\ at[n] = Len(stream)
      /\ \A k \in 1 .. n : /\ FoundAt(data[k], check, stream, at[k - 1])
                           /\ at[k] = at[k - 1] + Len(Serialize(data[k], check))
  BY <1>1 DEF EntriesAt
<1>4. DeserializeConnectionPacket(stream, check) = Reading!Fold(stream, check, base, turns)
  BY <1>3 DEF DeserializeConnectionPacket, ReadTurn, FoldLeft, MapThenFoldSet, Max,
              Reading!Fold, Reading!FoldLeft, Reading!MapThenFoldSet, Reading!Max
<1>5. turns \in Seq(Nat) /\ Len(turns) = n /\ \A k \in 1 .. n : turns[k] = k
  BY <1>2
<1> DEFINE state(k) == [end |-> at[k], data |-> SubSeq(data, 1, k)]
           inv == [k \in 0 .. n |-> {state(k)}]
<1> HIDE DEF turns, stream
<1>6. base \in inv[0]
  <2>1. 0 \in 0 .. n /\ SubSeq(data, 1, 0) = <<>>
    BY <1>2
  <2>2. inv[0] = {state(0)}
    BY <2>1
  <2>3. state(0) = base
    BY <1>3, <2>1
  <2> HIDE DEF inv, state, base
  <2> QED
    BY <2>2, <2>3
<1>7. ASSUME NEW k \in 1 .. Len(turns), NEW d \in inv[k - 1]
      PROVE  ReadTurn(stream, check, d, turns[k]) \in inv[k]
  <2>1. k \in 1 .. n /\ k \in 0 .. n /\ k - 1 \in 0 .. n
    BY <1>2, <1>5
  <2>2. d = state(k - 1) /\ inv[k] = {state(k)}
    BY <2>1
  <2> DEFINE x == data[k]
             entry == Deserialize(stream, at[k - 1], check)
  <2>3. x \in Entries /\ at[k - 1] \in Nat /\ FoundAt(x, check, stream, at[k - 1])
        /\ at[k] = at[k - 1] + Len(Serialize(x, check))
    BY <1>2, <1>3, <2>1
  <2>4. /\ entry.channel_index = x.channel_index
        /\ entry.messages = x.messages
        /\ entry.end = at[k]
    BY <1>3, <2>3, DeserializeReads
  <2>5. x = [channel_index |-> x.channel_index, messages |-> x.messages]
    BY <2>3, EntryKinds
  <2>6. Append(SubSeq(data, 1, k - 1), x) = SubSeq(data, 1, k)
    BY <2>1, OneMore
  <2>7. d.end = at[k - 1] /\ d.data = SubSeq(data, 1, k - 1)
    BY <2>2
  <2> HIDE DEF inv, entry, x
  <2>8. ReadTurn(stream, check, d, turns[k])
          = [end  |-> entry.end,
             data |-> Append(d.data, [channel_index |-> entry.channel_index,
                                      messages      |-> entry.messages])]
    BY <2>7 DEF ReadTurn, entry
  <2>9. ReadTurn(stream, check, d, turns[k]) = state(k)
    BY <2>4, <2>5, <2>6, <2>7, <2>8
  <2> HIDE DEF state
  <2> QED
    BY <2>2, <2>9
<1> HIDE DEF inv, state, base
<1>8. Reading!Fold(stream, check, base, turns) \in inv[Len(turns)]
  BY <1>5, <1>6, <1>7, Reading!FoldFollows
<1>9. Reading!Fold(stream, check, base, turns) = state(n)
  <2>1. n \in 0 .. n
    BY <1>2
  <2>2. inv[n] = {state(n)}
    BY <2>1 DEF inv
  <2> QED
    BY <1>5, <1>8, <2>2
<1>10. state(n) = [end |-> Len(stream), data |-> data]
  <2>1. SubSeq(data, 1, n) = data
    OBVIOUS
  <2> HIDE DEF n
  <2> QED
    BY <1>3, <2>1 DEF state
<1> QED
  BY <1>4, <1>9, <1>10 DEF stream

\* RoundTrip: ConnectionPacket::deserialize reads every packet that serialize
\* writes, entry by entry and up to its last token, with check values and without.
THEOREM BudgetRoundTrip ==
  ASSUME Configured
  PROVE  Spec => []RoundTrip
<1>1. ASSUME IInv PROVE RoundTrip
  <2>1. packet.data \in Seq(Entries)
    BY <1>1 DEF IInv
  <2> QED
    BY <2>1, PacketRead DEF RoundTrip
<1>2. IInv => RoundTrip
  BY <1>1
<1> QED
  BY <1>2, BudgetInvariant, PTL
=================================================================================
