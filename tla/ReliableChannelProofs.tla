------------------------- MODULE ReliableChannelProofs -------------------------
(***************************************************************************)
(* Theorems about ReliableChannel for every configuration that Configured  *)
(* describes and however many messages a session has.                      *)
(*                                                                         *)
(* The ids and the packet sequences wrap; the proofs follow the numbers    *)
(* they stand for.  The n-th message has the id IdOf(n), Freed counts the  *)
(* messages up to the oldest unacked one, `delivered` those up to the      *)
(* receiver's next, and the invariant keeps every number whose id is still *)
(* around within Half of these two.                                        *)
(***************************************************************************)
EXTENDS ReliableChannel, OperatorLemmas, FiniteSetTheorems

-----------------------------------------------------------------------------
(* One end: what the operators of Reliable preserve and what they do, for     *)
(* every configuration whose three buffers have good sizes.                  *)

\* The three buffers have sizes that divide the modulus and are at most half of
\* it.
GoodSizes == /\ GoodSize(SendQueueSize)
             /\ GoodSize(ReceiveQueueSize)
             /\ GoodSize(SentPacketsSize)

\* An entry of the send queue with a message of V.
SendEntries(V) == [message : V, waited : 0 .. ResendTicks]

\* An entry of sent_packets.
PacketEntries == [acked : BOOLEAN, message_ids : Seq(SeqNum)]

\* A channel with messages of V: nothing stale is in its buffers.
Reliables(V) ==
    [send_message_id           : SeqNum,
     receive_message_id        : SeqNum,
     oldest_unacked_message_id : SeqNum,
     sent_packets              : GoodBuffers(SentPacketsSize, PacketEntries),
     message_send_queue        : GoodBuffers(SendQueueSize, SendEntries(V)),
     message_receive_queue     : GoodBuffers(ReceiveQueueSize, V)]

\* The assumption on the sizes, in the words of the buffer lemmas.
LEMMA ValidSizes ==
  /\ ValidSize(SendQueueSize) /\ ValidSize(ReceiveQueueSize) /\ ValidSize(SentPacketsSize)
  /\ SendQueueSize \in Nat /\ ReceiveQueueSize \in Nat /\ SentPacketsSize \in Nat
  /\ SendQueueSize >= 1 /\ ReceiveQueueSize >= 1 /\ SentPacketsSize >= 1
BY ConfigAssumption, ModulusAssumption DEF ValidSize

\* The fields of a channel whose messages are of V.
LEMMA ReliableFields ==
  ASSUME NEW V, NEW r \in Reliables(V)
  PROVE  /\ r.send_message_id \in SeqNum
         /\ r.receive_message_id \in SeqNum
         /\ r.oldest_unacked_message_id \in SeqNum
         /\ r.sent_packets \in GoodBuffers(SentPacketsSize, PacketEntries)
         /\ r.message_send_queue \in GoodBuffers(SendQueueSize, SendEntries(V))
         /\ r.message_receive_queue \in GoodBuffers(ReceiveQueueSize, V)
BY DEF Reliables

\* A new channel is empty and begins at id 0.
LEMMA NewReliableEmpty ==
  ASSUME NEW V
  PROVE  /\ NewReliable \in Reliables(V)
         /\ NewReliable.send_message_id = 0
         /\ NewReliable.receive_message_id = 0
         /\ NewReliable.oldest_unacked_message_id = 0
         /\ NewReliable.sent_packets = NewBuffer(SentPacketsSize)
         /\ NewReliable.message_send_queue = NewBuffer(SendQueueSize)
         /\ NewReliable.message_receive_queue = NewBuffer(ReceiveQueueSize)
<1>1. 0 \in SeqNum
  BY ModulusAssumption DEF SeqNum
<1>2. /\ NewBuffer(SentPacketsSize) \in GoodBuffers(SentPacketsSize, PacketEntries)
      /\ NewBuffer(SendQueueSize) \in GoodBuffers(SendQueueSize, SendEntries(V))
      /\ NewBuffer(ReceiveQueueSize) \in GoodBuffers(ReceiveQueueSize, V)
  BY ValidSizes, EmptyHeld
<1> QED
  BY <1>1, <1>2 DEF NewReliable, Reliables

\* reset makes a channel that holds nothing and begins at id 0.
LEMMA ResetReliableEmpty ==
  ASSUME NEW V, NEW r \in Reliables(V)
  PROVE  LET n == ResetReliable(r)
         IN  /\ n \in Reliables(V)
             /\ n.send_message_id = 0
             /\ n.receive_message_id = 0
             /\ n.oldest_unacked_message_id = 0
             /\ n.sent_packets.sequence = 0 /\ Held(n.sent_packets) = {}
             /\ n.message_send_queue.sequence = 0 /\ Held(n.message_send_queue) = {}
             /\ n.message_receive_queue.sequence = 0
             /\ Held(n.message_receive_queue) = {}
<1>1. 0 \in SeqNum
  BY ModulusAssumption DEF SeqNum
<1> DEFINE a == ResetBuffer(r.sent_packets)
           b == ResetBuffer(r.message_send_queue)
           c == ResetBuffer(r.message_receive_queue)
<1>2. /\ a \in GoodBuffers(SentPacketsSize, PacketEntries)
      /\ a.sequence = 0 /\ Held(a) = {}
  BY ValidSizes, EmptyHeld, ReliableFields DEF GoodBuffers
<1>3. /\ b \in GoodBuffers(SendQueueSize, SendEntries(V))
      /\ b.sequence = 0 /\ Held(b) = {}
  BY ValidSizes, EmptyHeld, ReliableFields DEF GoodBuffers
<1>4. /\ c \in GoodBuffers(ReceiveQueueSize, V)
      /\ c.sequence = 0 /\ Held(c) = {}
  BY ValidSizes, EmptyHeld, ReliableFields DEF GoodBuffers
<1> HIDE DEF a, b, c
<1> QED
  BY <1>1, <1>2, <1>3, <1>4 DEF ResetReliable, Reliables, a, b, c

\* The minimum of two numbers.
LEMMA MinOfTwo ==
  ASSUME NEW a \in Int, NEW b \in Int
  PROVE  Min({a, b}) = IF a <= b THEN a ELSE b
<1>1. \E x \in {a, b} : \A y \in {a, b} : x <= y
  OBVIOUS
<1>2. Min({a, b}) \in {a, b} /\ \A y \in {a, b} : Min({a, b}) <= y
  BY <1>1 DEF Min
<1> QED
  BY <1>2

-----------------------------------------------------------------------------
(* The clock.                                                                *)

\* Changing only the values of a buffer, not which numbers it holds.
LEMMA SameNumbers ==
  ASSUME NEW C, ValidSize(C), NEW V, NEW b \in GoodBuffers(C, V), NEW f,
         f \in [0 .. C - 1 -> [seq : SeqNum, val : V] \cup {Empty}],
         \A i \in 0 .. C - 1 : f[i].seq = b.slots[i].seq
  PROVE  LET n == [b EXCEPT !.slots = f]
         IN  /\ n \in GoodBuffers(C, V)
             /\ n.sequence = b.sequence
             /\ n.slots = f
             /\ Held(n) = Held(b)
             /\ \A s \in SeqNum : Get(n, s) = f[s % C].val
<1> DEFINE n == [b EXCEPT !.slots = f]
<1>1. b \in BufferType(C, V) /\ DOMAIN b.slots = 0 .. C - 1 /\ b.capacity = C
  BY BufferShape DEF GoodBuffers
<1>2. n \in BufferType(C, V) /\ n.slots = f /\ n.sequence = b.sequence /\ n.capacity = C
  BY <1>1 DEF BufferType
<1> HIDE DEF n
<1>3. n \in GoodBuffers(C, V)
  <2>1. \A i \in 0 .. C - 1 :
           b.slots[i].seq # NoSeq => /\ b.slots[i].seq % C = i
                                     /\ Behind(b.sequence, b.slots[i].seq) < C
    BY <1>1, GoodSlots
  <2>2. \A i \in 0 .. C - 1 :
           n.slots[i].seq # NoSeq => /\ n.slots[i].seq % C = i
                                     /\ Behind(n.sequence, n.slots[i].seq) < C
    BY <1>2, <2>1
  <2> QED
    BY <1>2, <2>2, GoodSlots
<1>4. Held(n) = Held(b)
  <2>1. DOMAIN n.slots = 0 .. C - 1
    BY <1>2
  <2> QED
    BY <1>1, <1>2, <2>1 DEF Held
<1> QED
  BY <1>2, <1>3, <1>4 DEF n, Get, SequenceIndex

\* advance_time changes only the times in the send queue.
LEMMA AdvanceKeeps ==
  ASSUME NEW V, NEW r \in Reliables(V)
  PROVE  LET n == AdvanceReliable(r)
         IN  /\ n \in Reliables(V)
             /\ n.send_message_id = r.send_message_id
             /\ n.receive_message_id = r.receive_message_id
             /\ n.oldest_unacked_message_id = r.oldest_unacked_message_id
             /\ n.sent_packets = r.sent_packets
             /\ n.message_receive_queue = r.message_receive_queue
             /\ n.message_send_queue.sequence = r.message_send_queue.sequence
             /\ Held(n.message_send_queue) = Held(r.message_send_queue)
             /\ \A id \in Held(r.message_send_queue) :
                   Get(n.message_send_queue, id).message
                       = Get(r.message_send_queue, id).message
<1> DEFINE q == r.message_send_queue
           tick(slot) == IF slot = Empty THEN Empty
                         ELSE [slot EXCEPT !.val.waited = Min({@ + 1, ResendTicks})]
           f == [i \in 0 .. SendQueueSize - 1 |-> tick(q.slots[i])]
           n == [q EXCEPT !.slots = f]
<1>1. /\ q \in GoodBuffers(SendQueueSize, SendEntries(V))
      /\ q \in BufferType(SendQueueSize, SendEntries(V))
      /\ DOMAIN q.slots = 0 .. SendQueueSize - 1
      /\ q.capacity = SendQueueSize
  BY ReliableFields, ValidSizes, BufferShape DEF GoodBuffers
<1>2. AdvanceReliable(r) = [r EXCEPT !.message_send_queue = n]
  BY <1>1 DEF AdvanceReliable
<1>3. ASSUME NEW i \in 0 .. SendQueueSize - 1
      PROVE  /\ f[i] \in [seq : SeqNum, val : SendEntries(V)] \cup {Empty}
             /\ f[i].seq = q.slots[i].seq
             /\ f[i] # Empty => f[i].val.message = q.slots[i].val.message
  <2> DEFINE slot == q.slots[i]
  <2>1. f[i] = tick(slot)
    OBVIOUS
  <2>2. CASE slot = Empty
    BY <2>1, <2>2
  <2>3. CASE slot # Empty
    <3>1. slot \in [seq : SeqNum, val : SendEntries(V)]
      BY <1>1, <2>3, BufferShape, ValidSizes
    <3>2. Min({slot.val.waited + 1, ResendTicks}) \in 0 .. ResendTicks
      <4>1. slot.val.waited \in 0 .. ResendTicks /\ ResendTicks \in Nat
        BY <3>1, ConfigAssumption DEF SendEntries
      <4> QED
        BY <4>1, MinOfTwo
    <3> HIDE DEF slot
    <3>3. tick(slot) = [slot EXCEPT !.val.waited = Min({slot.val.waited + 1, ResendTicks})]
      BY <2>3
    <3>4. /\ tick(slot) \in [seq : SeqNum, val : SendEntries(V)]
          /\ tick(slot).seq = slot.seq
          /\ tick(slot).val.message = slot.val.message
      BY <3>1, <3>2, <3>3 DEF SendEntries
    <3> QED
      BY <2>1, <3>4 DEF slot
  <2> QED
    BY <2>2, <2>3
<1>4. f \in [0 .. SendQueueSize - 1 -> [seq : SeqNum, val : SendEntries(V)] \cup {Empty}]
  BY <1>3
<1> HIDE DEF f
<1>5. /\ n \in GoodBuffers(SendQueueSize, SendEntries(V))
      /\ n.sequence = q.sequence
      /\ Held(n) = Held(q)
      /\ \A s \in SeqNum : Get(n, s) = f[s % SendQueueSize].val
  BY <1>1, <1>3, <1>4, ValidSizes, SameNumbers
<1>6. ASSUME NEW id \in Held(q) PROVE Get(n, id).message = Get(q, id).message
  <2>1. id \in SeqNum /\ q.slots[id % SendQueueSize].seq = id
    BY <1>1, HeldNumbers, ValidSizes
  <2>2. id % SendQueueSize \in 0 .. SendQueueSize - 1 /\ id # NoSeq
    BY <2>1, ValidSizes, CapacityRange DEF SeqNum, NoSeq
  <2>3. f[id % SendQueueSize].seq = id
    BY <1>3, <2>1, <2>2
  <2>4. f[id % SendQueueSize] # Empty
    BY <2>2, <2>3 DEF Empty
  <2> QED
    BY <1>1, <1>3, <1>5, <2>1, <2>2, <2>4 DEF Get, SequenceIndex
<1> HIDE DEF n, q
<1> QED
  BY <1>2, <1>5, <1>6 DEF Reliables, q

-----------------------------------------------------------------------------
(* The application's side.                                                   *)

\* send_message adds one message at the end of the send queue and disturbs no
\* other.
LEMMA EnqueueAppends ==
  ASSUME GoodSizes, NEW V, NEW r \in Reliables(V), NEW m \in V,
         CanSendMessage(r), r.message_send_queue.sequence = r.send_message_id
  PROVE  LET n == EnqueueMessage(r, m)
             q == r.message_send_queue
             k == n.message_send_queue
         IN  /\ n \in Reliables(V)
             /\ n.send_message_id = WrappingAdd(r.send_message_id, 1)
             /\ n.receive_message_id = r.receive_message_id
             /\ n.oldest_unacked_message_id = r.oldest_unacked_message_id
             /\ n.sent_packets = r.sent_packets
             /\ n.message_receive_queue = r.message_receive_queue
             /\ k.sequence = n.send_message_id
             /\ Held(k) = {r.send_message_id} \cup Held(q)
             /\ Get(k, r.send_message_id).message = m
             /\ \A u \in Held(q) : u # r.send_message_id /\ Get(k, u) = Get(q, u)
<1> DEFINE q == r.message_send_queue
           h == r.send_message_id
           v == [message |-> m, waited |-> FirstWait]
           k == InsertWith(q, h, v)
<1>1. q \in GoodBuffers(SendQueueSize, SendEntries(V)) /\ h \in SeqNum
  BY ReliableFields
<1>2. v \in SendEntries(V)
  BY ConfigAssumption DEF SendEntries
<1>3. h \in Int /\ h % Modulus = h
  <2> HIDE DEF h
  <2>1. h \in Int
    BY <1>1, ModulusAssumption DEF SeqNum
  <2> QED
    BY <1>1, <2>1, Wrapped
<1>4. q.sequence = h % Modulus /\ Available(q, q.sequence)
  BY <1>3 DEF CanSendMessage
<1> HIDE DEF q, h, v
<1>5. /\ k \in GoodBuffers(SendQueueSize, SendEntries(V))
      /\ k.sequence = (h + 1) % Modulus
      /\ Held(k) = {h} \cup Held(q)
      /\ Get(k, h) = v
      /\ \A u \in Held(q) : u # h /\ Get(k, u) = Get(q, u)
  <2>1. LET s == h % Modulus
            n == InsertWith(q, s, v)
        IN  /\ n \in GoodBuffers(SendQueueSize, SendEntries(V))
            /\ n.sequence = (h + 1) % Modulus
            /\ Held(n) = {s} \cup Held(q)
            /\ Get(n, s) = v
            /\ \A u \in Held(q) : u # s /\ Get(n, u) = Get(q, u)
    BY <1>1, <1>2, <1>3, <1>4, ValidSizes, InsertNext DEF GoodSizes
  <2> QED
    BY <1>3, <2>1
<1>6. WrappingAdd(h, 1) = (h + 1) % Modulus /\ WrappingAdd(h, 1) \in SeqNum
  BY <1>1, NextNumber DEF WrappingAdd
<1>7. v.message = m
  BY DEF v
<1>8. EnqueueMessage(r, m) = [r EXCEPT !.message_send_queue = k,
                                       !.send_message_id = WrappingAdd(h, 1)]
  BY DEF EnqueueMessage, q, h, v
<1> HIDE DEF k
<1> QED
  BY <1>1, <1>5, <1>6, <1>7, <1>8 DEF Reliables, q, h

\* The id of the next message is the one the send queue expects: its assertion holds.
LEMMA SendNeverFails ==
  ASSUME NEW V, NEW r \in Reliables(V), r.message_send_queue.sequence = r.send_message_id
  PROVE  ~SendFails(r)
<1> DEFINE h == r.send_message_id
<1>1. h \in SeqNum
  BY ReliableFields
<1> HIDE DEF h
<1>2. h \in Int /\ h + 1 \in Int /\ 0 < (h + 1) - h /\ (h + 1) - h < Half
  BY <1>1, HalfOfModulus, ModulusAssumption DEF SeqNum
<1>3. h % Modulus = h /\ WrappingAdd(h, 1) = (h + 1) % Modulus
  BY <1>1, <1>2, Wrapped DEF WrappingAdd
<1>4. SequenceGreaterThan(WrappingAdd(h, 1), h)
  BY <1>2, <1>3, WrappedGreater
<1> QED
  BY <1>4 DEF SendFails, TooOld, Advances, h

\* receive_message takes the next message and disturbs no other.
LEMMA DequeueTakes ==
  ASSUME NEW V, NEW r \in Reliables(V)
  PROVE  LET n == DequeueMessage(r)
             q == r.message_receive_queue
             k == n.message_receive_queue
         IN  /\ n \in Reliables(V)
             /\ n.send_message_id = r.send_message_id
             /\ n.receive_message_id = WrappingAdd(r.receive_message_id, 1)
             /\ n.oldest_unacked_message_id = r.oldest_unacked_message_id
             /\ n.sent_packets = r.sent_packets
             /\ n.message_send_queue = r.message_send_queue
             /\ k.sequence = q.sequence
             /\ Held(k) = Held(q) \ {r.receive_message_id}
             /\ \A u \in Held(k) : Get(k, u) = Get(q, u)
<1> DEFINE q == r.message_receive_queue
           h == r.receive_message_id
           k == Take(q, h)
<1>1. q \in GoodBuffers(ReceiveQueueSize, V) /\ h \in SeqNum
  BY ReliableFields
<1>2. /\ k \in GoodBuffers(ReceiveQueueSize, V)
      /\ k.sequence = q.sequence
      /\ Held(k) = Held(q) \ {h}
      /\ \A u \in Held(k) : Get(k, u) = Get(q, u)
  BY <1>1, ValidSizes, TakeInWindow, TakeHeld
<1>3. WrappingAdd(h, 1) \in SeqNum
  BY <1>1, NextNumber
<1>4. DequeueMessage(r) = [r EXCEPT !.message_receive_queue = k,
                                    !.receive_message_id = WrappingAdd(h, 1)]
  BY DEF DequeueMessage
<1> HIDE DEF q, h, k
<1> QED
  BY <1>1, <1>2, <1>3, <1>4 DEF Reliables, q, h

-----------------------------------------------------------------------------
(* Generating a packet.                                                      *)

\* The loop of get_messages_to_send.
Choosing == INSTANCE FoldTheory WITH Op <- Consider

\* How many ids get_messages_to_send looks at.
MinQueueSize == Min({SendQueueSize, ReceiveQueueSize})

\* MeasureSerializer counts bits.
Measured(V) == \A m \in V : MeasuredBits(m) \in Nat

\* What the loop of get_messages_to_send has chosen so far.
ChoicesOf == [ids : Seq(SeqNum), used : Int]

\* It looks at no more than either queue has.
LEMMA QueueSizes ==
  /\ MinQueueSize \in Nat /\ MinQueueSize >= 1
  /\ MinQueueSize <= SendQueueSize /\ MinQueueSize <= ReceiveQueueSize
BY ValidSizes, MinOfTwo DEF MinQueueSize

\* The ids it looks at are consecutive from the oldest unacked one.
LEMMA CandidateIds ==
  ASSUME NEW V, NEW r \in Reliables(V)
  PROVE  /\ Candidates(r) \in Seq(SeqNum)
         /\ Len(Candidates(r)) = MinQueueSize
         /\ \A i \in 1 .. MinQueueSize :
               Candidates(r)[i] = WrappingAdd(r.oldest_unacked_message_id, i - 1)
<1>1. Candidates(r) = [i \in 1 .. MinQueueSize |->
                          WrappingAdd(r.oldest_unacked_message_id, i - 1)]
  BY DEF Candidates, MinQueueSize
<1>2. ASSUME NEW i \in 1 .. MinQueueSize
      PROVE  WrappingAdd(r.oldest_unacked_message_id, i - 1) \in SeqNum
  <2>1. r.oldest_unacked_message_id + (i - 1) \in Int
    BY ReliableFields, ModulusAssumption, QueueSizes DEF SeqNum
  <2> QED
    BY <2>1, Wrapped DEF WrappingAdd
<1>3. Candidates(r) \in [1 .. MinQueueSize -> SeqNum]
  BY <1>1, <1>2
<1>4. MinQueueSize \in Nat
  BY QueueSizes
<1> HIDE DEF MinQueueSize
<1> QED
  BY <1>1, <1>3, <1>4

\* One round of get_messages_to_send takes no id, or one more that is in the
\* send queue.
LEMMA ConsiderKeeps ==
  ASSUME NEW V, Measured(V), NEW r \in Reliables(V), NEW available,
         NEW d \in ChoicesOf, NEW id \in SeqNum
  PROVE  LET n == Consider(r, available, d, id)
         IN  /\ n \in ChoicesOf
             /\ \/ n = d
                \/ /\ n.ids = Append(d.ids, id)
                   /\ Len(d.ids) < MaxPerPacket
                   /\ id \in Held(r.message_send_queue)
<1> DEFINE q == r.message_send_queue
           bits == MeasuredBits(Get(q, id).message) + MessageIdBits
           n == Consider(r, available, d, id)
<1>1. q \in GoodBuffers(SendQueueSize, SendEntries(V))
  BY ReliableFields
<1>2. Exists(q, id) => id \in Held(q) /\ Get(q, id).message \in V
  <2> SUFFICES ASSUME Exists(q, id) PROVE id \in Held(q) /\ Get(q, id).message \in V
    OBVIOUS
  <2>1. id \in Held(q)
    BY <1>1, ValidSizes, ExistsHeld
  <2>2. Get(q, id) \in SendEntries(V)
    BY <1>1, <2>1, ValidSizes, HeldValue
  <2> QED
    BY <2>1, <2>2 DEF SendEntries
<1> HIDE DEF bits
<1>3. \/ n = d
      \/ /\ n = [ids |-> Append(d.ids, id), used |-> d.used + bits]
         /\ Len(d.ids) < MaxPerPacket
         /\ Exists(q, id)
  BY DEF Consider, bits
<1>4. Exists(q, id) => bits \in Int
  BY <1>2 DEF bits, Measured, MessageIdBits
<1> HIDE DEF n, q
<1>5. CASE n = d
  BY <1>5 DEF n
<1>6. CASE /\ n = [ids |-> Append(d.ids, id), used |-> d.used + bits]
           /\ Len(d.ids) < MaxPerPacket
           /\ Exists(q, id)
  <2>1. Append(d.ids, id) \in Seq(SeqNum) /\ d.used + bits \in Int
    BY <1>4, <1>6 DEF ChoicesOf
  <2>2. n \in ChoicesOf /\ n.ids = Append(d.ids, id)
    BY <1>6, <2>1 DEF ChoicesOf
  <2> QED
    BY <1>2, <1>6, <2>2 DEF n, q
<1> QED
  BY <1>3, <1>5, <1>6

\* The messages chosen for a packet are among the first of the send queue, and
\* no more than a packet takes.
LEMMA MessagesChosen ==
  ASSUME NEW V, Measured(V), NEW r \in Reliables(V), NEW bits
  PROVE  LET ids == GetMessagesToSend(r, bits).ids
         IN  /\ ids \in Seq(SeqNum)
             /\ Len(ids) <= MaxPerPacket
             /\ \A i \in 1 .. Len(ids) :
                   /\ ids[i] \in Held(r.message_send_queue)
                   /\ \E j \in 0 .. MinQueueSize - 1 :
                         ids[i] = WrappingAdd(r.oldest_unacked_message_id, j)
<1> DEFINE available == Min({PacketBudget, bits})
           base == [ids |-> <<>>, used |-> MessageHeaderBits]
           cs == Candidates(r)
           Offered == {c \in Held(r.message_send_queue) :
                         \E j \in 0 .. MinQueueSize - 1 :
                            c = WrappingAdd(r.oldest_unacked_message_id, j)}
           I == {d \in ChoicesOf : /\ Len(d.ids) <= MaxPerPacket
                                 /\ \A i \in 1 .. Len(d.ids) : d.ids[i] \in Offered}
           Inv == [k \in 0 .. Len(cs) |-> I]
           end == Choosing!Fold(r, available, base, cs)
<1>1. GetMessagesToSend(r, bits) = end
  BY DEF GetMessagesToSend, FoldLeft, MapThenFoldSet, Max, Choosing!Fold,
         Choosing!FoldLeft, Choosing!MapThenFoldSet, Choosing!Max
<1>2. cs \in Seq(SeqNum) /\ Len(cs) = MinQueueSize /\ MinQueueSize \in Nat
  BY CandidateIds, QueueSizes
<1>3. base \in ChoicesOf /\ base \in I /\ 0 \in 0 .. Len(cs)
  <2>1. base \in ChoicesOf /\ Len(base.ids) = 0
    BY DEF ChoicesOf, MessageHeaderBits
  <2>2. MaxPerPacket \in Nat
    BY ConfigAssumption
  <2> HIDE DEF base, Offered
  <2> QED
    BY <1>2, <2>1, <2>2
<1> HIDE DEF available, base
<1>4. \A d \in ChoicesOf, e \in SeqNum : Consider(r, available, d, e) \in ChoicesOf
  BY ConsiderKeeps
<1>5. ASSUME NEW k \in 1 .. Len(cs), NEW d \in ChoicesOf, d \in Inv[k - 1]
      PROVE  Consider(r, available, d, cs[k]) \in Inv[k]
  <2> DEFINE n == Consider(r, available, d, cs[k])
  <2>1. d \in I /\ Inv[k] = I /\ cs[k] \in SeqNum /\ MaxPerPacket \in Nat
    BY <1>2, <1>5, ConfigAssumption
  <2>2. /\ n \in ChoicesOf
        /\ \/ n = d
           \/ /\ n.ids = Append(d.ids, cs[k])
              /\ Len(d.ids) < MaxPerPacket
              /\ cs[k] \in Held(r.message_send_queue)
    <3> HIDE DEF cs, I, Inv
    <3>1. cs[k] \in SeqNum
      BY <2>1
    <3> QED
      BY <3>1, ConsiderKeeps
  <2>3. \E j \in 0 .. MinQueueSize - 1 :
            cs[k] = WrappingAdd(r.oldest_unacked_message_id, j)
    <3>1. k \in 1 .. MinQueueSize /\ k - 1 \in 0 .. MinQueueSize - 1
      BY <1>2
    <3>2. cs[k] = WrappingAdd(r.oldest_unacked_message_id, k - 1)
      BY <3>1, CandidateIds
    <3> QED
      BY <3>1, <3>2
  <2> HIDE DEF cs, n
  <2>4. n \in I
    <3>1. CASE n = d
      BY <2>1, <3>1
    <3>2. CASE /\ n.ids = Append(d.ids, cs[k])
               /\ Len(d.ids) < MaxPerPacket
               /\ cs[k] \in Held(r.message_send_queue)
      <4>1. cs[k] \in Offered
        BY <2>3, <3>2
      <4>2. d.ids \in Seq(SeqNum)
        BY DEF ChoicesOf
      <4> HIDE DEF Offered
      <4>3. /\ Len(n.ids) = Len(d.ids) + 1
            /\ \A i \in 1 .. Len(d.ids) : n.ids[i] = d.ids[i]
            /\ n.ids[Len(d.ids) + 1] = cs[k]
        BY <2>1, <3>2, <4>2
      <4>4. Len(d.ids) \in Nat
        BY <4>2
      <4>5. ASSUME NEW i \in 1 .. Len(n.ids) PROVE n.ids[i] \in Offered
        <5>1. i \in 1 .. Len(d.ids) \/ i = Len(d.ids) + 1
          BY <4>3, <4>4
        <5>2. \A j \in 1 .. Len(d.ids) : d.ids[j] \in Offered
          BY <2>1
        <5> QED
          BY <4>1, <4>3, <5>1, <5>2
      <4>6. Len(n.ids) <= MaxPerPacket
        BY <2>1, <3>2, <4>3, <4>4
      <4>7. n.ids \in Seq(SeqNum)
        BY <2>2 DEF ChoicesOf
      <4> HIDE DEF n
      <4> QED
        BY <2>2, <4>5, <4>6, <4>7
    <3> QED
      BY <2>2, <3>1, <3>2
  <2> QED
    BY <2>1, <2>4 DEF n
<1>6. base \in Inv[0] /\ Inv[Len(cs)] = I
  <2>1. Len(cs) \in 0 .. Len(cs)
    BY <1>2
  <2> HIDE DEF I
  <2> QED
    BY <1>3, <2>1
<1>7. end \in ChoicesOf /\ end \in Inv[Len(cs)]
  <2> HIDE DEF Inv, cs
  <2> QED
    BY <1>2, <1>3, <1>4, <1>5, <1>6, Choosing!FoldKeeps, ZenonT(30)
<1>8. end \in ChoicesOf /\ end \in I
  BY <1>6, <1>7
<1> HIDE DEF end
<1> QED
  BY <1>1, <1>8 DEF ChoicesOf

\* The timers of the messages sent are restarted, nothing else changes in the queue.
LEMMA RestartedKeeps ==
  ASSUME NEW V, NEW q \in GoodBuffers(SendQueueSize, SendEntries(V)),
         NEW ids \in Seq(SeqNum)
  PROVE  LET n == Restarted(q, ids)
         IN  /\ n \in GoodBuffers(SendQueueSize, SendEntries(V))
             /\ n.sequence = q.sequence
             /\ Held(n) = Held(q)
             /\ \A id \in Held(q) : Get(n, id).message = Get(q, id).message
<1> DEFINE T == ToSet(ids)
           sent(slot) == IF slot.seq \in T THEN [slot EXCEPT !.val.waited = 0] ELSE slot
           f == [i \in DOMAIN q.slots |-> sent(q.slots[i])]
           n == [q EXCEPT !.slots = f]
<1>0. T \subseteq SeqNum
  BY DEF ToSet
<1>1. /\ q \in BufferType(SendQueueSize, SendEntries(V))
      /\ DOMAIN q.slots = 0 .. SendQueueSize - 1
      /\ q.capacity = SendQueueSize
  BY ValidSizes, BufferShape DEF GoodBuffers
<1>2. ASSUME NEW i \in 0 .. SendQueueSize - 1
      PROVE  /\ f[i] \in [seq : SeqNum, val : SendEntries(V)] \cup {Empty}
             /\ f[i].seq = q.slots[i].seq
             /\ q.slots[i].seq \in SeqNum => f[i].val.message = q.slots[i].val.message
  <2> DEFINE slot == q.slots[i]
  <2> HIDE DEF T
  <2>1. f[i] = sent(slot)
    BY <1>1
  <2>2. NoSeq \notin SeqNum
    BY DEF NoSeq, SeqNum
  <2>3. CASE slot = Empty
    <3>1. slot.seq = NoSeq
      BY <2>3 DEF Empty
    <3>2. f[i] = slot
      BY <1>0, <2>1, <2>2, <3>1
    <3> QED
      BY <2>2, <2>3, <3>1, <3>2
  <2>4. CASE slot # Empty
    <3>1. slot \in [seq : SeqNum, val : SendEntries(V)]
      BY <1>1, <2>4, BufferShape, ValidSizes
    <3>2. 0 \in 0 .. ResendTicks
      BY ConfigAssumption
    <3> HIDE DEF slot
    <3>3. /\ sent(slot) \in [seq : SeqNum, val : SendEntries(V)]
          /\ sent(slot).seq = slot.seq
          /\ sent(slot).val.message = slot.val.message
      BY <3>1, <3>2 DEF SendEntries
    <3> QED
      BY <2>1, <3>3 DEF slot
  <2> QED
    BY <2>3, <2>4
<1>3. f \in [0 .. SendQueueSize - 1 -> [seq : SeqNum, val : SendEntries(V)] \cup {Empty}]
  BY <1>1, <1>2
<1> HIDE DEF f, T
<1>4. /\ n \in GoodBuffers(SendQueueSize, SendEntries(V))
      /\ n.sequence = q.sequence
      /\ Held(n) = Held(q)
      /\ \A s \in SeqNum : Get(n, s) = f[s % SendQueueSize].val
  BY <1>2, <1>3, ValidSizes, SameNumbers, SMTT(30)
<1>5. ASSUME NEW id \in Held(q) PROVE Get(n, id).message = Get(q, id).message
  <2>1. id \in SeqNum /\ q.slots[id % SendQueueSize].seq = id
    BY HeldNumbers, ValidSizes
  <2>2. id % SendQueueSize \in 0 .. SendQueueSize - 1
    BY <2>1, ValidSizes, CapacityRange
  <2> QED
    BY <1>1, <1>2, <1>4, <2>1, <2>2 DEF Get, SequenceIndex
<1>6. Restarted(q, ids) = n
  BY DEF Restarted, f, T
<1> HIDE DEF n
<1> QED
  BY <1>4, <1>5, <1>6

\* Packing messages changes their times and adds an entry to sent_packets, and
\* nothing else.
LEMMA PackedChannel ==
  ASSUME GoodSizes, NEW V, NEW r \in Reliables(V), NEW packet_number \in SeqNum,
         NEW ids \in Seq(SeqNum), NEW used
  PROVE  LET n == PackMessages(r, packet_number, ids, used).channel
             q == r.message_send_queue
             k == n.message_send_queue
         IN  /\ n \in Reliables(V)
             /\ n.send_message_id = r.send_message_id
             /\ n.receive_message_id = r.receive_message_id
             /\ n.oldest_unacked_message_id = r.oldest_unacked_message_id
             /\ n.message_receive_queue = r.message_receive_queue
             /\ n.sent_packets = InsertWith(r.sent_packets, packet_number,
                                            [acked |-> FALSE, message_ids |-> ids])
             /\ k.sequence = q.sequence
             /\ Held(k) = Held(q)
             /\ \A id \in Held(q) : Get(k, id).message = Get(q, id).message
<1> DEFINE q == r.message_send_queue
           k == Restarted(q, ids)
           entry == [acked |-> FALSE, message_ids |-> ids]
           p == InsertWith(r.sent_packets, packet_number, entry)
<1>1. /\ q \in GoodBuffers(SendQueueSize, SendEntries(V))
      /\ r.sent_packets \in GoodBuffers(SentPacketsSize, PacketEntries)
  BY ReliableFields
<1>3. /\ k \in GoodBuffers(SendQueueSize, SendEntries(V))
      /\ k.sequence = q.sequence
      /\ Held(k) = Held(q)
      /\ \A id \in Held(q) : Get(k, id).message = Get(q, id).message
  BY <1>1, RestartedKeeps
<1>4. entry \in PacketEntries
  BY DEF PacketEntries
<1> HIDE DEF entry
<1>5. p \in GoodBuffers(SentPacketsSize, PacketEntries)
  BY <1>1, <1>4, ValidSizes, InsertWithInWindow DEF GoodSizes
<1>6. PackMessages(r, packet_number, ids, used).channel
        = [r EXCEPT !.message_send_queue = k, !.sent_packets = p]
  BY DEF PackMessages, Reliables, entry
<1> HIDE DEF k, p
<1> QED
  BY <1>1, <1>3, <1>5, <1>6 DEF Reliables, p, entry, q

\* A packet with messages of the channel, or none.
MessagesOf(V) == Seq([id : SeqNum, message : V])

\* The ids of a packet's messages.
IdsOf(messages) == [i \in DOMAIN messages |-> messages[i].id]

\* They are sequence numbers.
LEMMA IdsOfMessages ==
  ASSUME NEW V, NEW messages \in MessagesOf(V)
  PROVE  IdsOf(messages) \in Seq(SeqNum)
<1> DEFINE E == [id : SeqNum, message : V]
           l == Len(messages)
<1>1. messages \in Seq(E)
  BY DEF MessagesOf
<1>2. \A e \in E : e.id \in SeqNum
  OBVIOUS
<1> HIDE DEF E
<1>3. l \in Nat /\ DOMAIN messages = 1 .. l /\ \A i \in 1 .. l : messages[i] \in E
  BY <1>1
<1> HIDE DEF l
<1>4. IdsOf(messages) \in [1 .. l -> SeqNum]
  BY <1>2, <1>3 DEF IdsOf
<1> QED
  BY <1>3, <1>4

\* The packet has the chosen messages, in order, with their ids.
LEMMA PackedMessages ==
  ASSUME NEW V, NEW r \in Reliables(V), NEW packet_number,
         NEW ids \in Seq(SeqNum), NEW used,
         \A i \in 1 .. Len(ids) : ids[i] \in Held(r.message_send_queue)
  PROVE  LET m == PackMessages(r, packet_number, ids, used).messages
         IN  /\ m \in MessagesOf(V)
             /\ Len(m) = Len(ids)
             /\ IdsOf(m) = ids
             /\ \A i \in 1 .. Len(ids) :
                   /\ m[i].id = ids[i]
                   /\ m[i].message = Get(r.message_send_queue, ids[i]).message
<1> DEFINE q == r.message_send_queue
           m == [i \in DOMAIN ids |-> [id |-> ids[i], message |-> Get(q, ids[i]).message]]
<1>1. PackMessages(r, packet_number, ids, used).messages = m
  BY DEF PackMessages
<1>2. DOMAIN ids = 1 .. Len(ids) /\ Len(ids) \in Nat
  OBVIOUS
<1>3. ASSUME NEW i \in 1 .. Len(ids)
      PROVE  ids[i] \in SeqNum /\ Get(q, ids[i]).message \in V
  <2>1. ids[i] \in SeqNum /\ q \in GoodBuffers(SendQueueSize, SendEntries(V))
    BY ReliableFields
  <2>2. Get(q, ids[i]) \in SendEntries(V)
    BY <2>1, ValidSizes, HeldValue
  <2> QED
    BY <2>1, <2>2 DEF SendEntries
<1>4. m \in [1 .. Len(ids) -> [id : SeqNum, message : V]]
  BY <1>2, <1>3
<1>5. m \in MessagesOf(V) /\ Len(m) = Len(ids)
  <2> HIDE DEF m
  <2> QED
    <3> DEFINE E == [id : SeqNum, message : V]
               l == Len(ids)
    <3>1. l \in Nat /\ m \in [1 .. l -> E]
      BY <1>2, <1>4
    <3> HIDE DEF E, l
    <3>2. m \in Seq(E) /\ Len(m) = l
      BY <3>1
    <3> QED
      BY <3>2 DEF MessagesOf, E, l
<1>6. \A i \in 1 .. Len(ids) : m[i].id = ids[i] /\ m[i].message = Get(q, ids[i]).message
  BY <1>2
<1>7. IdsOf(m) = ids
  <2>1. DOMAIN m = DOMAIN ids
    OBVIOUS
  <2> HIDE DEF m
  <2> QED
    BY <1>2, <1>6, <2>1 DEF IdsOf
<1> HIDE DEF m
<1> QED
  BY <1>1, <1>5, <1>6, <1>7

\* A packet with the messages m, among the first of r's, was made of r and left n.
PacketFilled(V, r, packet_number, n, m) ==
    LET q == r.message_send_queue
        k == n.message_send_queue
    IN  /\ m \in MessagesOf(V) /\ m # <<>> /\ Len(m) <= MaxPerPacket
        /\ \A i \in 1 .. Len(m) :
              /\ m[i].id \in Held(q)
              /\ m[i].message = Get(q, m[i].id).message
              /\ \E j \in 0 .. MinQueueSize - 1 :
                    m[i].id = WrappingAdd(r.oldest_unacked_message_id, j)
        /\ n \in Reliables(V)
        /\ n.send_message_id = r.send_message_id
        /\ n.receive_message_id = r.receive_message_id
        /\ n.oldest_unacked_message_id = r.oldest_unacked_message_id
        /\ n.message_receive_queue = r.message_receive_queue
        /\ n.sent_packets = InsertWith(r.sent_packets, packet_number,
                                       [acked |-> FALSE, message_ids |-> IdsOf(m)])
        /\ k.sequence = q.sequence
        /\ Held(k) = Held(q)
        /\ \A id \in Held(q) : Get(k, id).message = Get(q, id).message

\* packet_data leaves the channel alone and sends nothing of it, or sends some of
\* its first messages.
LEMMA PacketDataSends ==
  ASSUME GoodSizes, NEW V, Measured(V), NEW r \in Reliables(V),
         NEW packet_number \in SeqNum, NEW bits
  PROVE  LET data == PacketData(r, packet_number, bits)
         IN  \/ data.channel = r /\ data.messages = <<>>
             \/ PacketFilled(V, r, packet_number, data.channel, data.messages)
<1> DEFINE ids == GetMessagesToSend(r, bits).ids
           used == GetMessagesToSend(r, bits).used
           packed == PackMessages(r, packet_number, ids, used)
           m == packed.messages
           n == packed.channel
           q == r.message_send_queue
           k == n.message_send_queue
<1>1. /\ ids \in Seq(SeqNum)
      /\ Len(ids) <= MaxPerPacket
      /\ \A i \in 1 .. Len(ids) :
            /\ ids[i] \in Held(q)
            /\ \E j \in 0 .. MinQueueSize - 1 :
                  ids[i] = WrappingAdd(r.oldest_unacked_message_id, j)
  BY MessagesChosen
<1>2. \/ /\ PacketData(r, packet_number, bits).channel = r
         /\ PacketData(r, packet_number, bits).messages = <<>>
      \/ PacketData(r, packet_number, bits) = packed /\ ids # <<>>
  BY DEF PacketData
<1> HIDE DEF ids, used
<1>3. /\ m \in MessagesOf(V)
      /\ Len(m) = Len(ids)
      /\ IdsOf(m) = ids
      /\ \A i \in 1 .. Len(ids) : m[i].id = ids[i] /\ m[i].message = Get(q, ids[i]).message
  BY <1>1, PackedMessages
<1>4. ids # <<>> => m # <<>>
  BY <1>1, <1>3 DEF MessagesOf
<1>5. /\ n \in Reliables(V)
      /\ n.send_message_id = r.send_message_id
      /\ n.receive_message_id = r.receive_message_id
      /\ n.oldest_unacked_message_id = r.oldest_unacked_message_id
      /\ n.message_receive_queue = r.message_receive_queue
      /\ n.sent_packets = InsertWith(r.sent_packets, packet_number,
                                     [acked |-> FALSE, message_ids |-> ids])
      /\ k.sequence = q.sequence
      /\ Held(k) = Held(q)
      /\ \A id \in Held(q) : Get(k, id).message = Get(q, id).message
  BY <1>1, PackedChannel
<1>6. CASE PacketData(r, packet_number, bits) = packed /\ ids # <<>>
  <2>1. /\ PacketData(r, packet_number, bits).channel = n
        /\ PacketData(r, packet_number, bits).messages = m
    BY <1>6
  <2> HIDE DEF packed, m, n
  <2>2. \A i \in 1 .. Len(m) :
           /\ m[i].id \in Held(q)
           /\ m[i].message = Get(q, m[i].id).message
           /\ \E j \in 0 .. MinQueueSize - 1 :
                 m[i].id = WrappingAdd(r.oldest_unacked_message_id, j)
    BY <1>1, <1>3
  <2>3. m \in MessagesOf(V) /\ m # <<>> /\ Len(m) <= MaxPerPacket
    BY <1>1, <1>3, <1>4, <1>6
  <2>4. n.sent_packets = InsertWith(r.sent_packets, packet_number,
                                    [acked |-> FALSE, message_ids |-> IdsOf(m)])
    BY <1>3, <1>5
  <2>5. PacketFilled(V, r, packet_number, n, m)
    BY <1>5, <2>2, <2>3, <2>4 DEF PacketFilled
  <2> QED
    BY <2>1, <2>5
<1> QED
  BY <1>2, <1>6

-----------------------------------------------------------------------------
(* Processing a packet and its acknowledgement.                              *)

\* One round of process_packet_data, as an operator FoldTheory takes.
ReceiveOneIn(r, unused, state, m) == ReceiveOne(r, state, m)

\* The loop of process_packet_data.
Receiving == INSTANCE FoldTheory WITH Op <- ReceiveOneIn

\* What one message keeps, a packet of them keeps.
LEMMA ReceiveAllKeeps ==
  ASSUME NEW r, NEW D, NEW E, NEW messages \in Seq(E),
         [queue |-> r.message_receive_queue, panic |-> NoPanic] \in D,
         \A d \in D, e \in E : ReceiveOne(r, d, e) \in D,
         NEW Inv, [queue |-> r.message_receive_queue, panic |-> NoPanic] \in Inv[0],
         \A k \in 1 .. Len(messages), d \in D :
            d \in Inv[k - 1] => ReceiveOne(r, d, messages[k]) \in Inv[k]
  PROVE  ReceiveAll(r, messages) \in D /\ ReceiveAll(r, messages) \in Inv[Len(messages)]
<1> DEFINE base == [queue |-> r.message_receive_queue, panic |-> NoPanic]
<1>1. ReceiveAll(r, messages) = Receiving!Fold(r, r, base, messages)
  BY DEF ReceiveAll, ReceiveOneIn, FoldLeft, MapThenFoldSet, Max, Receiving!Fold,
         Receiving!FoldLeft, Receiving!MapThenFoldSet, Receiving!Max
<1> HIDE DEF base
<1>2. base \in D /\ base \in Inv[0]
  BY DEF base
<1>3. \A d \in D, e \in E : ReceiveOneIn(r, r, d, e) \in D
  BY DEF ReceiveOneIn
<1>4. \A k \in 1 .. Len(messages), d \in D :
         d \in Inv[k - 1] => ReceiveOneIn(r, r, d, messages[k]) \in Inv[k]
  BY DEF ReceiveOneIn
<1>5. /\ Receiving!Fold(r, r, base, messages) \in D
      /\ Receiving!Fold(r, r, base, messages) \in Inv[Len(messages)]
  BY <1>2, <1>3, <1>4, Receiving!FoldKeeps
<1> QED
  BY <1>1, <1>5

\* process_packet_data changes the receive queue only.
LEMMA ProcessedChannel ==
  ASSUME NEW V, NEW r \in Reliables(V), NEW messages,
         ReceiveAll(r, messages).queue \in GoodBuffers(ReceiveQueueSize, V)
  PROVE  LET n == ProcessPacketData(r, messages).channel
         IN  /\ n \in Reliables(V)
             /\ n.send_message_id = r.send_message_id
             /\ n.receive_message_id = r.receive_message_id
             /\ n.oldest_unacked_message_id = r.oldest_unacked_message_id
             /\ n.sent_packets = r.sent_packets
             /\ n.message_send_queue = r.message_send_queue
             /\ n.message_receive_queue = ReceiveAll(r, messages).queue
             /\ ProcessPacketData(r, messages).panic = ReceiveAll(r, messages).panic
<1> DEFINE q == ReceiveAll(r, messages).queue
<1>1. /\ ProcessPacketData(r, messages).channel = [r EXCEPT !.message_receive_queue = q]
      /\ ProcessPacketData(r, messages).panic = ReceiveAll(r, messages).panic
  BY DEF ProcessPacketData
<1> HIDE DEF q
<1>2. q \in GoodBuffers(ReceiveQueueSize, V)
  BY DEF q
<1> QED
  BY <1>1, <1>2 DEF Reliables, q

\* One round of process_ack, as an operator FoldTheory takes.
TakeIn(unused, queue, b, id) == Take(b, id)

\* The loop of process_ack.
Taking == INSTANCE FoldTheory WITH Op <- TakeIn

\* The ids in a list.
Members(ids) == {ids[i] : i \in 1 .. Len(ids)}

\* process_ack's loop takes the acked ids from the send queue and disturbs no
\* other.
LEMMA TakeAllHeld ==
  ASSUME NEW V, NEW q \in GoodBuffers(SendQueueSize, V), NEW ids \in Seq(SeqNum)
  PROVE  LET n == TakeAll(q, ids)
         IN  /\ n \in GoodBuffers(SendQueueSize, V)
             /\ n.sequence = q.sequence
             /\ Held(n) = Held(q) \ Members(ids)
             /\ \A u \in Held(n) : Get(n, u) = Get(q, u)
<1> DEFINE D == GoodBuffers(SendQueueSize, V)
           I(k) == {b \in D : /\ b.sequence = q.sequence
                              /\ Held(b) = Held(q) \ {ids[i] : i \in 1 .. k}
                              /\ \A u \in Held(b) : Get(b, u) = Get(q, u)}
           Inv == [k \in 0 .. Len(ids) |-> I(k)]
           end == Taking!Fold(q, q, q, ids)
<1>1. TakeAll(q, ids) = end
  BY DEF TakeAll, TakeIn, FoldLeft, MapThenFoldSet, Max, Taking!Fold,
         Taking!FoldLeft, Taking!MapThenFoldSet, Taking!Max
<1>2. Len(ids) \in Nat /\ \A i \in 1 .. Len(ids) : ids[i] \in SeqNum
  OBVIOUS
<1>3. q \in Inv[0]
  <2>1. 0 \in 0 .. Len(ids) /\ 1 .. 0 = {}
    BY <1>2
  <2>2. q \in I(0)
    BY <2>1
  <2> HIDE DEF I
  <2> QED
    BY <2>1, <2>2
<1>4. \A b \in D, id \in SeqNum : TakeIn(q, q, b, id) \in D
  BY ValidSizes, TakeInWindow DEF TakeIn
<1>5. ASSUME NEW k \in 1 .. Len(ids), NEW b \in D, b \in Inv[k - 1]
      PROVE  TakeIn(q, q, b, ids[k]) \in Inv[k]
  <2> DEFINE n == Take(b, ids[k])
  <2>1. /\ k - 1 \in 0 .. Len(ids) /\ k \in 0 .. Len(ids) /\ ids[k] \in SeqNum
        /\ 1 .. k = (1 .. k - 1) \cup {k}
    BY <1>2
  <2>2. b \in I(k - 1)
    <3> HIDE DEF I
    <3> QED
      BY <1>5, <2>1
  <2>3. /\ n \in D
        /\ n.sequence = b.sequence
        /\ Held(n) = Held(b) \ {ids[k]}
        /\ \A u \in Held(n) : Get(n, u) = Get(b, u)
    BY <2>1, ValidSizes, TakeInWindow, TakeHeld
  <2> HIDE DEF D, n
  <2>4. Held(n) = Held(q) \ {ids[i] : i \in 1 .. k}
    BY <2>1, <2>2, <2>3
  <2>5. n \in I(k)
    BY <2>2, <2>3, <2>4
  <2> HIDE DEF I
  <2> QED
    BY <2>1, <2>5 DEF TakeIn, n
<1>6. end \in Inv[Len(ids)]
  <2> HIDE DEF Inv, D
  <2>1. q \in D
    BY DEF D
  <2> QED
    BY <1>3, <1>4, <1>5, <2>1, Taking!FoldKeeps
<1>7. end \in I(Len(ids))
  <2>1. Len(ids) \in 0 .. Len(ids)
    BY <1>2
  <2> HIDE DEF I, end
  <2> QED
    BY <1>6, <2>1
<1> HIDE DEF end
<1> QED
  BY <1>1, <1>7 DEF Members

\* Min is the least element.
LEMMA LeastOf ==
  ASSUME NEW T, T \subseteq Nat, T # {}
  PROVE  Min(T) \in T /\ \A x \in T : Min(T) <= x
<1>1. \E x \in T : \A y \in T : x <= y
  BY Taking!LeastNumber
<1> QED
  BY <1>1 DEF Min

\* From the number x, update_oldest_unacked_message_id moves on to the first number
\* in the queue, or to the pointer's.
LEMMA UpdateOldestFinds ==
  ASSUME NEW queue, NEW x \in Int, NEW h \in Int, queue.sequence = h % Modulus,
         x <= h, h - x < Modulus
  PROVE  \E y \in x .. h :
            /\ UpdateOldest(x % Modulus, queue) = y % Modulus
            /\ y = h \/ Exists(queue, y % Modulus)
            /\ \A z \in x .. y - 1 : ~Exists(queue, z % Modulus)
<1> DEFINE stops(k) == \/ WrappingAdd(x % Modulus, k) = queue.sequence
                       \/ Exists(queue, WrappingAdd(x % Modulus, k))
           T == {k \in SeqNum : stops(k)}
           m == Min(T)
<1>1. SeqNum \subseteq Nat /\ T \subseteq SeqNum /\ h - x \in SeqNum
  BY ModulusAssumption DEF SeqNum
<1>2. ASSUME NEW k \in SeqNum
      PROVE  k \in Int /\ WrappingAdd(x % Modulus, k) = (x + k) % Modulus
  <2>1. k \in Int
    BY <1>1
  <2> QED
    BY <2>1, WrappedAdd
<1>3. UpdateOldest(x % Modulus, queue) = WrappingAdd(x % Modulus, m)
  BY DEF UpdateOldest
<1>4. h - x \in T
  <2>1. (x + (h - x)) % Modulus = h % Modulus
    BY x + (h - x) = h
  <2> QED
    BY <1>1, <1>2, <2>1
<1>5. m \in T /\ \A k \in T : m <= k
  <2> HIDE DEF T
  <2>1. T \subseteq Nat
    BY <1>1
  <2> QED
    BY <1>4, <2>1, LeastOf
<1>6. \A k \in SeqNum : ~stops(k) \/ k \in T
  OBVIOUS
<1>7. stops(m)
  BY <1>5
<1> HIDE DEF T, m
<1>8. m \in SeqNum /\ m \in Nat /\ m <= h - x
  BY <1>1, <1>4, <1>5
<1>9. \A k \in SeqNum : k < m => ~stops(k)
  BY <1>1, <1>5, <1>6, <1>8
<1> DEFINE y == x + m
<1>10. y \in x .. h
  BY <1>8
<1>11. UpdateOldest(x % Modulus, queue) = y % Modulus
  BY <1>2, <1>3, <1>8
<1>12. y = h \/ Exists(queue, y % Modulus)
  <2>1. y % Modulus = h % Modulus \/ Exists(queue, y % Modulus)
    BY <1>2, <1>7, <1>8
  <2> HIDE DEF y
  <2>2. y % Modulus = h % Modulus => y = h
    <3>1. y \in Int /\ y - h < Modulus /\ h - y < Modulus
      BY <1>10, ModulusAssumption
    <3> QED
      BY <3>1, WrappedApart
  <2> QED
    BY <2>1, <2>2
<1>13. ASSUME NEW z \in x .. y - 1 PROVE ~Exists(queue, z % Modulus)
  <2>1. z - x \in Nat /\ z - x < m /\ x + (z - x) = z
    BY <1>8
  <2>2. z - x \in SeqNum
    BY <1>8, <2>1, ModulusAssumption DEF SeqNum
  <2>3. ~Exists(queue, WrappingAdd(x % Modulus, z - x))
    BY <1>9, <2>1, <2>2
  <2> QED
    BY <1>2, <2>1, <2>2, <2>3
<1> HIDE DEF y
<1> QED
  BY <1>10, <1>11, <1>12, <1>13

\* An entry of sent_packets marked as acked.
LEMMA MarkedAcked ==
  ASSUME NEW p \in GoodBuffers(SentPacketsSize, PacketEntries), NEW ack \in Held(p)
  PROVE  LET n == [p EXCEPT !.slots[SequenceIndex(p, ack)].val.acked = TRUE]
         IN  /\ n \in GoodBuffers(SentPacketsSize, PacketEntries)
             /\ n.sequence = p.sequence
             /\ Held(n) = Held(p)
             /\ \A s \in Held(p) :
                   /\ Get(n, s).message_ids = Get(p, s).message_ids
                   /\ s # ack => Get(n, s).acked = Get(p, s).acked
<1> DEFINE C == SentPacketsSize
           a == ack % C
           marked == [p.slots[a] EXCEPT !.val.acked = TRUE]
           f == [p.slots EXCEPT ![a] = marked]
           n == [p EXCEPT !.slots = f]
<1>1. p \in BufferType(C, PacketEntries) /\ p.capacity = C /\ DOMAIN p.slots = 0 .. C - 1
  BY ValidSizes, BufferShape DEF GoodBuffers
<1>2. /\ ack \in SeqNum /\ p.slots[a].seq = ack /\ a \in 0 .. C - 1
      /\ ack # NoSeq
  <2>1. ack \in SeqNum /\ p.slots[a].seq = ack
    BY ValidSizes, HeldNumbers
  <2> QED
    BY <2>1, ValidSizes, CapacityRange DEF SeqNum, NoSeq
<1>3. p.slots[a] \in [seq : SeqNum, val : PacketEntries]
  BY <1>1, <1>2, ValidSizes, BufferShape
<1>4. /\ marked \in [seq : SeqNum, val : PacketEntries]
      /\ marked.seq = p.slots[a].seq
      /\ marked.val.message_ids = p.slots[a].val.message_ids
  BY <1>3 DEF PacketEntries
<1> HIDE DEF marked
<1>5. /\ f[a] = marked
      /\ \A i \in 0 .. C - 1 : i # a => f[i] = p.slots[i]
  BY <1>1, <1>2
<1>6. p.slots \in [0 .. C - 1 -> [seq : SeqNum, val : PacketEntries] \cup {Empty}]
  BY <1>1, ValidSizes, BufferShape
<1>7. f \in [0 .. C - 1 -> [seq : SeqNum, val : PacketEntries] \cup {Empty}]
  BY <1>2, <1>4, <1>6
<1>8. \A i \in 0 .. C - 1 : f[i].seq = p.slots[i].seq
  BY <1>4, <1>5
<1>9. [p EXCEPT !.slots[SequenceIndex(p, ack)].val.acked = TRUE] = n
  BY <1>1 DEF SequenceIndex, marked
<1> HIDE DEF f, n
<1>10. /\ n \in GoodBuffers(C, PacketEntries)
       /\ n.sequence = p.sequence
       /\ Held(n) = Held(p)
       /\ \A s \in SeqNum : Get(n, s) = f[s % C].val
  BY <1>7, <1>8, ValidSizes, SameNumbers DEF n
<1>11. ASSUME NEW s \in Held(p)
       PROVE  /\ Get(n, s).message_ids = Get(p, s).message_ids
              /\ s # ack => Get(n, s).acked = Get(p, s).acked
  <2>1. s \in SeqNum /\ p.slots[s % C].seq = s /\ s % C \in 0 .. C - 1
    BY ValidSizes, HeldNumbers, CapacityRange
  <2>2. Get(n, s) = f[s % C].val /\ Get(p, s) = p.slots[s % C].val
    BY <1>1, <1>10, <2>1 DEF Get, SequenceIndex
  <2>3. s % C = a => s = ack
    BY <1>2, <2>1
  <2> QED
    BY <1>4, <1>5, <2>1, <2>2, <2>3
<1> QED
  BY <1>9, <1>10, <1>11

\* process_ack of a packet that is entered: its messages leave the queue.
LEMMA ProcessAckTakes ==
  ASSUME NEW V, NEW r \in Reliables(V), NEW ack \in Held(r.sent_packets)
  PROVE  LET n == ProcessAck(r, ack)
             p == r.sent_packets
             q == r.message_send_queue
             k == TakeAll(q, Get(p, ack).message_ids)
             ids == Get(p, ack).message_ids
         IN  /\ n.send_message_id = r.send_message_id
             /\ n.receive_message_id = r.receive_message_id
             /\ n.message_receive_queue = r.message_receive_queue
             /\ n.message_send_queue = k
             /\ n.oldest_unacked_message_id
                    = IF k = q THEN r.oldest_unacked_message_id
                      ELSE UpdateOldest(r.oldest_unacked_message_id, k)
             /\ n.oldest_unacked_message_id \in SeqNum => n \in Reliables(V)
             /\ n.sent_packets.sequence = p.sequence
             /\ Held(n.sent_packets) = Held(p)
             /\ \A s \in Held(p) :
                   /\ Get(n.sent_packets, s).message_ids = Get(p, s).message_ids
                   /\ s # ack => Get(n.sent_packets, s).acked = Get(p, s).acked
             /\ ids \in Seq(SeqNum)
             /\ k \in GoodBuffers(SendQueueSize, SendEntries(V))
             /\ k.sequence = q.sequence
             /\ Held(k) = Held(q) \ Members(ids)
             /\ \A u \in Held(k) : Get(k, u) = Get(q, u)
<1> DEFINE p == r.sent_packets
           q == r.message_send_queue
           ids == Get(p, ack).message_ids
           k == TakeAll(q, ids)
           m == [p EXCEPT !.slots[SequenceIndex(p, ack)].val.acked = TRUE]
           o == IF k = q THEN r.oldest_unacked_message_id
                ELSE UpdateOldest(r.oldest_unacked_message_id, k)
<1>1. /\ p \in GoodBuffers(SentPacketsSize, PacketEntries)
      /\ q \in GoodBuffers(SendQueueSize, SendEntries(V))
  BY ReliableFields
<1>2. ack \in SeqNum /\ Get(p, ack) \in PacketEntries /\ Exists(p, ack)
  BY <1>1, ValidSizes, HeldValue, ExistsHeld
<1>3. ids \in Seq(SeqNum)
  BY <1>2 DEF PacketEntries
<1>4. /\ k \in GoodBuffers(SendQueueSize, SendEntries(V))
      /\ k.sequence = q.sequence
      /\ Held(k) = Held(q) \ Members(ids)
      /\ \A u \in Held(k) : Get(k, u) = Get(q, u)
  <2> HIDE DEF ids
  <2> QED
    BY <1>1, <1>3, TakeAllHeld
<1>5. /\ m \in GoodBuffers(SentPacketsSize, PacketEntries)
      /\ m.sequence = p.sequence
      /\ Held(m) = Held(p)
      /\ \A s \in Held(p) :
            /\ Get(m, s).message_ids = Get(p, s).message_ids
            /\ s # ack => Get(m, s).acked = Get(p, s).acked
  BY <1>1, MarkedAcked
<1>6. ProcessAck(r, ack) = [r EXCEPT !.sent_packets = m,
                                     !.message_send_queue = k,
                                     !.oldest_unacked_message_id = o]
  BY <1>2 DEF ProcessAck, Reliables
<1> HIDE DEF k, m, o
<1> DEFINE n == ProcessAck(r, ack)
<1>7. /\ n.send_message_id = r.send_message_id
      /\ n.receive_message_id = r.receive_message_id
      /\ n.message_receive_queue = r.message_receive_queue
      /\ n.message_send_queue = k
      /\ n.oldest_unacked_message_id = o
      /\ n.sent_packets = m
      /\ o \in SeqNum => n \in Reliables(V)
  BY <1>4, <1>5, <1>6 DEF Reliables
<1> HIDE DEF n
<1> QED
  BY <1>3, <1>4, <1>5, <1>7 DEF n, k, o

-----------------------------------------------------------------------------
(* The two ends and their network: the invariant.                            *)

\* What the theorems need of the configuration.
Configured ==
    /\ GoodSizes
    \* While a packet can still be accepted, the ids after those in it do not run
    \* through half of all ids; the messages of the two windows do not either.
    /\ SendQueueSize + (Lifetime - 1) * MaxPerPacket < Half
    /\ 2 * ReceiveQueueSize <= Half
    \* A channel that has nothing to send is not silent for half of all packets.
    /\ MaxIdle + 1 < Half
    /\ SentPacketsSize + MaxIdle <= Modulus

\* How many ids oldest_unacked_message_id is behind send_message_id, and how many
\* messages come before it.
Unacked == (sender.send_message_id - sender.oldest_unacked_message_id) % Modulus

\* How many messages are before the oldest unacked one.
Freed == accepted - Unacked

\* The message is delivered or in the receive queue.
Arrived(n) == n <= delivered \/ InReceiveQueue(n)

\* Every packet that may still do something.
Packets == network \cup received

\* Packet p has the n-th message.
Carries(p, n) == \E i \in DOMAIN p.messages : p.messages[i].message = n

\* The message has arrived or may still do so.
Packed(n) == Arrived(n) \/ \E p \in Packets : Carries(p, n)

\* The messages accepted too late to be in the send queue together with n that
\* have been packed all the same: n has been acknowledged, or it is overtaken.
PackedAfter(n) == {m \in Numbers : m > n - 1 + SendQueueSize /\ Packed(m)}

\* The send queue when `freed` of `all` messages are acknowledged up to the oldest
\* that is not, and the receive queue when `taken` of them are delivered.
SendQueues(freed, all) ==
    {q \in GoodBuffers(SendQueueSize, SendEntries(Numbers)) :
        /\ q.sequence = all % Modulus
        /\ \A id \in Held(q) :
              \E n \in freed + 1 .. all : id = IdOf(n) /\ Get(q, id).message = n
        /\ freed < all => IdOf(freed + 1) \in Held(q)}

\* Receive queues after `taken` messages: what is held is among the next
\* ReceiveQueueSize, each message under its own id.
ReceiveQueues(taken, all) ==
    {q \in GoodBuffers(ReceiveQueueSize, Numbers) :
        /\ \E h \in taken .. taken + ReceiveQueueSize : q.sequence = h % Modulus
        /\ \A id \in Held(q) :
              \E n \in taken + 1 .. taken + ReceiveQueueSize :
                 n <= all /\ id = IdOf(n) /\ Get(q, id) = n}

\* The shapes of the state.
ReliableShapes ==
    /\ sender \in Reliables(Numbers)
    /\ receiver \in Reliables(Numbers)
    /\ packet_sequence \in SeqNum
    /\ accepted \in 0 .. MaxMessages
    /\ delivered \in 0 .. accepted

\* The send queue holds exactly what has not been freed, and the ids are those
\* of the numbers.
SendQueueGood ==
    /\ sender.send_message_id = accepted % Modulus
    /\ Unacked <= accepted
    /\ sender.message_send_queue \in SendQueues(Freed, accepted)

\* The receiver is at the number of messages delivered.
ReceiveQueueGood ==
    /\ receiver.receive_message_id = delivered % Modulus
    /\ receiver.message_receive_queue \in ReceiveQueues(delivered, accepted)

\* A message that left the send queue has arrived.
FreedArrived == \A n \in 1 .. accepted : InSendQueue(n) \/ Arrived(n)

\* Packets are young, of bounded length, and have different sequences.
PacketShapes ==
    \A p \in Packets :
       /\ p \in [sequence : SeqNum, messages : MessagesOf(Numbers)]
       /\ Fresh(packet_sequence, p.sequence)
       /\ Len(p.messages) <= MaxPerPacket
       /\ \A q \in Packets : q.sequence = p.sequence => q = p

\* A packet's messages have their ids and are not further ahead than a receive
\* queue.
PacketMessages ==
    \A p \in Packets : \A i \in 1 .. Len(p.messages) :
       LET n == p.messages[i].message
       IN  /\ p.messages[i].id = IdOf(n)
           /\ n <= accepted
           /\ n <= Freed + ReceiveQueueSize

\* A packet is overtaken by no more messages than the later packets carry.
PacketsOvertaken ==
    \A p \in Packets : \A i \in 1 .. Len(p.messages) :
       Cardinality(PackedAfter(p.messages[i].message))
           <= Behind(packet_sequence, p.sequence) * MaxPerPacket

\* The messages of a received packet have arrived.
ReceivedArrived ==
    \A p \in received : \A i \in 1 .. Len(p.messages) : Arrived(p.messages[i].message)

\* What sent_packets says of a packet that can still be acknowledged is true.
SentPacketsGood ==
    /\ Idle <= MaxIdle
    /\ \A s \in Held(sender.sent_packets) :
          /\ Get(sender.sent_packets, s).acked
          /\ Fresh(packet_sequence, s)
          => s \in acked
    /\ \A p \in Packets :
          p.sequence \in Held(sender.sent_packets) =>
             Get(sender.sent_packets, p.sequence).message_ids = IdsOf(p.messages)

\* ... and it has an entry, when the buffer is as long as acks are possible.
SentPacketsKept ==
    Lifetime <= SentPacketsSize =>
       \A p \in Packets : p.messages # <<>> => p.sequence \in Held(sender.sent_packets)

\* The inductive invariant.
IInv == /\ ReliableShapes /\ SendQueueGood /\ ReceiveQueueGood /\ FreedArrived
        /\ PacketShapes /\ PacketMessages /\ PacketsOvertaken /\ ReceivedArrived
        /\ SentPacketsGood /\ SentPacketsKept
        /\ PanicsOnlyIfUndrained

-----------------------------------------------------------------------------
(* Arithmetic.                                                               *)

\* Multiplication is monotonic.
LEMMA Products ==
  ASSUME NEW a \in Nat, NEW b \in Nat, NEW c \in Nat, a <= b
  PROVE  a * c \in Nat /\ a * c <= b * c /\ (a + 1) * c = a * c + c
<1>1. (b - a) * c \in Nat /\ b * c = a * c + (b - a) * c
  OBVIOUS
<1> QED
  BY <1>1

\* What Configured says about every size, as numbers.
LEMMA Sizes ==
  ASSUME Configured
  PROVE  /\ SendQueueSize \in Nat /\ SendQueueSize >= 2 /\ SendQueueSize < Half
         /\ ReceiveQueueSize \in Nat /\ ReceiveQueueSize >= 2
         /\ 2 * ReceiveQueueSize <= Half
         /\ SentPacketsSize \in Nat /\ SentPacketsSize >= 2 /\ SentPacketsSize <= Half
         /\ MaxPerPacket \in Nat /\ Lifetime \in 1 .. Half /\ MaxIdle \in Nat
         /\ MaxMessages \in Nat
         /\ Half \in Nat /\ Modulus = 2 * Half /\ Modulus \in Nat
         /\ \A a \in 0 .. Lifetime - 1 : SendQueueSize + a * MaxPerPacket < Half
<1>1. /\ MaxPerPacket \in Nat /\ Lifetime \in 1 .. Half /\ MaxIdle \in Nat
      /\ MaxMessages \in Nat
  BY ConfigAssumption, ChannelAssumption
<1>2. Half \in Nat /\ Modulus = 2 * Half /\ Modulus \in Nat
  BY HalfOfModulus
<1>3. /\ SendQueueSize \in Nat /\ SendQueueSize >= 2
      /\ ReceiveQueueSize \in Nat /\ ReceiveQueueSize >= 2
      /\ SentPacketsSize \in Nat /\ SentPacketsSize >= 2 /\ SentPacketsSize <= Half
  BY CapacityDivides, ValidSizes DEF Configured, GoodSizes
<1>4. ASSUME NEW a \in 0 .. Lifetime - 1
      PROVE  a * MaxPerPacket \in Nat /\ SendQueueSize + a * MaxPerPacket < Half
  <2>1. a \in Nat /\ Lifetime - 1 \in Nat /\ a <= Lifetime - 1
    BY <1>1
  <2>2. a * MaxPerPacket \in Nat /\ a * MaxPerPacket <= (Lifetime - 1) * MaxPerPacket
    BY <1>1, <2>1, Products
  <2>3. (Lifetime - 1) * MaxPerPacket \in Nat
    BY <1>1, <2>1, Products
  <2>4. SendQueueSize + (Lifetime - 1) * MaxPerPacket < Half
    BY DEF Configured
  <2> DEFINE x == a * MaxPerPacket
             y == (Lifetime - 1) * MaxPerPacket
  <2> HIDE DEF x, y
  <2>5. x \in Nat /\ y \in Nat /\ x <= y /\ SendQueueSize + y < Half
    BY <2>2, <2>3, <2>4 DEF x, y
  <2>6. SendQueueSize + x < Half
    BY <1>2, <1>3, <2>5
  <2> QED
    BY <2>2, <2>6 DEF x
<1>5. SendQueueSize < Half
  <2>1. 0 \in 0 .. Lifetime - 1
    BY <1>1
  <2>2. 0 * MaxPerPacket \in Nat /\ SendQueueSize + 0 * MaxPerPacket < Half
    BY <1>4, <2>1
  <2> QED
    BY <1>1, <1>2, <1>3, <2>2
<1>6. 2 * ReceiveQueueSize <= Half
  BY DEF Configured
<1> QED
  BY <1>1, <1>2, <1>3, <1>4, <1>5, <1>6

\* Ids are wrapped numbers; two numbers less than a round apart have different
\* ids.
LEMMA IdOfNumber ==
  ASSUME NEW n \in Int
  PROVE  /\ IdOf(n) \in SeqNum
         /\ IdOf(n + 1) = n % Modulus
         /\ \A m \in Int : /\ IdOf(m) = IdOf(n) /\ m - n < Modulus /\ n - m < Modulus
                           => m = n
<1>1. IdOf(n) \in SeqNum
  BY Wrapped, n - 1 \in Int DEF IdOf
<1>2. IdOf(n + 1) = n % Modulus
  BY (n + 1) - 1 = n DEF IdOf
<1>3. ASSUME NEW m \in Int, IdOf(m) = IdOf(n), m - n < Modulus, n - m < Modulus
      PROVE  m = n
  <2>1. m - 1 \in Int /\ n - 1 \in Int /\ (m - 1) - (n - 1) < Modulus
        /\ (n - 1) - (m - 1) < Modulus /\ (m - 1) % Modulus = (n - 1) % Modulus
    BY <1>3, ModulusAssumption DEF IdOf
  <2>2. m - 1 = n - 1
    BY <2>1, WrappedApart
  <2> QED
    BY <2>2
<1> QED
  BY <1>1, <1>2, <1>3

\* oldest_unacked_message_id from the number it stands for, and back.
LEMMA UnackedIs ==
  ASSUME NEW s, NEW a \in Int, NEW x \in Int,
         s.send_message_id = a % Modulus, s.oldest_unacked_message_id = x % Modulus,
         x <= a, a - x < Modulus
  PROVE  (s.send_message_id - s.oldest_unacked_message_id) % Modulus = a - x
<1>1. ((a % Modulus) - (x % Modulus)) % Modulus = (a - x) % Modulus
  BY WrappedDifference, Zenon
<1>2. (a - x) % Modulus = a - x
  BY WrappedNear, a - x \in Int
<1> QED
  BY <1>1, <1>2

\* The oldest unacked id, from the distance to it.
LEMMA OldestIs ==
  ASSUME NEW a \in Int, NEW o \in SeqNum
  PROVE  LET u == ((a % Modulus) - o) % Modulus
         IN  u \in SeqNum /\ o = (a - u) % Modulus
<1> DEFINE u == ((a % Modulus) - o) % Modulus
<1>1. o \in Int /\ o % Modulus = o /\ a - o \in Int
  <2>1. o \in Int
    BY ModulusAssumption DEF SeqNum
  <2> QED
    BY <2>1, Wrapped
<1>2. u = (a - o) % Modulus
  <2>1. ((a % Modulus) - (o % Modulus)) % Modulus = (a - o) % Modulus
    BY <1>1, WrappedDifference, Zenon
  <2> QED
    BY <1>1, <2>1
<1>3. PICK k \in Int : (a - o) % Modulus = (a - o) + k * Modulus
  BY <1>1, Wrapped
<1>4. u \in SeqNum
  BY <1>1, <1>2, Wrapped
<1> HIDE DEF u
<1>5. a - u = o + (-k) * Modulus
  <2>1. k * Modulus \in Int /\ (-k) * Modulus = -(k * Modulus)
    BY ModulusAssumption
  <2> QED
    BY <1>1, <1>2, <1>3, <2>1
<1>6. (o + (-k) * Modulus) % Modulus = o % Modulus
  BY <1>1, ModShift, ModulusAssumption, -k \in Int
<1>7. o = (a - u) % Modulus
  BY <1>1, <1>5, <1>6
<1> QED
  BY <1>4, <1>7 DEF u

-----------------------------------------------------------------------------
(* What the invariant says of the numbers.                                   *)

\* At most SendQueueSize messages are unacked, and the oldest unacked id is
\* that of the number Freed.
LEMMA FreedBounds ==
  ASSUME Configured, ReliableShapes, SendQueueGood
  PROVE  /\ Unacked \in Nat /\ Freed \in 0 .. accepted
         /\ Unacked = accepted - Freed /\ Unacked <= SendQueueSize
         /\ sender.oldest_unacked_message_id = Freed % Modulus
<1> DEFINE o == sender.oldest_unacked_message_id
           q == sender.message_send_queue
<1>1. o \in SeqNum /\ q \in GoodBuffers(SendQueueSize, SendEntries(Numbers))
  BY ReliableFields DEF ReliableShapes
<1>2. accepted \in Nat /\ accepted \in Int
  BY Sizes DEF ReliableShapes
<1>3. Unacked = ((accepted % Modulus) - o) % Modulus
  BY DEF Unacked, SendQueueGood
<1>4. Unacked \in SeqNum /\ o = (accepted - Unacked) % Modulus
  BY <1>1, <1>2, <1>3, OldestIs
<1>5. Unacked \in Nat /\ Unacked < Modulus
  BY <1>4, ModulusAssumption DEF SeqNum
<1>6. Unacked <= SendQueueSize
  <2>1. CASE Unacked = 0
    BY <2>1, Sizes
  <2>2. CASE Unacked > 0
    <3>1. o \in Held(q) /\ q.sequence = accepted % Modulus
      <4>1. Freed \in Int /\ Freed < accepted /\ IdOf(Freed + 1) = o
        BY <1>2, <1>4, <1>5, <2>2, IdOfNumber DEF Freed
      <4> QED
        BY <4>1 DEF SendQueueGood, SendQueues
    <3>2. Behind(accepted % Modulus, o) < SendQueueSize
      BY <1>1, <3>1, ValidSizes, HeldNumbers
    <3> DEFINE x == accepted - Unacked
    <3>3. x \in Int /\ 0 <= accepted - 1 - x /\ accepted - 1 - x < Modulus
          /\ accepted - 1 - x = Unacked - 1
      BY <1>2, <1>5, <2>2, ModulusAssumption
    <3>4. o = x % Modulus
      BY <1>4
    <3> HIDE DEF x
    <3>5. Behind(accepted % Modulus, x % Modulus) = accepted - 1 - x
      BY <1>2, <3>3, WrappedBehind
    <3>6. Unacked - 1 < SendQueueSize
      BY <3>2, <3>3, <3>4, <3>5
    <3> QED
      BY <1>5, <3>6, Sizes
  <2> QED
    BY <1>5, <2>1, <2>2
<1>7. Unacked <= accepted
  BY DEF SendQueueGood
<1> QED
  BY <1>2, <1>4, <1>5, <1>6, <1>7 DEF Freed

-----------------------------------------------------------------------------
(* The two message queues and the numbers in them.                           *)

\* What is in the send queue under the id of n is n, if n is one of the unacked
\* messages.
LEMMA SendQueueHolds ==
  ASSUME Configured, NEW freed \in Nat, NEW all \in Nat,
         freed <= all, all - freed <= SendQueueSize,
         NEW q \in SendQueues(freed, all), NEW n \in Int
  PROVE  /\ Exists(q, IdOf(n)) <=> IdOf(n) \in Held(q)
         /\ Exists(q, IdOf(n)) /\ Get(q, IdOf(n)).message = n
               => n \in freed + 1 .. all
         /\ n \in freed + 1 .. all /\ IdOf(n) \in Held(q)
               => Get(q, IdOf(n)).message = n
<1>1. q \in GoodBuffers(SendQueueSize, SendEntries(Numbers)) /\ IdOf(n) \in SeqNum
  BY IdOfNumber DEF SendQueues
<1>2. Exists(q, IdOf(n)) <=> IdOf(n) \in Held(q)
  BY <1>1, ValidSizes, ExistsHeld
<1>3. ASSUME IdOf(n) \in Held(q)
      PROVE  \E m \in freed + 1 .. all : IdOf(n) = IdOf(m) /\ Get(q, IdOf(n)).message = m
  BY <1>3 DEF SendQueues
<1>4. ASSUME NEW m \in freed + 1 .. all, n \in freed + 1 .. all, IdOf(n) = IdOf(m)
      PROVE  n = m
  <2>1. m \in Int /\ n - m < Modulus /\ m - n < Modulus
    BY <1>4, Sizes
  <2> QED
    BY <1>4, <2>1, IdOfNumber
<1>5. ASSUME n \in freed + 1 .. all, IdOf(n) \in Held(q)
      PROVE  Get(q, IdOf(n)).message = n
  BY <1>3, <1>4, <1>5
<1> QED
  BY <1>2, <1>3, <1>5

\* What is in the receive queue under the id of n is n, if n is one of the next
\* messages.
LEMMA ReceiveQueueHolds ==
  ASSUME Configured, NEW taken \in Nat, NEW all \in Nat,
         NEW q \in ReceiveQueues(taken, all), NEW n \in Int
  PROVE  /\ Exists(q, IdOf(n)) <=> IdOf(n) \in Held(q)
         /\ Exists(q, IdOf(n)) /\ Get(q, IdOf(n)) = n
               => n \in taken + 1 .. taken + ReceiveQueueSize /\ n <= all
         /\ n \in taken + 1 .. taken + ReceiveQueueSize /\ IdOf(n) \in Held(q)
               => n <= all /\ Get(q, IdOf(n)) = n
<1>1. q \in GoodBuffers(ReceiveQueueSize, Numbers) /\ IdOf(n) \in SeqNum
  BY IdOfNumber DEF ReceiveQueues
<1>2. Exists(q, IdOf(n)) <=> IdOf(n) \in Held(q)
  BY <1>1, ValidSizes, ExistsHeld
<1>3. ASSUME IdOf(n) \in Held(q)
      PROVE  \E m \in taken + 1 .. taken + ReceiveQueueSize :
                m <= all /\ IdOf(n) = IdOf(m) /\ Get(q, IdOf(n)) = m
  BY <1>3 DEF ReceiveQueues
<1>4. ASSUME NEW m \in taken + 1 .. taken + ReceiveQueueSize,
             n \in taken + 1 .. taken + ReceiveQueueSize, IdOf(n) = IdOf(m)
      PROVE  n = m
  <2>1. m \in Int /\ n - m < Modulus /\ m - n < Modulus
    BY <1>4, Sizes
  <2> QED
    BY <1>4, <2>1, IdOfNumber
<1>5. ASSUME n \in taken + 1 .. taken + ReceiveQueueSize, IdOf(n) \in Held(q)
      PROVE  n <= all /\ Get(q, IdOf(n)) = n
  BY <1>3, <1>4, <1>5
<1> QED
  BY <1>2, <1>3, <1>5

\* A message the receive queue has room for goes in beside the others.
LEMMA ReceiveInserts ==
  ASSUME Configured, NEW taken \in Nat, NEW all \in 0 .. MaxMessages,
         NEW q \in ReceiveQueues(taken, all),
         NEW n \in taken + 1 .. taken + ReceiveQueueSize, n <= all
  PROVE  LET k == InsertWith(q, IdOf(n), n)
         IN  /\ ~TooOld(q, IdOf(n))
             /\ k \in ReceiveQueues(taken, all)
             /\ Held(k) = {IdOf(n)} \cup Held(q)
             /\ Get(k, IdOf(n)) = n
             /\ \A id \in Held(q) : Get(k, id) = Get(q, id)
<1> DEFINE k == InsertWith(q, IdOf(n), n)
           C == ReceiveQueueSize
<1>1. /\ q \in GoodBuffers(C, Numbers) /\ ValidSize(C) /\ GoodSize(C)
      /\ C \in Nat /\ C >= 2 /\ 2 * C <= Half /\ Half \in Nat /\ Modulus = 2 * Half
      /\ n \in Numbers /\ n \in Int
  BY Sizes, ValidSizes DEF ReceiveQueues, Configured, GoodSizes, Numbers
<1>2. PICK h \in taken .. taken + C : q.sequence = h % Modulus
  BY DEF ReceiveQueues
<1> DEFINE x == n - 1
<1>3. /\ x \in Int /\ h \in Int /\ IdOf(n) = x % Modulus
      /\ taken <= x /\ x < taken + C /\ x + 1 = n
  BY <1>1, <1>2 DEF IdOf
<1> HIDE DEF x
<1>4. /\ ~TooOld(q, IdOf(n))
      /\ k \in GoodBuffers(C, Numbers)
      /\ \E j \in taken .. taken + C : k.sequence = j % Modulus
      /\ Held(k) = {IdOf(n)} \cup Held(q)
      /\ Get(k, IdOf(n)) = n
      /\ \A id \in Held(k) : id # IdOf(n) => Get(k, id) = Get(q, id)
  <2>1. CASE h <= x
    <3>1. x + 1 - h < Half
      BY <1>1, <1>2, <1>3
    <3>2. /\ ~TooOld(q, IdOf(n))
          /\ k \in GoodBuffers(C, Numbers)
          /\ k.sequence = (x + 1) % Modulus
          /\ Held(k) = {IdOf(n)} \cup {u \in Held(q) : Behind((x + 1) % Modulus, u) < C}
          /\ Get(k, IdOf(n)) = n
          /\ \A u \in Held(k) : u # IdOf(n) => Get(k, u) = Get(q, u)
      BY <1>1, <1>2, <1>3, <2>1, <3>1, InsertAhead
    <3>3. ASSUME NEW u \in Held(q) PROVE Behind((x + 1) % Modulus, u) < C
      <4>1. PICK m \in taken + 1 .. taken + C : u = IdOf(m)
        BY DEF ReceiveQueues
      <4> DEFINE y == m - 1
      <4>2. y \in Int /\ u = y % Modulus /\ taken <= y /\ y < taken + C
        BY <1>1, <4>1 DEF IdOf
      <4> HIDE DEF y
      <4>3. Behind(h % Modulus, u) < C
        BY <1>1, <1>2, HeldNumbers
      <4>4. y < h
        <5>1. SUFFICES ASSUME h - 1 - y < 0 PROVE FALSE
          BY <1>3, <4>2
        <5>2. -Modulus <= h - 1 - y /\ h - 1 - y + Modulus >= C
          BY <1>1, <1>2, <4>2
        <5>3. Behind(h % Modulus, y % Modulus) = h - 1 - y + Modulus
          BY <1>3, <4>2, <5>1, <5>2, WrappedBehind
        <5> QED
          BY <1>1, <1>3, <4>2, <4>3, <5>2, <5>3
      <4> DEFINE j == x + 1
      <4>5. j \in Int /\ 0 <= j - 1 - y /\ j - 1 - y < C /\ j - 1 - y < Modulus
        BY <1>1, <1>2, <1>3, <2>1, <4>2, <4>4
      <4> HIDE DEF j
      <4>6. Behind(j % Modulus, y % Modulus) = j - 1 - y
        BY <4>2, <4>5, WrappedBehind
      <4> QED
        BY <4>2, <4>5, <4>6 DEF j
    <3>4. \E j \in taken .. taken + C : k.sequence = j % Modulus
      BY <1>1, <1>3, <3>2, x + 1 \in taken .. taken + C
    <3> QED
      BY <3>2, <3>3, <3>4
  <2>2. CASE x < h
    <3>1. h - C <= x
      BY <1>1, <1>2, <1>3
    <3>2. /\ ~TooOld(q, IdOf(n))
          /\ k \in GoodBuffers(C, Numbers)
          /\ k.sequence = q.sequence
          /\ Held(k) = {IdOf(n)} \cup Held(q)
          /\ Get(k, IdOf(n)) = n
          /\ \A u \in Held(k) : u # IdOf(n) => Get(k, u) = Get(q, u)
      BY <1>1, <1>2, <1>3, <2>2, <3>1, InsertBehind
    <3> QED
      BY <1>2, <3>2
  <2> QED
    BY <1>3, <2>1, <2>2
<1>5. IdOf(n) \in Held(q) => Get(q, IdOf(n)) = n
  BY <1>1, Sizes, ReceiveQueueHolds
<1>6. \A id \in Held(q) : Get(k, id) = Get(q, id)
  BY <1>4, <1>5
<1>7. \A id \in Held(k) :
         \E m \in taken + 1 .. taken + C : m <= all /\ id = IdOf(m) /\ Get(k, id) = m
  <2>1. \A id \in Held(q) :
         \E m \in taken + 1 .. taken + C : m <= all /\ id = IdOf(m) /\ Get(q, id) = m
    BY DEF ReceiveQueues
  <2> QED
    BY <1>4, <1>6, <2>1
<1>8. k \in ReceiveQueues(taken, all)
  BY <1>4, <1>7 DEF ReceiveQueues
<1> QED
  BY <1>4, <1>6, <1>8

\* The next message goes out, and only that one.
LEMMA ReceiveTakes ==
  ASSUME Configured, NEW taken \in Nat, NEW all \in 0 .. MaxMessages,
         NEW q \in ReceiveQueues(taken, all), NEW k \in GoodBuffers(ReceiveQueueSize, Numbers),
         IdOf(taken + 1) \in Held(q), k.sequence = q.sequence,
         Held(k) = Held(q) \ {IdOf(taken + 1)}, \A id \in Held(k) : Get(k, id) = Get(q, id)
  PROVE  /\ taken + 1 <= all /\ Get(q, IdOf(taken + 1)) = taken + 1
         /\ k \in ReceiveQueues(taken + 1, all)
<1> DEFINE C == ReceiveQueueSize
<1>1. /\ q \in GoodBuffers(C, Numbers) /\ ValidSize(C)
      /\ C \in Nat /\ C >= 2 /\ 2 * C <= Half /\ Half \in Nat /\ Modulus = 2 * Half
  BY Sizes, ValidSizes DEF ReceiveQueues
<1>2. taken + 1 \in taken + 1 .. taken + C /\ taken + 1 \in Int /\ all \in Nat
  BY <1>1, Sizes
<1>3. taken + 1 <= all /\ Get(q, IdOf(taken + 1)) = taken + 1
  BY <1>1, <1>2, ReceiveQueueHolds
<1>4. \E h \in taken + 1 .. taken + 1 + C : q.sequence = h % Modulus
  <2>1. PICK h \in taken .. taken + C : q.sequence = h % Modulus
    BY DEF ReceiveQueues
  <2>2. h # taken
    <3>1. SUFFICES ASSUME h = taken PROVE FALSE
      OBVIOUS
    <3>2. IdOf(taken + 1) = taken % Modulus /\ Behind(h % Modulus, taken % Modulus) < C
      BY <1>1, <2>1, HeldNumbers, IdOfNumber
    <3>3. h \in Int /\ h - 1 - taken = -1
      BY <3>1
    <3>4. Behind(h % Modulus, taken % Modulus) = -1 + Modulus
      BY <1>1, <3>3, WrappedBehind
    <3> QED
      BY <1>1, <3>2, <3>4
  <2>3. h \in taken + 1 .. taken + 1 + C
    BY <1>1, <2>2
  <2> QED
    BY <2>1, <2>3
<1>5. ASSUME NEW id \in Held(k)
      PROVE  \E m \in (taken + 1) + 1 .. (taken + 1) + C :
                m <= all /\ id = IdOf(m) /\ Get(k, id) = m
  <2>1. PICK m \in taken + 1 .. taken + C : m <= all /\ id = IdOf(m) /\ Get(q, id) = m
    BY DEF ReceiveQueues
  <2>2. m # taken + 1
    BY <2>1
  <2>3. m \in (taken + 1) + 1 .. (taken + 1) + C
    BY <1>1, <2>2
  <2> QED
    BY <2>1, <2>3
<1> QED
  BY <1>3, <1>4, <1>5 DEF ReceiveQueues

-----------------------------------------------------------------------------
(* Counting messages.                                                        *)

\* Sets of message numbers are finite.
LEMMA NumbersFinite ==
  ASSUME NEW S, S \subseteq Numbers
  PROVE  /\ IsFiniteSet(S) /\ Cardinality(S) \in Nat
         /\ \A T \in SUBSET S : Cardinality(T) <= Cardinality(S)
<1>1. MaxMessages \in Nat
  BY ChannelAssumption
<1>2. IsFiniteSet(Numbers)
  BY <1>1, FS_Interval DEF Numbers
<1>3. IsFiniteSet(S)
  BY <1>2, FS_Subset
<1> QED
  BY <1>3, FS_Subset, FS_CardinalityType

\* A set that has every number of a range has at least as many as the range.
LEMMA Span ==
  ASSUME NEW S, S \subseteq Numbers, NEW a \in Int, NEW x \in Int,
         \A m \in a + 1 .. x : m \in S
  PROVE  x - a <= Cardinality(S)
<1>1. Cardinality(S) \in Nat
  BY NumbersFinite
<1>2. CASE x <= a
  BY <1>1, <1>2
<1>3. CASE a < x
  <2>1. a + 1 .. x \in SUBSET S
    BY <1>3
  <2>2. Cardinality(a + 1 .. x) <= Cardinality(S)
    BY <2>1, NumbersFinite
  <2>3. Cardinality(a + 1 .. x) = x - (a + 1) + 1
    BY <1>3, FS_Interval, a + 1 \in Int
  <2> QED
    BY <1>1, <2>2, <2>3
<1> QED
  BY <1>2, <1>3

\* A packet adds no more messages than it has.
LEMMA MoreMessages ==
  ASSUME NEW S, S \subseteq Numbers, NEW messages \in MessagesOf(Numbers),
         NEW T, \A m \in T : m \in S \/ \E i \in DOMAIN messages : messages[i].message = m
  PROVE  Cardinality(T) <= Cardinality(S) + Len(messages)
<1> DEFINE L == Len(messages)
           I == 1 .. L
           M == {messages[i].message : i \in I}
           f == [i \in I |-> messages[i].message]
<1>1. L \in Nat /\ DOMAIN messages = I
      /\ \A i \in I : messages[i].message \in Numbers
  <2> DEFINE E == [id : SeqNum, message : Numbers]
  <2>1. messages \in Seq(E) /\ \A e \in E : e.message \in Numbers
    BY DEF MessagesOf
  <2> HIDE DEF E
  <2>2. L \in Nat /\ DOMAIN messages = I /\ \A i \in I : messages[i] \in E
    BY <2>1
  <2> QED
    BY <2>1, <2>2
<1>2. IsFiniteSet(I) /\ Cardinality(I) = L
  <2>1. Cardinality(1 .. L) = IF 1 > L THEN 0 ELSE L - 1 + 1
    BY <1>1, FS_Interval
  <2> QED
    BY <1>1, <2>1, FS_Interval
<1>3. f \in Surjection(I, M)
  BY DEF Surjection
<1>4. IsFiniteSet(M) /\ Cardinality(M) <= L
  <2> HIDE DEF M, f, I
  <2> QED
    BY <1>2, <1>3, FS_Surjection
<1>5. M \subseteq Numbers /\ T \subseteq S \cup M
  BY <1>1
<1> HIDE DEF M, L
<1>6. /\ IsFiniteSet(S) /\ Cardinality(S) \in Nat /\ Cardinality(M) \in Nat
      /\ Cardinality(S \cap M) \in Nat
      /\ Cardinality(T) <= Cardinality(S \cup M) /\ Cardinality(S \cup M) \in Nat
      /\ Cardinality(T) \in Nat
  <2>1. S \cap M \subseteq Numbers /\ S \cup M \subseteq Numbers /\ T \subseteq Numbers
        /\ T \in SUBSET (S \cup M)
    BY <1>5
  <2> QED
    BY <1>5, <2>1, NumbersFinite
<1>7. Cardinality(S \cup M) = Cardinality(S) + Cardinality(M) - Cardinality(S \cap M)
  BY <1>4, <1>6, FS_Union
<1> QED
  BY <1>1, <1>4, <1>6, <1>7 DEF L

-----------------------------------------------------------------------------
(* What the invariant says of the messages.                                  *)

\* What the invariant says about the queues, message by message.
LEMMA InQueues ==
  ASSUME Configured, IInv
  PROVE  /\ \A n \in Int : InSendQueue(n) => n \in Freed + 1 .. accepted
         /\ \A n \in Freed + 1 .. accepted :
               InSendQueue(n) <=> IdOf(n) \in Held(sender.message_send_queue)
         /\ \A n \in Int : InReceiveQueue(n) =>
               n \in delivered + 1 .. delivered + ReceiveQueueSize /\ n <= accepted
         /\ \A n \in delivered + 1 .. delivered + ReceiveQueueSize :
               InReceiveQueue(n) <=> IdOf(n) \in Held(receiver.message_receive_queue)
         /\ \A n \in 1 .. Freed : Arrived(n)
         /\ Freed <= delivered + ReceiveQueueSize
         /\ \A n \in Numbers : Packed(n) => n <= accepted
<1> DEFINE q == sender.message_send_queue
           k == receiver.message_receive_queue
<1>1. /\ Freed \in Nat /\ accepted \in Nat /\ accepted - Freed <= SendQueueSize
      /\ Freed <= accepted /\ delivered \in Nat /\ delivered <= accepted
      /\ ReceiveQueueSize \in Nat
  BY FreedBounds, Sizes DEF IInv, ReliableShapes
<1>2. q \in SendQueues(Freed, accepted) /\ k \in ReceiveQueues(delivered, accepted)
  BY DEF IInv, SendQueueGood, ReceiveQueueGood
<1>3. \A n \in Int : InSendQueue(n) => n \in Freed + 1 .. accepted
  BY <1>1, <1>2, SendQueueHolds DEF InSendQueue
<1>4. \A n \in Freed + 1 .. accepted : InSendQueue(n) <=> IdOf(n) \in Held(q)
  BY <1>1, <1>2, SendQueueHolds DEF InSendQueue
<1>5. \A n \in Int : InReceiveQueue(n) =>
         n \in delivered + 1 .. delivered + ReceiveQueueSize /\ n <= accepted
  BY <1>1, <1>2, ReceiveQueueHolds DEF InReceiveQueue
<1>6. \A n \in delivered + 1 .. delivered + ReceiveQueueSize :
         InReceiveQueue(n) <=> IdOf(n) \in Held(k)
  BY <1>1, <1>2, ReceiveQueueHolds DEF InReceiveQueue
<1>7. \A n \in 1 .. Freed : Arrived(n)
  <2> TAKE n \in 1 .. Freed
  <2>1. n \in 1 .. accepted /\ n \in Int /\ n \notin Freed + 1 .. accepted
    BY <1>1
  <2> QED
    BY <1>3, <2>1 DEF IInv, FreedArrived
<1>8. Freed <= delivered + ReceiveQueueSize
  <2>1. CASE Freed = 0
    BY <1>1, <2>1
  <2>2. CASE Freed > 0
    BY <1>1, <1>5, <1>7, <2>2 DEF Arrived
  <2> QED
    BY <1>1, <2>1, <2>2
<1>9. ASSUME NEW n \in Numbers, Packed(n) PROVE n <= accepted
  <2>1. n \in Int
    BY DEF Numbers
  <2>2. CASE Arrived(n)
    BY <1>1, <1>5, <2>1, <2>2 DEF Arrived
  <2>3. CASE \E p \in Packets : Carries(p, n)
    <3>1. PICK p \in Packets : Carries(p, n)
      BY <2>3
    <3>2. PICK i \in DOMAIN p.messages : p.messages[i].message = n
      BY <3>1 DEF Carries
    <3>3. i \in 1 .. Len(p.messages)
      BY <3>2 DEF IInv, PacketShapes, MessagesOf
    <3> QED
      BY <3>2, <3>3 DEF IInv, PacketMessages
  <2> QED
    BY <1>9, <2>2, <2>3 DEF Packed
<1> QED
  BY <1>3, <1>4, <1>5, <1>6, <1>7, <1>8, <1>9

\* A packet's fields.
LEMMA PacketFields ==
  ASSUME NEW p, p \in [sequence : SeqNum, messages : MessagesOf(Numbers)]
  PROVE  /\ p.sequence \in SeqNum /\ p.messages \in MessagesOf(Numbers)
         /\ Len(p.messages) \in Nat /\ DOMAIN p.messages = 1 .. Len(p.messages)
         /\ \A i \in 1 .. Len(p.messages) :
               p.messages[i].id \in SeqNum /\ p.messages[i].message \in Numbers
<1> DEFINE E == [id : SeqNum, message : Numbers]
<1>1. /\ p.sequence \in SeqNum /\ p.messages \in MessagesOf(Numbers)
      /\ p.messages \in Seq(E)
      /\ \A e \in E : e.id \in SeqNum /\ e.message \in Numbers
  BY DEF MessagesOf
<1> HIDE DEF E
<1>2. /\ Len(p.messages) \in Nat /\ DOMAIN p.messages = 1 .. Len(p.messages)
      /\ \A i \in 1 .. Len(p.messages) : p.messages[i] \in E
  BY <1>1
<1> QED
  BY <1>1, <1>2

\* A packet on its way, or one that may be acknowledged, is overtaken by less than
\* half of all ids: the comparisons that wrap see its messages where they are.
LEMMA PacketNear ==
  ASSUME Configured, IInv, NEW p \in Packets, NEW i \in 1 .. Len(p.messages)
  PROVE  LET n == p.messages[i].message
         IN  /\ n \in 1 .. accepted
             /\ p.messages[i].id = IdOf(n)
             /\ Freed - (n - 1) < Half /\ delivered - (n - 1) < Half
             /\ n <= Freed + ReceiveQueueSize
             /\ n <= delivered + 2 * ReceiveQueueSize
<1> DEFINE n == p.messages[i].message
           a == Behind(packet_sequence, p.sequence)
<1>1. /\ p \in [sequence : SeqNum, messages : MessagesOf(Numbers)]
      /\ Fresh(packet_sequence, p.sequence)
  BY DEF IInv, PacketShapes
<1>2. p.sequence \in SeqNum /\ n \in Numbers
  BY <1>1, PacketFields
<1>3. a \in 0 .. Lifetime - 1
  <2>1. a \in SeqNum /\ a < Lifetime
    BY <1>1, <1>2, BehindCases DEF IInv, ReliableShapes, Fresh
  <2> QED
    BY <2>1, Sizes DEF SeqNum
<1>4. p.messages[i].id = IdOf(n) /\ n <= accepted /\ n <= Freed + ReceiveQueueSize
  BY DEF IInv, PacketMessages
<1>5. /\ Freed \in Nat /\ Freed <= accepted /\ accepted \in Nat
      /\ delivered \in Nat /\ delivered <= accepted /\ n \in Int
      /\ SendQueueSize \in Nat /\ ReceiveQueueSize \in Nat /\ Half \in Nat
      /\ Freed <= delivered + ReceiveQueueSize
      /\ SendQueueSize + a * MaxPerPacket < Half
      /\ n >= 1 /\ accepted <= MaxMessages /\ MaxMessages \in Nat
  <2> HIDE DEF a, n
  <2>1. SendQueueSize + a * MaxPerPacket < Half
    BY <1>3, Sizes
  <2>2. n \in Int /\ n >= 1 /\ MaxMessages \in Nat
    BY <1>2, Sizes DEF Numbers
  <2>3. Freed \in Nat /\ Freed <= accepted
    BY FreedBounds DEF IInv, ReliableShapes
  <2>4. Freed <= delivered + ReceiveQueueSize
    BY InQueues
  <2> QED
    BY <2>1, <2>2, <2>3, <2>4, Sizes DEF IInv, ReliableShapes
<1>6. Cardinality(PackedAfter(n)) <= a * MaxPerPacket
  BY DEF IInv, PacketsOvertaken
<1>7. PackedAfter(n) \subseteq Numbers /\ Cardinality(PackedAfter(n)) \in Nat
  BY NumbersFinite DEF PackedAfter
<1>8. ASSUME NEW x \in Int, x <= accepted, \A m \in 1 .. x : Arrived(m)
      PROVE  x - (n - 1) < Half
  <2> DEFINE b == n - 1 + SendQueueSize
             c == Cardinality(PackedAfter(n))
             d == a * MaxPerPacket
  <2>1. b \in Int /\ b >= 0
    BY <1>5
  <2>2. \A m \in b + 1 .. x : m \in PackedAfter(n)
    <3> TAKE m \in b + 1 .. x
    <3>1. m \in Int /\ b + 1 <= m /\ m <= x
      BY <2>1
    <3>2. m \in 1 .. x /\ m \in 1 .. MaxMessages /\ m > n - 1 + SendQueueSize
      BY <1>5, <1>8, <2>1, <3>1
    <3>3. Packed(m)
      BY <1>8, <3>2 DEF Packed
    <3> QED
      BY <3>2, <3>3 DEF PackedAfter, Numbers
  <2>3. x - b <= c
    BY <1>7, <1>8, <2>1, <2>2, Span
  <2>4. d \in Nat
    BY <1>3, Sizes, Products, SMTT(30)
  <2> HIDE DEF c, d
  <2>5. c \in Int /\ d \in Int /\ c <= d /\ SendQueueSize + d < Half
    BY <1>5, <1>6, <1>7, <2>4, SMTT(30) DEF c, d
  <2>6. n \in Int /\ SendQueueSize \in Int /\ x \in Int /\ Half \in Int
    <3>1. SendQueueSize \in Int /\ Half \in Int
      BY Sizes
    <3>2. n \in Int /\ x \in Int
      BY <1>2, <1>8 DEF Numbers
    <3> QED
      BY <3>1, <3>2
  <2> HIDE DEF n
  <2> QED
    BY <2>3, <2>5, <2>6
<1>9. Freed - (n - 1) < Half
  BY <1>5, <1>8, InQueues
<1>10. delivered - (n - 1) < Half
  BY <1>5, <1>8 DEF Arrived
<1>11. n \in 1 .. accepted /\ n <= delivered + 2 * ReceiveQueueSize
  BY <1>4, <1>5
<1> QED
  BY <1>4, <1>9, <1>10, <1>11

-----------------------------------------------------------------------------
(* Steps.                                                                    *)

\* What the invariant says of the packets stays true when none is sent, nothing
\* new is packed and the counts do not go back.
LEMMA NoNewPackets ==
  ASSUME Configured, IInv, Packets' \subseteq Packets, packet_sequence' = packet_sequence,
         accepted' \in Int, accepted <= accepted', Freed' \in Int, Freed <= Freed',
         \A n \in Numbers : Packed(n)' => Packed(n)
  PROVE  PacketShapes' /\ PacketMessages' /\ PacketsOvertaken'
<1>1. /\ Freed \in Int /\ accepted \in Int /\ ReceiveQueueSize \in Int
      /\ packet_sequence \in SeqNum
  BY FreedBounds, Sizes DEF IInv, ReliableShapes
<1>2. PacketShapes'
  BY DEF IInv, PacketShapes
<1>3. ASSUME NEW p \in Packets', NEW i \in 1 .. Len(p.messages)
      PROVE  LET n == p.messages[i].message
             IN  /\ p \in Packets
                 /\ n \in Numbers /\ n \in Int
                 /\ p.messages[i].id = IdOf(n)
                 /\ n <= accepted
                 /\ n <= Freed + ReceiveQueueSize
                 /\ Behind(packet_sequence, p.sequence) \in Nat
                 /\ Cardinality(PackedAfter(n))
                        <= Behind(packet_sequence, p.sequence) * MaxPerPacket
  <2>1. p \in Packets /\ p \in [sequence : SeqNum, messages : MessagesOf(Numbers)]
    BY DEF IInv, PacketShapes
  <2>2. p.messages[i].message \in Numbers /\ p.messages[i].message \in Int
    BY <2>1, PacketFields DEF Numbers
  <2>3. Behind(packet_sequence, p.sequence) \in Nat
    BY <1>1, <2>1, PacketFields, BehindCases, HalfOfModulus DEF SeqNum
  <2> QED
    BY <2>1, <2>2, <2>3 DEF IInv, PacketMessages, PacketsOvertaken
<1>4. PacketMessages'
  BY <1>1, <1>3 DEF PacketMessages
<1>5. PacketsOvertaken'
  <2> SUFFICES ASSUME NEW p \in Packets', NEW i \in 1 .. Len(p.messages)
               PROVE  Cardinality(PackedAfter(p.messages[i].message)')
                          <= Behind(packet_sequence, p.sequence) * MaxPerPacket
    BY DEF PacketsOvertaken
  <2> DEFINE n == p.messages[i].message
             d == Behind(packet_sequence, p.sequence) * MaxPerPacket
  <2>1. PackedAfter(n)' \subseteq PackedAfter(n) /\ PackedAfter(n) \subseteq Numbers
        /\ PackedAfter(n)' \subseteq Numbers
    BY DEF PackedAfter
  <2>2. /\ Cardinality(PackedAfter(n)') <= Cardinality(PackedAfter(n))
        /\ Cardinality(PackedAfter(n)') \in Nat
        /\ Cardinality(PackedAfter(n)) \in Nat
    BY <2>1, NumbersFinite
  <2>3. Cardinality(PackedAfter(n)) <= d
    BY <1>3
  <2>4. Behind(packet_sequence, p.sequence) \in Nat /\ MaxPerPacket \in Nat
    BY <1>3, Sizes
  <2>5. d \in Nat
    BY <2>4, Products
  <2> SUFFICES Cardinality(PackedAfter(n)') <= d
    OBVIOUS
  <2> HIDE DEF d, n
  <2> QED
    BY <2>2, <2>3, <2>5
<1> QED
  BY <1>2, <1>4, <1>5

\* A step that leaves the receiver and the packets alone changes nothing of what
\* has arrived and what is packed.
LEMMA SameReceiver ==
  ASSUME receiver' = receiver, delivered' = delivered
  PROVE  /\ \A n : InReceiveQueue(n)' <=> InReceiveQueue(n)
         /\ \A n : Arrived(n)' <=> Arrived(n)
         /\ (Packets' \subseteq Packets) => \A n : Packed(n)' => Packed(n)
<1>1. \A n : InReceiveQueue(n)' <=> InReceiveQueue(n)
  BY DEF InReceiveQueue
<1>2. \A n : Arrived(n)' <=> Arrived(n)
  BY <1>1 DEF Arrived
<1> QED
  BY <1>1, <1>2 DEF Packed, Carries

\* The sender's message ids before and after a step that changes neither.
LEMMA SameFreed ==
  ASSUME sender'.send_message_id = sender.send_message_id, accepted' = accepted,
         sender'.oldest_unacked_message_id = sender.oldest_unacked_message_id
  PROVE  Unacked' = Unacked /\ Freed' = Freed
BY DEF Unacked, Freed

\* SendMessage keeps the invariant.
LEMMA SendMessageKeeps ==
  ASSUME Configured, IInv, SendMessage
  PROVE  IInv'
<1> DEFINE q == sender.message_send_queue
           k == sender'.message_send_queue
           o == sender.oldest_unacked_message_id
<1> USE DEF local, remote, links
<1>calm. ~SendFails(sender)
  BY SendNeverFails DEF IInv, ReliableShapes, SendQueueGood, SendQueues
<1>0. /\ receiver' = receiver /\ delivered' = delivered
      /\ packet_sequence' = packet_sequence /\ panicked' = panicked
      /\ network' = network /\ received' = received /\ acked' = acked
      /\ Packets' = Packets /\ panicked = NoPanic
  BY <1>calm DEF SendMessage, Packets
<1>1. /\ sender \in Reliables(Numbers) /\ receiver \in Reliables(Numbers)
      /\ accepted \in Nat /\ accepted <= MaxMessages
      /\ MaxMessages \in Nat /\ SendQueueSize \in Nat
      /\ Freed \in 0 .. accepted /\ accepted - Freed <= SendQueueSize
      /\ Unacked = accepted - Freed /\ o = Freed % Modulus
      /\ SendQueueSize < Half /\ Half \in Nat /\ Modulus = 2 * Half
      /\ q \in SendQueues(Freed, accepted) /\ delivered \in 0 .. accepted
      /\ sender.send_message_id = accepted % Modulus
  BY FreedBounds, Sizes DEF IInv, ReliableShapes, SendQueueGood
<1>2. CASE ~CanSendMessage(sender)
  <2>1. sender' = sender /\ accepted' = accepted
    BY <1>2 DEF SendMessage
  <2> QED
    BY <1>0, <2>1 DEF IInv, ReliableShapes, SendQueueGood, ReceiveQueueGood, FreedArrived,
       PacketShapes, PacketMessages, PacketsOvertaken, ReceivedArrived, SentPacketsGood,
       SentPacketsKept, PanicsOnlyIfUndrained, Unacked, Freed, Arrived, Packed, PackedAfter,
       Packets, InSendQueue, InReceiveQueue, Idle
<1>3. CASE CanSendMessage(sender)
  <2> DEFINE n == accepted + 1
  <2>1. /\ accepted < MaxMessages /\ accepted' = n /\ sender' = EnqueueMessage(sender, n)
        /\ n \in Numbers /\ n \in Nat
    BY <1>calm, <1>1, <1>3 DEF SendMessage, Numbers
  <2>2. q.sequence = sender.send_message_id /\ q \in GoodBuffers(SendQueueSize, SendEntries(Numbers))
    BY <1>1 DEF SendQueues
  <2>3. WrappingAdd(accepted % Modulus, 1) = n % Modulus /\ IdOf(n) = accepted % Modulus
    <3>1. accepted \in Int /\ 1 \in Int
      BY <1>1
    <3>2. WrappingAdd(accepted % Modulus, 1) = (accepted + 1) % Modulus
      BY <3>1, WrappedAdd, Zenon
    <3>3. IdOf(accepted + 1) = accepted % Modulus
      BY <3>1, IdOfNumber
    <3> QED
      BY <3>2, <3>3
  <2>4. /\ sender' \in Reliables(Numbers)
        /\ sender'.send_message_id = n % Modulus
        /\ sender'.oldest_unacked_message_id = o
        /\ sender'.sent_packets = sender.sent_packets
        /\ k.sequence = n % Modulus
        /\ Held(k) = {IdOf(n)} \cup Held(q)
        /\ Get(k, IdOf(n)).message = n
        /\ \A u \in Held(q) : u # IdOf(n) /\ Get(k, u) = Get(q, u)
    <3> DEFINE e == EnqueueMessage(sender, n)
               v == sender.send_message_id
    <3>1. GoodSizes /\ q.sequence = v
      BY <2>2 DEF Configured
    <3>0. sender \in Reliables(Numbers) /\ n \in Numbers /\ CanSendMessage(sender)
      BY <1>1, <1>3, <2>1
    <3>2. /\ e \in Reliables(Numbers)
          /\ e.send_message_id = WrappingAdd(v, 1)
          /\ e.oldest_unacked_message_id = o
          /\ e.sent_packets = sender.sent_packets
          /\ e.message_send_queue.sequence = e.send_message_id
          /\ Held(e.message_send_queue) = {v} \cup Held(q)
          /\ Get(e.message_send_queue, v).message = n
          /\ \A u \in Held(q) : u # v /\ Get(e.message_send_queue, u) = Get(q, u)
      <4> HIDE DEF n
      <4>1. /\ e \in Reliables(Numbers)
            /\ e.send_message_id = WrappingAdd(v, 1)
            /\ e.oldest_unacked_message_id = o
            /\ e.sent_packets = sender.sent_packets
            /\ e.message_send_queue.sequence = e.send_message_id
        BY <3>0, <3>1, EnqueueAppends
      <4>2. /\ Held(e.message_send_queue) = {v} \cup Held(q)
            /\ Get(e.message_send_queue, v).message = n
        BY <3>0, <3>1, EnqueueAppends
      <4>3. \A u \in Held(q) : u # v /\ Get(e.message_send_queue, u) = Get(q, u)
        BY <3>0, <3>1, EnqueueAppends
      <4> QED
        BY <4>1, <4>2, <4>3
    <3>3. v = accepted % Modulus /\ sender' = e
      BY <1>1, <2>1
    <3> HIDE DEF e, v, n
    <3> QED
      BY <2>3, <3>2, <3>3
  <2>5. Unacked' = n - Freed
    <3>1. Freed \in Int /\ n \in Int /\ Freed <= n /\ n - Freed < Modulus
      BY <1>1, <2>1
    <3>2. (sender'.send_message_id - sender'.oldest_unacked_message_id) % Modulus = n - Freed
      BY <1>1, <2>4, <3>1, UnackedIs
    <3> QED
      BY <3>2 DEF Unacked
  <2>6. Freed' = Freed /\ Unacked' <= accepted'
    BY <1>1, <2>1, <2>5 DEF Freed
  <2>7. k \in SendQueues(Freed, n)
    <3>1. k \in GoodBuffers(SendQueueSize, SendEntries(Numbers))
      BY <2>4, ReliableFields
    <3>2. ASSUME NEW id \in Held(k)
          PROVE  \E m \in Freed + 1 .. n : id = IdOf(m) /\ Get(k, id).message = m
      <4>1. CASE id = IdOf(n)
        BY <1>1, <2>4, <4>1
      <4>2. CASE id \in Held(q)
        <5>1. PICK m \in Freed + 1 .. accepted : id = IdOf(m) /\ Get(q, id).message = m
          BY <1>1, <4>2 DEF SendQueues
        <5> QED
          BY <1>1, <2>4, <4>2, <5>1
      <4> QED
        BY <2>4, <4>1, <4>2
    <3>3. IdOf(Freed + 1) \in Held(k)
      <4>1. CASE Freed = accepted
        BY <2>4, <4>1
      <4>2. CASE Freed < accepted
        BY <1>1, <2>4, <4>2 DEF SendQueues
      <4> QED
        BY <1>1, <4>1, <4>2
    <3> QED
      BY <2>4, <3>1, <3>2, <3>3 DEF SendQueues
  <2>8. ReliableShapes'
    BY <1>0, <1>1, <2>1, <2>4 DEF ReliableShapes, IInv
  <2>9. SendQueueGood'
    BY <2>1, <2>4, <2>6, <2>7 DEF SendQueueGood
  <2>10. ReceiveQueueGood'
    <3> DEFINE r == receiver.message_receive_queue
    <3>1. r \in ReceiveQueues(delivered, accepted) /\ delivered \in Int /\ ReceiveQueueSize \in Int
      BY <1>1, Sizes DEF IInv, ReceiveQueueGood
    <3>2. \A m \in delivered + 1 .. delivered + ReceiveQueueSize : m <= accepted => m <= n
      BY <1>1, <3>1
    <3>3. r \in ReceiveQueues(delivered, n)
      BY <3>1, <3>2 DEF ReceiveQueues
    <3> QED
      BY <1>0, <2>1, <3>3 DEF IInv, ReceiveQueueGood
  <2>11. \A m : /\ InReceiveQueue(m)' <=> InReceiveQueue(m)
                /\ Arrived(m)' <=> Arrived(m)
                /\ Packed(m)' => Packed(m)
    BY <1>0, SameReceiver
  <2>12. FreedArrived'
    <3>1. ASSUME NEW m \in 1 .. n, ~Arrived(m) PROVE InSendQueue(m)'
      <4>1. m \in Int
        OBVIOUS
      <4>2. IdOf(m) \in Held(k) /\ m \in Freed + 1 .. n
        <5>1. CASE m = n
          BY <1>1, <2>4, <5>1
        <5>2. CASE m # n
          <6>1. m \in 1 .. accepted
            BY <1>1, <5>2
          <6>2. InSendQueue(m)
            BY <3>1, <6>1 DEF IInv, FreedArrived
          <6>3. m \in Freed + 1 .. accepted /\ IdOf(m) \in Held(q)
            BY <4>1, <6>2, InQueues
          <6> QED
            BY <1>1, <2>4, <6>3
        <5> QED
          BY <5>1, <5>2
      <4>3. Freed \in Nat /\ n \in Nat /\ Freed <= n
        BY <1>1, <2>1
      <4>4. n - Freed <= SendQueueSize
        <5>1. /\ Behind(n % Modulus, Freed % Modulus) < SendQueueSize \/ Freed = accepted
          <6>1. Freed < accepted \/ Freed = accepted
            BY <1>1
          <6>2. Freed < accepted => IdOf(Freed + 1) \in Held(k)
            BY <1>1, <2>4 DEF SendQueues
          <6>3. IdOf(Freed + 1) = Freed % Modulus
            BY <4>3, IdOfNumber
          <6>4. k \in GoodBuffers(SendQueueSize, SendEntries(Numbers))
            BY <2>7 DEF SendQueues
          <6> QED
            BY <2>4, <6>1, <6>2, <6>3, <6>4, HeldNumbers, ValidSizes
        <5>2. Behind(n % Modulus, Freed % Modulus) = n - 1 - Freed
          <6>1. n \in Int /\ Freed \in Int /\ 0 <= n - 1 - Freed /\ n - 1 - Freed < Modulus
            BY <1>1, <2>1
          <6> HIDE DEF n
          <6> QED
            BY <6>1, WrappedBehind
        <5> QED
          BY <1>1, <2>1, <5>1, <5>2, Sizes
      <4>5. /\ Exists(k, IdOf(m))
            /\ Get(k, IdOf(m)).message = m
        BY <2>7, <4>1, <4>2, <4>3, <4>4, SendQueueHolds
      <4> QED
        BY <4>5 DEF InSendQueue
    <3> QED
      BY <2>1, <2>11, <3>1 DEF FreedArrived
  <2>13. PacketShapes' /\ PacketMessages' /\ PacketsOvertaken'
    BY <1>0, <1>1, <2>1, <2>6, <2>11, NoNewPackets
  <2>14. ReceivedArrived'
    BY <1>0, <2>11 DEF IInv, ReceivedArrived
  <2>15. SentPacketsGood' /\ SentPacketsKept'
    BY <1>0, <2>4 DEF IInv, SentPacketsGood, SentPacketsKept, Idle
  <2>16. PanicsOnlyIfUndrained'
    BY <1>0 DEF PanicsOnlyIfUndrained
  <2> QED
    BY <2>8, <2>9, <2>10, <2>12, <2>13, <2>14, <2>15, <2>16 DEF IInv
<1> QED
  BY <1>2, <1>3

\* ReceiveMessage keeps the invariant, and what it returns is the next message.
LEMMA ReceiveMessageKeeps ==
  ASSUME Configured, IInv, ReceiveMessage
  PROVE  IInv' /\ delivered + 1 <= accepted /\ NextMessage(receiver) = delivered + 1
<1> DEFINE q == receiver.message_receive_queue
           k == receiver'.message_receive_queue
           n == delivered + 1
           C == ReceiveQueueSize
<1> USE DEF local, remote, links
<1>0. /\ sender' = sender /\ accepted' = accepted /\ delivered' = n
      /\ packet_sequence' = packet_sequence /\ panicked' = panicked
      /\ network' = network /\ received' = received /\ acked' = acked
      /\ Packets' = Packets /\ panicked = NoPanic
      /\ CanReceiveMessage(receiver) /\ receiver' = DequeueMessage(receiver)
  BY DEF ReceiveMessage, Packets
<1>1. /\ receiver \in Reliables(Numbers) /\ receiver.receive_message_id = delivered % Modulus
      /\ accepted \in 0 .. MaxMessages /\ MaxMessages \in Nat
      /\ delivered \in Nat /\ delivered <= accepted
      /\ q \in ReceiveQueues(delivered, accepted)
      /\ C \in Nat /\ C >= 2 /\ 2 * C <= Half /\ Half \in Nat
      /\ Freed \in 0 .. accepted
  BY FreedBounds, Sizes DEF IInv, ReliableShapes, ReceiveQueueGood
<1>2. IdOf(n) = receiver.receive_message_id /\ IdOf(n) \in SeqNum /\ n \in Int
  BY <1>1, IdOfNumber
<1>3. IdOf(n) \in Held(q)
  BY <1>0, <1>1, <1>2, ReceiveQueueHolds DEF CanReceiveMessage
<1>4. /\ receiver' \in Reliables(Numbers)
      /\ receiver'.receive_message_id = WrappingAdd(receiver.receive_message_id, 1)
      /\ k.sequence = q.sequence
      /\ Held(k) = Held(q) \ {IdOf(n)}
      /\ \A u \in Held(k) : Get(k, u) = Get(q, u)
  BY <1>0, <1>1, <1>2, DequeueTakes
<1>5. receiver'.receive_message_id = n % Modulus
  <2>1. WrappingAdd(delivered % Modulus, 1) = (delivered + 1) % Modulus
    BY <1>1, WrappedAdd, delivered \in Int, 1 \in Int, Zenon
  <2> QED
    BY <1>1, <1>4, <2>1
<1>6. n <= accepted /\ Get(q, IdOf(n)) = n /\ k \in ReceiveQueues(n, accepted)
  <2>1. k \in GoodBuffers(C, Numbers)
    BY <1>4, ReliableFields
  <2> QED
    BY <1>1, <1>3, <1>4, <2>1, ReceiveTakes
<1>7. NextMessage(receiver) = n
  BY <1>2, <1>6 DEF NextMessage
<1>8. ReliableShapes'
  BY <1>0, <1>1, <1>4, <1>6 DEF IInv, ReliableShapes
<1>9. ReceiveQueueGood'
  BY <1>0, <1>5, <1>6 DEF ReceiveQueueGood
<1>10. SendQueueGood' /\ Freed' = Freed
  BY <1>0 DEF IInv, SendQueueGood, Freed, Unacked
<1>11. \A m \in Int : m # n => (InReceiveQueue(m)' <=> InReceiveQueue(m))
  <2> TAKE m \in Int
  <2> HAVE m # n
  <2>1. InReceiveQueue(m) <=> IdOf(m) \in Held(q) /\ Get(q, IdOf(m)) = m
    BY <1>1, ReceiveQueueHolds DEF InReceiveQueue
  <2>2. InReceiveQueue(m)' <=> IdOf(m) \in Held(k) /\ Get(k, IdOf(m)) = m
    <3>1. Exists(k, IdOf(m)) <=> IdOf(m) \in Held(k)
      BY <1>1, <1>6, ReceiveQueueHolds, n \in Nat, accepted \in Nat
    <3> QED
      BY <3>1 DEF InReceiveQueue
  <2>3. IdOf(m) = IdOf(n) => Get(q, IdOf(m)) # m
    BY <1>6
  <2> QED
    BY <1>4, <2>1, <2>2, <2>3
<1>12. \A m \in Int : Arrived(m)' <=> Arrived(m)
  <2> TAKE m \in Int
  <2>1. CASE m = n
    <3>1. InReceiveQueue(n)
      BY <1>1, <1>2, <1>3, <1>6, ReceiveQueueHolds DEF InReceiveQueue
    <3> QED
      BY <1>0, <1>1, <2>1, <3>1 DEF Arrived
  <2>2. CASE m # n
    BY <1>0, <1>1, <1>11, <2>2 DEF Arrived
  <2> QED
    BY <2>1, <2>2
<1>13. \A m \in Numbers : Packed(m)' => Packed(m)
  BY <1>0, <1>12 DEF Packed, Carries, Numbers
<1>14. FreedArrived'
  <2>1. \A m \in 1 .. accepted : InSendQueue(m)' <=> InSendQueue(m)
    BY <1>0 DEF InSendQueue
  <2> QED
    BY <1>0, <1>12, <2>1 DEF IInv, FreedArrived
<1>15. PacketShapes' /\ PacketMessages' /\ PacketsOvertaken'
  BY <1>0, <1>1, <1>10, <1>13, NoNewPackets
<1>16. ReceivedArrived'
  <2> SUFFICES ASSUME NEW p \in received, NEW i \in 1 .. Len(p.messages)
               PROVE  Arrived(p.messages[i].message)'
    BY <1>0 DEF ReceivedArrived
  <2>1. p.messages[i].message \in Int /\ Arrived(p.messages[i].message)
    BY PacketFields DEF IInv, PacketShapes, Packets, Numbers, ReceivedArrived
  <2> QED
    BY <1>12, <2>1
<1>17. SentPacketsGood' /\ SentPacketsKept'
  BY <1>0 DEF IInv, SentPacketsGood, SentPacketsKept, Idle
<1>18. PanicsOnlyIfUndrained'
  BY <1>0 DEF PanicsOnlyIfUndrained
<1> QED
  BY <1>6, <1>7, <1>8, <1>9, <1>10, <1>14, <1>15, <1>16, <1>17, <1>18 DEF IInv

\* A step of the sender that leaves the ids and the messages in its queue alone.
LEMMA SameInSendQueue ==
  ASSUME Configured, sender \in Reliables(Numbers), sender' \in Reliables(Numbers),
         Held(sender'.message_send_queue) = Held(sender.message_send_queue),
         \A id \in Held(sender.message_send_queue) :
            Get(sender'.message_send_queue, id).message
                = Get(sender.message_send_queue, id).message
  PROVE  \A n \in Int : InSendQueue(n)' <=> InSendQueue(n)
<1> TAKE n \in Int
<1> DEFINE q == sender.message_send_queue
           k == sender'.message_send_queue
<1>1. /\ q \in GoodBuffers(SendQueueSize, SendEntries(Numbers))
      /\ k \in GoodBuffers(SendQueueSize, SendEntries(Numbers))
      /\ IdOf(n) \in SeqNum
  BY ReliableFields, IdOfNumber
<1>2. /\ Exists(q, IdOf(n)) <=> IdOf(n) \in Held(q)
      /\ Exists(k, IdOf(n)) <=> IdOf(n) \in Held(k)
  BY <1>1, ValidSizes, ExistsHeld
<1> QED
  BY <1>2 DEF InSendQueue

\* AdvanceTime keeps the invariant.
LEMMA AdvanceTimeKeeps ==
  ASSUME Configured, IInv, AdvanceTime
  PROVE  IInv'
<1> DEFINE q == sender.message_send_queue
           k == sender'.message_send_queue
<1> USE DEF remote, links
<1>0. /\ receiver' = receiver /\ delivered' = delivered /\ accepted' = accepted
      /\ packet_sequence' = packet_sequence /\ panicked' = panicked
      /\ network' = network /\ received' = received /\ acked' = acked
      /\ Packets' = Packets /\ sender' = AdvanceReliable(sender)
  BY DEF AdvanceTime, Packets
<1>1. /\ sender \in Reliables(Numbers) /\ q \in SendQueues(Freed, accepted)
      /\ Freed \in Nat /\ accepted \in Nat
  BY FreedBounds, Sizes DEF IInv, ReliableShapes, SendQueueGood
<1>2. /\ sender' \in Reliables(Numbers)
      /\ sender'.send_message_id = sender.send_message_id
      /\ sender'.oldest_unacked_message_id = sender.oldest_unacked_message_id
      /\ sender'.sent_packets = sender.sent_packets
      /\ k.sequence = q.sequence /\ Held(k) = Held(q)
      /\ \A id \in Held(q) : Get(k, id).message = Get(q, id).message
  BY <1>0, <1>1, AdvanceKeeps
<1>3. Unacked' = Unacked /\ Freed' = Freed
  BY <1>0, <1>2, SameFreed
<1>4. k \in SendQueues(Freed, accepted)
  <2>1. k \in GoodBuffers(SendQueueSize, SendEntries(Numbers))
    BY <1>2, ReliableFields
  <2> QED
    BY <1>1, <1>2, <2>1 DEF SendQueues
<1>5. ReliableShapes' /\ SendQueueGood' /\ ReceiveQueueGood'
  BY <1>0, <1>2, <1>3, <1>4 DEF IInv, ReliableShapes, SendQueueGood, ReceiveQueueGood
<1>6. \A m : /\ Arrived(m)' <=> Arrived(m)
             /\ Packed(m)' => Packed(m)
  BY <1>0, SameReceiver
<1>7. FreedArrived'
  BY <1>0, <1>1, <1>4, <1>2, <1>6, SameInSendQueue DEF IInv, FreedArrived
<1>8. PacketShapes' /\ PacketMessages' /\ PacketsOvertaken'
  BY <1>0, <1>1, <1>3, <1>6, NoNewPackets
<1>9. ReceivedArrived' /\ SentPacketsGood' /\ SentPacketsKept' /\ PanicsOnlyIfUndrained'
  BY <1>0, <1>2, <1>6 DEF IInv, ReceivedArrived, SentPacketsGood, SentPacketsKept, Idle,
     PanicsOnlyIfUndrained
<1> QED
  BY <1>5, <1>7, <1>8, <1>9 DEF IInv

\* LosePacket keeps the invariant.
LEMMA LosePacketKeeps ==
  ASSUME Configured, IInv, NEW p \in network, LosePacket(p)
  PROVE  IInv'
<1> USE DEF local, remote
<1>0. /\ receiver' = receiver /\ delivered' = delivered /\ accepted' = accepted
      /\ packet_sequence' = packet_sequence /\ panicked' = panicked
      /\ sender' = sender /\ received' = received /\ acked' = acked
      /\ Packets' \subseteq Packets
  BY DEF LosePacket, Packets
<1>1. Freed \in Nat /\ accepted \in Nat
  BY FreedBounds, Sizes DEF IInv, ReliableShapes
<1>2. Unacked' = Unacked /\ Freed' = Freed
  BY <1>0, SameFreed
<1>3. ReliableShapes' /\ SendQueueGood' /\ ReceiveQueueGood'
  BY <1>0, <1>2 DEF IInv, ReliableShapes, SendQueueGood, ReceiveQueueGood
<1>4. \A m : /\ Arrived(m)' <=> Arrived(m)
             /\ Packed(m)' => Packed(m)
  BY <1>0, SameReceiver
<1>5. FreedArrived'
  BY <1>0, <1>4 DEF IInv, FreedArrived, InSendQueue
<1>6. PacketShapes' /\ PacketMessages' /\ PacketsOvertaken'
  BY <1>0, <1>1, <1>2, <1>4, NoNewPackets
<1>7. ReceivedArrived' /\ SentPacketsGood' /\ SentPacketsKept' /\ PanicsOnlyIfUndrained'
  BY <1>0, <1>4 DEF IInv, ReceivedArrived, SentPacketsGood, SentPacketsKept, Idle,
     PanicsOnlyIfUndrained
<1> QED
  BY <1>3, <1>5, <1>6, <1>7 DEF IInv

\* A channel just opened, or reset, at both ends.
NewSession ==
    /\ sender \in Reliables(Numbers) /\ receiver \in Reliables(Numbers)
    /\ sender.send_message_id = 0 /\ sender.oldest_unacked_message_id = 0
    /\ sender.message_send_queue.sequence = 0 /\ Held(sender.message_send_queue) = {}
    /\ sender.sent_packets.sequence = 0 /\ Held(sender.sent_packets) = {}
    /\ receiver.receive_message_id = 0
    /\ receiver.message_receive_queue.sequence = 0
    /\ Held(receiver.message_receive_queue) = {}
    /\ packet_sequence = 0 /\ accepted = 0 /\ delivered = 0 /\ panicked = NoPanic
    /\ network = {} /\ received = {} /\ acked = {}

\* A new session satisfies the invariant.
LEMMA NewSessionGood == Configured /\ NewSession => IInv
<1> SUFFICES ASSUME Configured, NewSession PROVE IInv
  OBVIOUS
<1> USE DEF NewSession
<1>1. /\ 0 % Modulus = 0 /\ 0 \in SeqNum /\ 0 - 0 = 0
      /\ MaxMessages \in Nat /\ MaxIdle \in Nat /\ ReceiveQueueSize \in Nat
  <2>1. 0 \in SeqNum
    BY ModulusAssumption DEF SeqNum
  <2>2. 0 % Modulus = 0
    BY <2>1, Wrapped, 0 \in Int
  <2> QED
    BY <2>1, <2>2, Sizes
<1>2. Unacked = 0 /\ Freed = 0 /\ Idle = 0 /\ Packets = {}
  BY <1>1 DEF Unacked, Freed, Idle, Packets
<1>3. ReliableShapes
  BY <1>1 DEF ReliableShapes
<1>4. sender.message_send_queue \in SendQueues(0, 0)
  BY <1>1, ReliableFields DEF SendQueues
<1>5. receiver.message_receive_queue \in ReceiveQueues(0, 0)
  <2>1. 0 \in 0 .. 0 + ReceiveQueueSize
    BY <1>1
  <2> QED
    BY <1>1, <2>1, ReliableFields DEF ReceiveQueues
<1>6. SendQueueGood /\ ReceiveQueueGood
  BY <1>1, <1>2, <1>4, <1>5 DEF SendQueueGood, ReceiveQueueGood
<1>7. FreedArrived
  BY DEF FreedArrived
<1>8. /\ PacketShapes /\ PacketMessages /\ PacketsOvertaken /\ ReceivedArrived
      /\ SentPacketsGood /\ SentPacketsKept /\ PanicsOnlyIfUndrained
  BY <1>1, <1>2 DEF PacketShapes, PacketMessages, PacketsOvertaken, ReceivedArrived,
     SentPacketsGood, SentPacketsKept, PanicsOnlyIfUndrained
<1> QED
  BY <1>3, <1>6, <1>7, <1>8 DEF IInv

\* Reset, at the end of a session, keeps the invariant.
LEMMA ResetKeeps ==
  ASSUME Configured, IInv, Reset
  PROVE  IInv'
<1>1. NewSession'
  <2>1. sender \in Reliables(Numbers) /\ receiver \in Reliables(Numbers)
    BY DEF IInv, ReliableShapes
  <2>2. sender' = ResetReliable(sender) /\ receiver' = ResetReliable(receiver)
    BY DEF Reset
  <2> QED
    BY <2>1, <2>2, ResetReliableEmpty DEF Reset, NewSession
<1>2. Configured'
  OBVIOUS
<1> QED
  BY <1>1, <1>2, NewSessionGood, PTL

\* While an ack is processed the oldest unacked id never passes the queue's
\* pointer, h, if it was not ahead of it: its assertion holds.
LEMMA OldestNeverPasses ==
  ASSUME NEW V, NEW r \in Reliables(V), NEW x \in Int, NEW h \in Int, x <= h, h - x < Half,
         r.oldest_unacked_message_id = x % Modulus,
         r.message_send_queue.sequence = h % Modulus, NEW ids \in Seq(SeqNum)
  PROVE  ~OldestPasses(r, ids)
<1> DEFINE q == r.message_send_queue
<1>1. q \in GoodBuffers(SendQueueSize, SendEntries(V))
  BY ReliableFields
<1>2. Half \in Nat /\ Half >= 2 /\ Modulus = 2 * Half
  BY HalfOfModulus
<1>3. ASSUME NEW n \in DOMAIN ids
      PROVE  LET queue == TakeAll(q, SubSeq(ids, 1, n))
             IN  ~SequenceGreaterThan(UpdateOldest(x % Modulus, queue), queue.sequence)
  <2> DEFINE taken == SubSeq(ids, 1, n)
             queue == TakeAll(q, taken)
  <2>1. taken \in Seq(SeqNum)
    BY <1>3
  <2> HIDE DEF q, taken
  <2>2. queue.sequence = h % Modulus
    <3>1. queue.sequence = q.sequence
      BY <1>1, <2>1, TakeAllHeld
    <3> QED
      BY <3>1 DEF q
  <2> HIDE DEF queue
  <2>3. h - x < Modulus
    BY <1>2
  <2>4. PICK y \in x .. h : UpdateOldest(x % Modulus, queue) = y % Modulus
    BY <2>2, <2>3, UpdateOldestFinds
  <2>5. y \in Int /\ -Half < y - h /\ y - h <= 0
    BY <1>2
  <2>6. ~SequenceGreaterThan(y % Modulus, h % Modulus)
    BY <2>5, WrappedGreater
  <2> QED
    BY <2>2, <2>4, <2>6 DEF queue, taken
<1> QED
  BY <1>3 DEF OldestPasses

\* The messages of an acknowledged packet leave the send queue, no others.
LEMMA ProcessAckOfKeeps ==
  ASSUME Configured, IInv, NEW p \in received, ProcessAckOf(p)
  PROVE  /\ IInv'
         /\ panicked' = NoPanic
         /\ Lifetime <= SentPacketsSize =>
               \A i \in DOMAIN p.messages : ~InSendQueue(p.messages[i].message)'
<1> DEFINE q == sender.message_send_queue
           k == sender'.message_send_queue
           sp == sender.sent_packets
           ack == p.sequence
<1> USE DEF remote
<1>0. /\ receiver' = receiver /\ delivered' = delivered /\ accepted' = accepted
      /\ packet_sequence' = packet_sequence /\ network' = network
      /\ received' = received /\ acked' = acked \cup {ack} /\ Packets' = Packets
      /\ panicked = NoPanic /\ ack \notin acked
  BY DEF ProcessAckOf, Packets
<1>1. /\ sender \in Reliables(Numbers) /\ q \in SendQueues(Freed, accepted)
      /\ Freed \in Nat /\ Freed <= accepted /\ accepted \in Nat
      /\ accepted - Freed <= SendQueueSize
      /\ sender.oldest_unacked_message_id = Freed % Modulus
      /\ sender.send_message_id = accepted % Modulus
      /\ SendQueueSize \in Nat /\ SendQueueSize < Half /\ Half \in Nat
      /\ Modulus = 2 * Half /\ ReceiveQueueSize \in Nat
  BY FreedBounds, Sizes DEF IInv, ReliableShapes, SendQueueGood
<1>2. /\ p \in [sequence : SeqNum, messages : MessagesOf(Numbers)]
      /\ p \in Packets /\ Fresh(packet_sequence, ack)
  BY DEF IInv, PacketShapes, Packets
<1>3. ack \in SeqNum /\ sp \in GoodBuffers(SentPacketsSize, PacketEntries)
  BY <1>1, <1>2, PacketFields, ReliableFields
<1>4. Exists(sp, ack) <=> ack \in Held(sp)
  BY <1>3, ExistsHeld, ValidSizes
<1>5. ~AckFails(sender, ack)
  <2>1. ASSUME ack \in Held(sp) PROVE ~Get(sp, ack).acked
    BY <1>0, <1>2, <2>1 DEF IInv, SentPacketsGood
  <2>2. ASSUME ack \in Held(sp) PROVE ~OldestPasses(sender, Get(sp, ack).message_ids)
    <3> DEFINE ids == Get(sp, ack).message_ids
    <3>1. ids \in Seq(SeqNum)
      BY <1>1, <2>2, ProcessAckTakes
    <3>2. q.sequence = accepted % Modulus
      BY <1>1 DEF SendQueues
    <3>3. Freed \in Int /\ accepted \in Int /\ accepted - Freed < Half
      BY <1>1
    <3> HIDE DEF ids
    <3>4. ~OldestPasses(sender, ids)
      BY <1>1, <3>1, <3>2, <3>3, OldestNeverPasses
    <3> QED
      BY <3>4 DEF ids
  <2> QED
    BY <1>4, <2>1, <2>2 DEF AckFails
<1>6. panicked' = NoPanic /\ sender' = ProcessAck(sender, ack)
  BY <1>0, <1>5 DEF ProcessAckOf
<1>7. \A m : /\ InReceiveQueue(m)' <=> InReceiveQueue(m)
             /\ Arrived(m)' <=> Arrived(m)
             /\ Packed(m)' => Packed(m)
  BY <1>0, SameReceiver
<1>8. ReceivedArrived'
  BY <1>0, <1>7 DEF IInv, ReceivedArrived
<1>9. PanicsOnlyIfUndrained'
  BY <1>6 DEF PanicsOnlyIfUndrained
<1>10. CASE ack \notin Held(sp)
  <2>1. sender' = sender
    BY <1>4, <1>6, <1>10 DEF ProcessAck
  <2>2. Unacked' = Unacked /\ Freed' = Freed
    BY <1>0, <2>1, SameFreed
  <2>3. ReliableShapes' /\ SendQueueGood' /\ ReceiveQueueGood'
    BY <1>0, <2>1, <2>2 DEF IInv, ReliableShapes, SendQueueGood, ReceiveQueueGood
  <2>4. FreedArrived'
    BY <1>0, <1>7, <2>1 DEF IInv, FreedArrived, InSendQueue
  <2>5. PacketShapes' /\ PacketMessages' /\ PacketsOvertaken'
    BY <1>0, <1>1, <1>7, <2>2, NoNewPackets
  <2>6. SentPacketsGood' /\ SentPacketsKept'
    BY <1>0, <2>1 DEF IInv, SentPacketsGood, SentPacketsKept, Idle
  <2>7. Lifetime <= SentPacketsSize => p.messages = <<>>
    BY <1>2, <1>10 DEF IInv, SentPacketsKept
  <2> QED
    BY <1>6, <1>8, <1>9, <2>3, <2>4, <2>5, <2>6, <2>7 DEF IInv
<1>11. CASE ack \in Held(sp)
  <2> DEFINE ids == Get(sp, ack).message_ids
             gone == Members(ids)
  <2>1. /\ sender'.send_message_id = sender.send_message_id
        /\ sender'.oldest_unacked_message_id
               = IF k = q THEN sender.oldest_unacked_message_id
                 ELSE UpdateOldest(sender.oldest_unacked_message_id, k)
        /\ sender'.oldest_unacked_message_id \in SeqNum => sender' \in Reliables(Numbers)
        /\ sender'.sent_packets.sequence = sp.sequence
        /\ Held(sender'.sent_packets) = Held(sp)
        /\ \A s \in Held(sp) :
              /\ Get(sender'.sent_packets, s).message_ids = Get(sp, s).message_ids
              /\ s # ack => Get(sender'.sent_packets, s).acked = Get(sp, s).acked
        /\ k \in GoodBuffers(SendQueueSize, SendEntries(Numbers))
        /\ k.sequence = q.sequence
        /\ Held(k) = Held(q) \ gone
        /\ \A u \in Held(k) : Get(k, u) = Get(q, u)
    <3>1. k = TakeAll(q, ids)
      BY <1>1, <1>6, <1>11, ProcessAckTakes
    <3> DEFINE kept == TakeAll(q, ids)
               n == ProcessAck(sender, ack)
    <3>2. /\ n.send_message_id = sender.send_message_id
          /\ n.oldest_unacked_message_id
                 = IF kept = q THEN sender.oldest_unacked_message_id
                   ELSE UpdateOldest(sender.oldest_unacked_message_id, kept)
          /\ n.oldest_unacked_message_id \in SeqNum => n \in Reliables(Numbers)
          /\ n.sent_packets.sequence = sp.sequence
          /\ Held(n.sent_packets) = Held(sp)
          /\ \A s \in Held(sp) :
                /\ Get(n.sent_packets, s).message_ids = Get(sp, s).message_ids
                /\ s # ack => Get(n.sent_packets, s).acked = Get(sp, s).acked
          /\ kept \in GoodBuffers(SendQueueSize, SendEntries(Numbers))
          /\ kept.sequence = q.sequence
          /\ Held(kept) = Held(q) \ gone
          /\ \A u \in Held(kept) : Get(kept, u) = Get(q, u)
      <4>1. sender \in Reliables(Numbers) /\ ack \in Held(sender.sent_packets)
        BY <1>1, <1>11
      <4> HIDE DEF ack
      <4> QED
        <5>1. /\ n.send_message_id = sender.send_message_id
              /\ n.sent_packets.sequence = sp.sequence
              /\ Held(n.sent_packets) = Held(sp)
              /\ n.oldest_unacked_message_id \in SeqNum => n \in Reliables(Numbers)
          BY <4>1, ProcessAckTakes
        <5>2. n.oldest_unacked_message_id
                 = IF kept = q THEN sender.oldest_unacked_message_id
                   ELSE UpdateOldest(sender.oldest_unacked_message_id, kept)
          BY <4>1, ProcessAckTakes
        <5>3. ASSUME NEW s \in Held(sp)
              PROVE  /\ Get(n.sent_packets, s).message_ids = Get(sp, s).message_ids
                     /\ s # ack => Get(n.sent_packets, s).acked = Get(sp, s).acked
          BY <4>1, ProcessAckTakes
        <5>4. ids \in Seq(SeqNum) /\ q \in GoodBuffers(SendQueueSize, SendEntries(Numbers))
          BY <4>1, ProcessAckTakes, ReliableFields
        <5> HIDE DEF ids, q
        <5>5. /\ kept \in GoodBuffers(SendQueueSize, SendEntries(Numbers))
              /\ kept.sequence = q.sequence
              /\ Held(kept) = Held(q) \ gone
          BY <5>4, TakeAllHeld
        <5>6. \A u \in Held(kept) : Get(kept, u) = Get(q, u)
          BY <5>4, TakeAllHeld
        <5> QED
          BY <5>1, <5>2, <5>3, <5>4, <5>5, <5>6
    <3>3. sender' = n
      BY <1>6
    <3> HIDE DEF kept, n, gone, ids
    <3>4. k = kept
      BY <3>1 DEF kept
    <3> QED
      BY <3>2, <3>3, <3>4
  <2>2. ids = IdsOf(p.messages)
    BY <1>2, <1>11 DEF IInv, SentPacketsGood
  <2>3. /\ Len(p.messages) \in Nat /\ DOMAIN p.messages = 1 .. Len(p.messages)
        /\ Len(ids) = Len(p.messages)
        /\ \A i \in 1 .. Len(p.messages) : ids[i] = p.messages[i].id
    BY <1>2, <2>2, PacketFields DEF IdsOf
  <2>4. gone = {p.messages[i].id : i \in 1 .. Len(p.messages)}
    BY <2>3 DEF Members
  <2> HIDE DEF ids, gone
  <2>5. \A i \in 1 .. Len(p.messages) :
           /\ p.messages[i].message \in 1 .. accepted
           /\ p.messages[i].id = IdOf(p.messages[i].message)
           /\ Freed - (p.messages[i].message - 1) < Half
           /\ Arrived(p.messages[i].message)
    BY <1>2, PacketNear DEF IInv, ReceivedArrived
  <2>6. ASSUME NEW n \in Freed + 1 .. accepted, IdOf(n) \in gone
        PROVE  Arrived(n)
    <3>1. PICK i \in 1 .. Len(p.messages) : IdOf(n) = p.messages[i].id
      BY <2>4, <2>6
    <3> DEFINE m == p.messages[i].message
    <3>2. m \in 1 .. accepted /\ IdOf(m) = IdOf(n) /\ Freed - (m - 1) < Half /\ Arrived(m)
      BY <2>5, <3>1
    <3> HIDE DEF m
    <3>3. m \in Int /\ n \in Int /\ m - n < Modulus /\ n - m < Modulus
      BY <1>1, <3>2
    <3>4. m = n
      BY <3>2, <3>3, IdOfNumber
    <3> QED
      BY <3>2, <3>4
  \* oldest_unacked_message_id moves on to the first message that is left.
  <2>7. PICK y \in Freed .. accepted :
           /\ sender'.oldest_unacked_message_id = y % Modulus
           /\ y < accepted => IdOf(y + 1) \in Held(k)
           /\ \A n \in Freed + 1 .. y : IdOf(n) \notin Held(k)
    <3>1. k.sequence = accepted % Modulus
      BY <1>1, <2>1 DEF SendQueues
    <3>2. \A z \in Int : Exists(k, z % Modulus) <=> IdOf(z + 1) \in Held(k)
      <4> TAKE z \in Int
      <4>1. IdOf(z + 1) = z % Modulus /\ z % Modulus \in SeqNum
        BY IdOfNumber, Wrapped
      <4> QED
        BY <2>1, <4>1, ValidSizes, ExistsHeld
    <3>3. CASE k = q
      <4>1. Freed < accepted => IdOf(Freed + 1) \in Held(k)
        BY <1>1, <3>3 DEF SendQueues
      <4>2. \A n \in Freed + 1 .. Freed : IdOf(n) \notin Held(k)
        BY <1>1
      <4> QED
        BY <1>1, <2>1, <3>3, <4>1, <4>2
    <3>4. CASE k # q
      <4>1. Freed \in Int /\ accepted \in Int /\ Freed <= accepted
            /\ accepted - Freed < Modulus
        BY <1>1
      <4>2. PICK y \in Freed .. accepted :
               /\ UpdateOldest(Freed % Modulus, k) = y % Modulus
               /\ y = accepted \/ Exists(k, y % Modulus)
               /\ \A z \in Freed .. y - 1 : ~Exists(k, z % Modulus)
        BY <3>1, <4>1, UpdateOldestFinds
      <4>3. y \in Int /\ (y < accepted => IdOf(y + 1) \in Held(k))
        BY <3>2, <4>1, <4>2
      <4>4. \A n \in Freed + 1 .. y : IdOf(n) \notin Held(k)
        <5> TAKE n \in Freed + 1 .. y
        <5>1. n - 1 \in Freed .. y - 1 /\ n - 1 \in Int /\ (n - 1) + 1 = n
          BY <4>1, <4>3
        <5> QED
          BY <3>2, <4>2, <5>1
      <4> QED
        BY <1>1, <2>1, <3>4, <4>2, <4>3, <4>4
    <3> QED
      BY <3>3, <3>4
  <2>8. y \in Nat /\ Freed <= y /\ y <= accepted /\ y % Modulus \in SeqNum
    <3>1. y \in Int /\ y \in Nat /\ Freed <= y /\ y <= accepted
      BY <1>1
    <3> QED
      BY <3>1, Wrapped
  <2>9. Unacked' = accepted - y /\ Freed' = y
    <3>1. y \in Int /\ accepted \in Int /\ y <= accepted /\ accepted - y < Modulus
      BY <1>1, <2>8
    <3>2. (sender'.send_message_id - sender'.oldest_unacked_message_id) % Modulus
             = accepted - y
      <4> DEFINE s == sender'
      <4>1. /\ s.send_message_id = accepted % Modulus
            /\ s.oldest_unacked_message_id = y % Modulus
        BY <1>1, <2>1, <2>7
      <4> HIDE DEF s
      <4>2. (s.send_message_id - s.oldest_unacked_message_id) % Modulus = accepted - y
        BY <3>1, <4>1, UnackedIs
      <4> QED
        BY <4>2 DEF s
    <3>3. Unacked' = accepted - y
      BY <3>2 DEF Unacked
    <3> QED
      BY <1>0, <3>1, <3>3 DEF Freed
  <2>10. k \in SendQueues(y, accepted)
    <3>1. ASSUME NEW id \in Held(k)
          PROVE  \E n \in y + 1 .. accepted : id = IdOf(n) /\ Get(k, id).message = n
      <4>1. PICK n \in Freed + 1 .. accepted : id = IdOf(n) /\ Get(q, id).message = n
        BY <1>1, <2>1 DEF SendQueues
      <4>2. n \notin Freed + 1 .. y
        BY <2>7, <4>1
      <4>3. n \in y + 1 .. accepted
        BY <1>1, <2>8, <4>2
      <4> QED
        BY <2>1, <4>1, <4>3
    <3> QED
      BY <1>1, <2>1, <2>7, <3>1 DEF SendQueues
  <2>11. ReliableShapes'
    BY <1>0, <2>1, <2>7, <2>8 DEF IInv, ReliableShapes
  <2>12. SendQueueGood' /\ ReceiveQueueGood'
    BY <1>0, <1>1, <2>1, <2>8, <2>9, <2>10 DEF IInv, SendQueueGood, ReceiveQueueGood
  <2>13. FreedArrived'
    <3> SUFFICES ASSUME NEW n \in 1 .. accepted, ~Arrived(n) PROVE InSendQueue(n)'
      BY <1>0, <1>7 DEF FreedArrived
    <3>1. n \in Int /\ InSendQueue(n)
      BY DEF IInv, FreedArrived
    <3>2. n \in Freed + 1 .. accepted /\ IdOf(n) \in Held(q)
      BY <3>1, InQueues
    <3>3. IdOf(n) \in Held(k)
      BY <2>1, <2>6, <3>2
    <3>4. n \notin Freed + 1 .. y
      BY <2>7, <3>3
    <3>5. n \in y + 1 .. accepted /\ accepted - y <= SendQueueSize
      BY <1>1, <2>8, <3>2, <3>4
    <3>6. Exists(k, IdOf(n)) /\ Get(k, IdOf(n)).message = n
      BY <1>1, <2>8, <2>10, <3>1, <3>3, <3>5, SendQueueHolds
    <3> QED
      BY <3>6 DEF InSendQueue
  <2>14. PacketShapes' /\ PacketMessages' /\ PacketsOvertaken'
    BY <1>0, <1>1, <1>7, <2>8, <2>9, NoNewPackets
  <2>15. SentPacketsGood' /\ SentPacketsKept'
    <3>1. Idle' = Idle
      BY <1>0, <2>1 DEF Idle
    <3>2. \A s \in Held(sender'.sent_packets) :
             Get(sender'.sent_packets, s).acked /\ Fresh(packet_sequence, s) => s \in acked'
      BY <1>0, <2>1 DEF IInv, SentPacketsGood
    <3> QED
      BY <1>0, <2>1, <3>1, <3>2 DEF IInv, SentPacketsGood, SentPacketsKept
  <2>16. \A i \in DOMAIN p.messages : ~InSendQueue(p.messages[i].message)'
    <3> TAKE i \in DOMAIN p.messages
    <3>1. i \in 1 .. Len(p.messages)
      BY <2>3
    <3>2. IdOf(p.messages[i].message) \notin Held(k) /\ p.messages[i].message \in Int
      BY <2>1, <2>4, <2>5, <3>1
    <3>3. ~Exists(k, IdOf(p.messages[i].message))
      BY <1>1, <2>8, <2>10, <3>2, SendQueueHolds
    <3> QED
      BY <3>3 DEF InSendQueue
  <2> QED
    BY <1>6, <1>8, <1>9, <2>11, <2>12, <2>13, <2>14, <2>15, <2>16 DEF IInv
<1> QED
  BY <1>10, <1>11

-----------------------------------------------------------------------------
(* Processing the data of a packet.                                          *)

\* A message of a packet for a receiver that has delivered `taken` of `all`.
NearMessages(taken, all) ==
    {e \in [id : SeqNum, message : Numbers] :
        /\ e.id = IdOf(e.message)
        /\ e.message <= all
        /\ taken - (e.message - 1) < Half
        /\ e.message <= taken + 2 * ReceiveQueueSize}

\* The panic of process_packet_data on a message too far ahead.
Desync == "desync (1)"

\* What process_packet_data can panic with here.
Panics == {NoPanic, Desync}

\* The state of process_packet_data's loop.
Deliveries(taken, all) == [queue : ReceiveQueues(taken, all), panic : Panics]

\* A state of the loop, from its parts.
Outcome(queue, panic) == [queue |-> queue, panic |-> panic]

\* ReceiveOne by the number of the message.
ReceivedOne(taken, d, n) ==
    IF n <= taken \/ d.panic # NoPanic THEN d
    ELSE IF n > taken + ReceiveQueueSize
    THEN Outcome(d.queue, Desync)
    ELSE Outcome(InsertWith(d.queue, IdOf(n), n), NoPanic)

\* And back to its parts.
LEMMA Outcomes ==
  ASSUME NEW taken, NEW all, NEW q \in ReceiveQueues(taken, all), NEW p \in Panics
  PROVE  /\ Outcome(q, p) \in Deliveries(taken, all)
         /\ Outcome(q, p).queue = q /\ Outcome(q, p).panic = p
BY DEF Outcome, Deliveries

\* One round of the loop by number: too old, too far ahead, or in the window.
LEMMA ReceivedOneCases ==
  ASSUME NEW taken \in Nat, NEW d, NEW n \in Int
  PROVE  /\ n <= taken \/ d.panic # NoPanic => ReceivedOne(taken, d, n) = d
         /\ n > taken + ReceiveQueueSize /\ d.panic = NoPanic =>
               ReceivedOne(taken, d, n) = Outcome(d.queue, Desync)
         /\ n \in taken + 1 .. taken + ReceiveQueueSize /\ d.panic = NoPanic =>
               ReceivedOne(taken, d, n) = Outcome(InsertWith(d.queue, IdOf(n), n), NoPanic)
<1> DEFINE C == ReceiveQueueSize
           x == Outcome(d.queue, Desync)
           y == Outcome(InsertWith(d.queue, IdOf(n), n), NoPanic)
           g == ReceivedOne(taken, d, n)
<1>1. g = IF n <= taken \/ d.panic # NoPanic THEN d ELSE IF n > taken + C THEN x ELSE y
  BY DEF ReceivedOne
<1>2. C \in Nat
  BY ValidSizes
<1> HIDE DEF x, y, g
<1>3. /\ n <= taken \/ d.panic # NoPanic => g = d
      /\ n > taken + C /\ d.panic = NoPanic => g = x
      /\ n \in taken + 1 .. taken + C /\ d.panic = NoPanic => g = y
  BY <1>1, <1>2
<1> QED
  BY <1>3 DEF x, y, g

\* One round of the code's loop, which compares ids, is the one that compares
\* numbers.
LEMMA ReceiveOneByNumber ==
  ASSUME Configured, NEW taken \in Nat, NEW all \in 0 .. MaxMessages,
         NEW r, r.receive_message_id = taken % Modulus,
         NEW d \in Deliveries(taken, all), NEW e \in NearMessages(taken, all)
  PROVE  ReceiveOne(r, d, e) = ReceivedOne(taken, d, e.message)
<1> DEFINE n == e.message
           C == ReceiveQueueSize
           x == n - 1
           top == taken + (C - 1)
           max == WrappingAdd(r.receive_message_id, C - 1)
<1>1. /\ C \in Nat /\ C >= 2 /\ 2 * C <= Half /\ Half \in Nat
      /\ n \in Numbers /\ n \in Int /\ e.id = IdOf(n) /\ n <= all
      /\ taken - (n - 1) < Half /\ n <= taken + 2 * C
  BY Sizes DEF NearMessages, Numbers
<1>2. /\ x \in Int /\ top \in Int /\ taken \in Int /\ C - 1 \in Int
      /\ e.id = x % Modulus /\ taken - x < Half /\ x - taken < Half
      /\ x - top = n - taken - C /\ x + 1 = n
  BY <1>1 DEF IdOf
<1>3. max = top % Modulus
  BY <1>2, WrappedAdd, Zenon
<1>4. d \in [queue : ReceiveQueues(taken, all), panic : Panics]
  BY DEF Deliveries
<1> HIDE DEF x, top, max
<1>5. SequenceLessThan(e.id, r.receive_message_id) <=> n <= taken
  <2>1. ASSUME n <= taken PROVE SequenceGreaterThan(taken % Modulus, x % Modulus)
    <3>1. 0 < taken - x /\ taken - x < Half
      BY <1>1, <1>2, <2>1
    <3> QED
      BY <1>2, <3>1, WrappedGreater
  <2>2. ASSUME ~(n <= taken) PROVE ~SequenceGreaterThan(taken % Modulus, x % Modulus)
    <3>1. -Half < taken - x /\ taken - x <= 0
      BY <1>1, <1>2, <2>2
    <3> QED
      BY <1>2, <3>1, WrappedGreater
  <2> QED
    BY <1>2, <2>1, <2>2 DEF SequenceLessThan
<1>6. taken < n => (SequenceGreaterThan(e.id, max) <=> n > taken + C)
  <2> HAVE taken < n
  <2>1. ASSUME n > taken + C PROVE SequenceGreaterThan(x % Modulus, top % Modulus)
    <3>1. 0 < x - top /\ x - top < Half
      BY <1>1, <1>2, <2>1
    <3> QED
      BY <1>2, <3>1, WrappedGreater
  <2>2. ASSUME ~(n > taken + C) PROVE ~SequenceGreaterThan(x % Modulus, top % Modulus)
    <3>1. -Half < x - top /\ x - top <= 0
      BY <1>1, <1>2, <2>2
    <3> QED
      BY <1>2, <3>1, WrappedGreater
  <2> QED
    BY <1>2, <1>3, <2>1, <2>2
<1>7. taken < n /\ n <= taken + C => ~TooOld(d.queue, e.id)
  <2> HAVE taken < n /\ n <= taken + C
  <2>1. n \in taken + 1 .. taken + C
    BY <1>1
  <2>2. d.queue \in ReceiveQueues(taken, all)
    BY <1>4
  <2> QED
    BY <1>1, <2>1, <2>2, ReceiveInserts
<1> DEFINE k == ReceiveOne(r, d, e)
           skipped == d.panic # NoPanic \/ SequenceLessThan(e.id, r.receive_message_id)
<1>8. skipped => k = d
  BY DEF ReceiveOne
<1>9. ~skipped => k = IF SequenceGreaterThan(e.id, max)
                      THEN [d EXCEPT !.panic = Desync]
                      ELSE IF TooOld(d.queue, e.id)
                      THEN [d EXCEPT !.panic = "desync (2)"]
                      ELSE [d EXCEPT !.queue = InsertWith(d.queue, e.id, e.message)]
  BY DEF ReceiveOne, max, Desync
<1>10. skipped <=> d.panic # NoPanic \/ n <= taken
  BY <1>5
<1> DEFINE out1 == [d EXCEPT !.panic = Desync]
           out2 == [d EXCEPT !.panic = "desync (2)"]
           out3 == [d EXCEPT !.queue = InsertWith(d.queue, e.id, e.message)]
<1>11. /\ out1 = Outcome(d.queue, Desync)
       /\ out3 = Outcome(InsertWith(d.queue, e.id, e.message), d.panic)
  <2>1. \A y : /\ [d EXCEPT !.panic = y] = Outcome(d.queue, y)
               /\ [d EXCEPT !.queue = y] = Outcome(y, d.panic)
    BY <1>4 DEF Outcome
  <2> QED
    BY <2>1
<1> HIDE DEF skipped, k, out1, out2, out3
<1>12. ~skipped => k = IF SequenceGreaterThan(e.id, max) THEN out1
                       ELSE IF TooOld(d.queue, e.id) THEN out2 ELSE out3
  BY <1>9 DEF out1, out2, out3
<1>13. e.message = n /\ e.id = IdOf(n)
  BY <1>1
<1> HIDE DEF n
<1>14. CASE n <= taken \/ d.panic # NoPanic
  BY <1>1, <1>8, <1>10, <1>13, <1>14, ReceivedOneCases DEF k
<1>15. CASE n > taken + C /\ d.panic = NoPanic
  <2>1. k = out1
    BY <1>1, <1>6, <1>10, <1>12, <1>15
  <2> QED
    BY <1>1, <1>11, <1>13, <1>15, <2>1, ReceivedOneCases DEF k
<1>16. CASE n \in taken + 1 .. taken + C /\ d.panic = NoPanic
  <2>1. k = out3
    BY <1>1, <1>6, <1>7, <1>10, <1>12, <1>16
  <2> QED
    BY <1>1, <1>11, <1>13, <1>16, <2>1, ReceivedOneCases DEF k
<1> QED
  BY <1>1, <1>13, <1>14, <1>15, <1>16

\* After k messages of a packet: they are there, none that was there is gone, and
\* none is there that the packet did not bring.
Delivered(r, taken, all, messages, k) ==
    {d \in Deliveries(taken, all) :
        /\ Held(r.message_receive_queue) \subseteq Held(d.queue)
        /\ \A id \in Held(d.queue) :
              \/ id \in Held(r.message_receive_queue)
              \/ \E i \in 1 .. k : id = messages[i].id
        /\ d.panic = NoPanic =>
              \A i \in 1 .. k :
                 \/ messages[i].message <= taken
                 \/ /\ messages[i].message <= taken + ReceiveQueueSize
                    /\ messages[i].id \in Held(d.queue)
        /\ d.panic # NoPanic =>
              \E i \in 1 .. k : messages[i].message > taken + ReceiveQueueSize}

\* One round of the loop delivers one message or panics.
LEMMA DeliveredNext ==
  ASSUME Configured, NEW taken \in Nat, NEW all \in 0 .. MaxMessages,
         NEW r, r.receive_message_id = taken % Modulus,
         NEW messages \in Seq(NearMessages(taken, all)), NEW k \in 1 .. Len(messages),
         NEW d \in Delivered(r, taken, all, messages, k - 1)
  PROVE  ReceiveOne(r, d, messages[k]) \in Delivered(r, taken, all, messages, k)
<1> DEFINE e == messages[k]
           n == e.message
           C == ReceiveQueueSize
           g == ReceiveOne(r, d, e)
           q == r.message_receive_queue
<1>1. /\ e \in NearMessages(taken, all) /\ k \in 1 .. k /\ k - 1 \in Int
      /\ \A i \in 1 .. k : i # k => i \in 1 .. k - 1
      /\ \A i \in 1 .. k - 1 : i \in 1 .. k
  OBVIOUS
<1>2. /\ C \in Nat /\ n \in Int /\ e.id = IdOf(n) /\ n <= all
  <2> HIDE DEF e
  <2> QED
    BY <1>1, Sizes DEF NearMessages, Numbers
<1>3. /\ d \in Deliveries(taken, all) /\ d.queue \in ReceiveQueues(taken, all)
      /\ d.panic \in Panics /\ NoPanic \in Panics /\ Desync \in Panics
      /\ NoPanic # Desync
      /\ Held(q) \subseteq Held(d.queue)
      /\ \A id \in Held(d.queue) :
            id \in Held(q) \/ \E i \in 1 .. k - 1 : id = messages[i].id
      /\ d.panic = NoPanic =>
            \A i \in 1 .. k - 1 :
               \/ messages[i].message <= taken
               \/ /\ messages[i].message <= taken + C
                  /\ messages[i].id \in Held(d.queue)
      /\ d.panic # NoPanic => \E i \in 1 .. k - 1 : messages[i].message > taken + C
  BY DEF Delivered, Deliveries, Panics, Desync, NoPanic
<1> HIDE DEF e
<1>4. g = ReceivedOne(taken, d, n)
  BY <1>1, <1>3, ReceiveOneByNumber
<1> HIDE DEF g
<1>5. CASE n <= taken \/ d.panic # NoPanic
  <2>1. g = d
    BY <1>2, <1>4, <1>5, ReceivedOneCases
  <2>2. \A id \in Held(d.queue) : id \in Held(q) \/ \E i \in 1 .. k : id = messages[i].id
    BY <1>1, <1>3
  <2>3. d.panic # NoPanic => \E i \in 1 .. k : messages[i].message > taken + C
    BY <1>1, <1>3
  <2>4. d.panic = NoPanic =>
           \A i \in 1 .. k :
              \/ messages[i].message <= taken
              \/ messages[i].message <= taken + C /\ messages[i].id \in Held(d.queue)
    BY <1>1, <1>3, <1>5 DEF e
  <2> QED
    BY <1>3, <2>1, <2>2, <2>3, <2>4 DEF Delivered, g, e
<1>6. CASE n > taken + C /\ d.panic = NoPanic
  <2>1. g = Outcome(d.queue, Desync)
    BY <1>2, <1>4, <1>6, ReceivedOneCases
  <2>2. g \in Deliveries(taken, all) /\ g.queue = d.queue /\ g.panic # NoPanic
    BY <1>3, <2>1, Outcomes
  <2>3. \A id \in Held(d.queue) : id \in Held(q) \/ \E i \in 1 .. k : id = messages[i].id
    BY <1>1, <1>3
  <2>4. \E i \in 1 .. k : messages[i].message > taken + C
    BY <1>1, <1>6 DEF e
  <2> QED
    BY <1>3, <2>2, <2>3, <2>4 DEF Delivered, g, e
<1>7. CASE taken < n /\ n <= taken + C /\ d.panic = NoPanic
  <2> DEFINE b == InsertWith(d.queue, IdOf(n), n)
  <2>1. n \in taken + 1 .. taken + C
    BY <1>2, <1>7
  <2>2. b \in ReceiveQueues(taken, all) /\ Held(b) = {IdOf(n)} \cup Held(d.queue)
    <3>1. n \in taken + 1 .. taken + ReceiveQueueSize /\ n <= all
      BY <1>2, <2>1
    <3> HIDE DEF n, C
    <3> QED
      BY <1>3, <3>1, ReceiveInserts
  <2>3. g = Outcome(b, NoPanic)
    BY <1>2, <1>4, <1>7, <2>1, ReceivedOneCases
  <2> HIDE DEF b
  <2>4. g \in Deliveries(taken, all) /\ g.queue = b /\ g.panic = NoPanic
    BY <1>3, <2>2, <2>3, Outcomes
  <2>5. \A id \in Held(b) : id \in Held(q) \/ \E i \in 1 .. k : id = messages[i].id
    BY <1>1, <1>2, <1>3, <2>2 DEF e
  <2>6. \A i \in 1 .. k :
           \/ messages[i].message <= taken
           \/ messages[i].message <= taken + C /\ messages[i].id \in Held(b)
    <3> TAKE i \in 1 .. k
    <3>1. CASE i = k
      BY <1>2, <1>7, <2>2, <3>1 DEF e
    <3>2. CASE i # k
      BY <1>1, <1>3, <1>7, <2>2, <3>2
    <3> QED
      BY <3>1, <3>2
  <2>7. Held(q) \subseteq Held(b)
    BY <1>3, <2>2
  <2> QED
    BY <2>4, <2>5, <2>6, <2>7 DEF Delivered, g, e
<1> QED
  BY <1>2, <1>5, <1>6, <1>7

\* The loop delivers every message of the packet or panics.
LEMMA ReceiveAllDelivers ==
  ASSUME Configured, NEW taken \in Nat, NEW all \in 0 .. MaxMessages,
         NEW r, r.receive_message_id = taken % Modulus,
         r.message_receive_queue \in ReceiveQueues(taken, all),
         NEW messages \in Seq(NearMessages(taken, all))
  PROVE  ReceiveAll(r, messages) \in Delivered(r, taken, all, messages, Len(messages))
<1> DEFINE L == Len(messages)
           D == Deliveries(taken, all)
           E == NearMessages(taken, all)
           Inv == [k \in 0 .. L |-> Delivered(r, taken, all, messages, k)]
           base == [queue |-> r.message_receive_queue, panic |-> NoPanic]
<1>1. L \in Nat /\ messages \in Seq(E)
  OBVIOUS
<1>2. base \in D /\ base \in Delivered(r, taken, all, messages, 0)
  BY DEF Deliveries, Delivered, Panics
<1>3. ASSUME NEW d \in D, NEW e \in E PROVE ReceiveOne(r, d, e) \in D
  <2> DEFINE n == e.message
             C == ReceiveQueueSize
             g == ReceiveOne(r, d, e)
  <2>1. n \in Int /\ C \in Nat /\ n <= all
    BY Sizes DEF NearMessages, Numbers
  <2>2. g = ReceivedOne(taken, d, n)
    BY ReceiveOneByNumber
  <2>3. /\ d.queue \in ReceiveQueues(taken, all) /\ d.panic \in Panics
        /\ NoPanic \in Panics /\ Desync \in Panics
    BY DEF Deliveries, Panics
  <2> DEFINE b == InsertWith(d.queue, IdOf(n), n)
  <2>4. n \in taken + 1 .. taken + C => b \in ReceiveQueues(taken, all)
    BY <2>1, <2>3, ReceiveInserts
  <2>5. \/ g = d
        \/ g = Outcome(d.queue, Desync)
        \/ n \in taken + 1 .. taken + C /\ g = Outcome(b, NoPanic)
    BY <2>1, <2>2, ReceivedOneCases
  <2> HIDE DEF g, b
  <2>6. g \in D
    BY <2>3, <2>4, <2>5, Outcomes
  <2> QED
    BY <2>6 DEF g
<1>4. ASSUME NEW k \in 1 .. L, NEW d \in D, d \in Inv[k - 1]
      PROVE  ReceiveOne(r, d, messages[k]) \in Inv[k]
  <2>1. k - 1 \in 0 .. L /\ k \in 0 .. L
    BY <1>1
  <2>2. Inv[k - 1] = Delivered(r, taken, all, messages, k - 1)
        /\ Inv[k] = Delivered(r, taken, all, messages, k)
    BY <2>1
  <2>3. d \in Delivered(r, taken, all, messages, k - 1)
    BY <1>4, <2>2
  <2> HIDE DEF Inv
  <2> QED
    BY <2>2, <2>3, DeliveredNext
<1>5. 0 \in 0 .. L /\ L \in 0 .. L
  BY <1>1
<1>6. Inv[0] = Delivered(r, taken, all, messages, 0)
      /\ Inv[L] = Delivered(r, taken, all, messages, L)
  BY <1>5
<1> HIDE DEF Inv, D, E
<1>7. ReceiveAll(r, messages) \in Inv[Len(messages)]
  BY <1>1, <1>2, <1>3, <1>4, <1>6, ReceiveAllKeeps
<1> QED
  BY <1>6, <1>7

\* DeliverPacket, with the packet's ack, keeps the invariant.
LEMMA DeliverPacketKeeps ==
  ASSUME Configured, IInv, NEW p \in network, NEW duplicated \in BOOLEAN,
         DeliverPacket(p, duplicated)
  PROVE  IInv'
<1> DEFINE q == receiver.message_receive_queue
           k == receiver'.message_receive_queue
           messages == p.messages
           L == Len(messages)
           C == ReceiveQueueSize
           end == ReceiveAll(receiver, messages)
<1> USE DEF local
<1>0. /\ sender' = sender /\ accepted' = accepted /\ delivered' = delivered
      /\ packet_sequence' = packet_sequence /\ acked' = acked
      /\ panicked = NoPanic
      /\ received' = IF panicked' = NoPanic THEN received \cup {p} ELSE received
      /\ network' \subseteq network /\ Packets' \subseteq Packets
      /\ receiver' = ProcessPacketData(receiver, messages).channel
      /\ panicked' = ProcessPacketData(receiver, messages).panic
  BY DEF DeliverPacket, Packets
<1>1. /\ receiver \in Reliables(Numbers) /\ receiver.receive_message_id = delivered % Modulus
      /\ accepted \in 0 .. MaxMessages /\ accepted \in Nat
      /\ delivered \in Nat /\ delivered <= accepted
      /\ q \in ReceiveQueues(delivered, accepted)
      /\ C \in Nat /\ C >= 2 /\ 2 * C <= Half /\ Half \in Nat
      /\ Freed \in Nat /\ Freed <= accepted
  BY FreedBounds, Sizes DEF IInv, ReliableShapes, ReceiveQueueGood
<1>2. p \in Packets /\ p \in [sequence : SeqNum, messages : MessagesOf(Numbers)]
  BY DEF IInv, PacketShapes, Packets
<1>3. /\ L \in Nat /\ DOMAIN messages = 1 .. L
      /\ messages \in Seq([id : SeqNum, message : Numbers])
  BY <1>2, PacketFields DEF MessagesOf
<1>4. \A i \in 1 .. L :
         LET n == messages[i].message
         IN  /\ n \in 1 .. accepted /\ n \in Numbers
             /\ messages[i].id = IdOf(n)
             /\ n <= Freed + C
             /\ messages[i] \in NearMessages(delivered, accepted)
  <2> TAKE i \in 1 .. L
  <2> DEFINE n == messages[i].message
  <2>1. /\ n \in 1 .. accepted /\ messages[i].id = IdOf(n) /\ delivered - (n - 1) < Half
        /\ n <= Freed + C /\ n <= delivered + 2 * C
    BY <1>2, PacketNear
  <2>2. messages[i] \in [id : SeqNum, message : Numbers] /\ n \in Numbers
    <3> DEFINE E == [id : SeqNum, message : Numbers]
    <3>1. messages \in Seq(E)
      BY <1>3
    <3> HIDE DEF E
    <3>2. messages[i] \in E
      BY <3>1
    <3> QED
      BY <1>2, <3>2, PacketFields DEF E
  <2>3. messages[i] \in NearMessages(delivered, accepted)
    BY <1>1, <2>1, <2>2 DEF NearMessages
  <2> QED
    BY <2>1, <2>2, <2>3
<1>5. messages \in Seq(NearMessages(delivered, accepted))
  BY <1>3, <1>4
<1>6. end \in Delivered(receiver, delivered, accepted, messages, L)
  BY <1>1, <1>5, ReceiveAllDelivers
<1>7. /\ end.queue \in ReceiveQueues(delivered, accepted) /\ end.panic \in Panics
      /\ Held(q) \subseteq Held(end.queue)
      /\ \A id \in Held(end.queue) : id \in Held(q) \/ \E i \in 1 .. L : id = messages[i].id
      /\ end.panic = NoPanic =>
            \A i \in 1 .. L : \/ messages[i].message <= delivered
                              \/ /\ messages[i].message <= delivered + C
                                 /\ messages[i].id \in Held(end.queue)
      /\ end.panic # NoPanic => \E i \in 1 .. L : messages[i].message > delivered + C
  BY <1>6 DEF Delivered, Deliveries
<1> HIDE DEF end
<1>8. /\ receiver' \in Reliables(Numbers)
      /\ receiver'.receive_message_id = delivered % Modulus
      /\ k = end.queue /\ panicked' = end.panic
  <2>1. end.queue \in GoodBuffers(C, Numbers)
    BY <1>7 DEF ReceiveQueues
  <2> QED
    BY <1>0, <1>1, <2>1, ProcessedChannel DEF end
<1>9. ReliableShapes'
  BY <1>0, <1>8 DEF IInv, ReliableShapes
<1>10. SendQueueGood' /\ Freed' = Freed
  BY <1>0 DEF IInv, SendQueueGood, Freed, Unacked
<1>11. ReceiveQueueGood'
  BY <1>0, <1>7, <1>8 DEF ReceiveQueueGood
<1>12. \A n \in delivered + 1 .. delivered + C : InReceiveQueue(n)' <=> IdOf(n) \in Held(k)
  <2> TAKE n \in delivered + 1 .. delivered + C
  <2>1. n \in Int
    OBVIOUS
  <2>2. /\ Exists(k, IdOf(n)) <=> IdOf(n) \in Held(k)
        /\ IdOf(n) \in Held(k) => Get(k, IdOf(n)) = n
    BY <1>1, <1>7, <1>8, <2>1, ReceiveQueueHolds
  <2> QED
    BY <2>2 DEF InReceiveQueue
<1>13. \A n \in Int : InReceiveQueue(n)' => n \in delivered + 1 .. delivered + C /\ n <= accepted
  BY <1>1, <1>7, <1>8, ReceiveQueueHolds DEF InReceiveQueue
<1>14. \A n \in Int : Arrived(n) => Arrived(n)'
  <2> TAKE n \in Int
  <2> HAVE Arrived(n)
  <2>1. CASE n <= delivered
    BY <1>0, <2>1 DEF Arrived
  <2>2. CASE InReceiveQueue(n)
    <3>1. n \in delivered + 1 .. delivered + C /\ IdOf(n) \in Held(q)
      BY <2>2, InQueues
    <3>2. InReceiveQueue(n)'
      BY <1>7, <1>8, <1>12, <3>1
    <3> QED
      BY <3>2 DEF Arrived
  <2> QED
    BY <2>1, <2>2 DEF Arrived
\* What the packet brought was packed: the packet carried it.
<1>15. \A n \in Numbers : Packed(n)' => Packed(n)
  <2> TAKE n \in Numbers
  <2>0. n \in Int
    BY DEF Numbers
  <2>1. CASE InReceiveQueue(n)'
    <3>1. n \in delivered + 1 .. delivered + C /\ IdOf(n) \in Held(k)
      BY <1>12, <1>13, <2>0, <2>1
    <3>2. CASE IdOf(n) \in Held(q)
      <4>1. InReceiveQueue(n)
        BY <3>1, <3>2, InQueues
      <4> QED
        BY <4>1 DEF Packed, Arrived
    <3>3. CASE \E i \in 1 .. L : IdOf(n) = messages[i].id
      <4>1. PICK i \in 1 .. L : IdOf(n) = messages[i].id
        BY <3>3
      <4> DEFINE m == messages[i].message
      <4>2. /\ m \in 1 .. accepted /\ IdOf(m) = IdOf(n)
            /\ delivered - (m - 1) < Half /\ m <= delivered + 2 * C
        BY <1>4, <4>1 DEF NearMessages
      <4> HIDE DEF m
      <4>3. m \in Int /\ m - n < Modulus /\ n - m < Modulus
        BY <1>1, <3>1, <4>2, Sizes
      <4>4. m = n
        BY <2>0, <4>2, <4>3, IdOfNumber
      <4>5. Carries(p, n)
        BY <1>3, <4>1, <4>4 DEF Carries, m
      <4> QED
        BY <1>2, <4>5 DEF Packed
    <3> QED
      BY <1>7, <1>8, <3>1, <3>2, <3>3
  <2>2. CASE n <= delivered
    BY <2>2 DEF Packed, Arrived
  <2>3. CASE \E x \in Packets' : Carries(x, n)
    BY <1>0, <2>3 DEF Packed
  <2> QED
    BY <1>0, <2>1, <2>2, <2>3 DEF Packed, Arrived, Carries
<1>16. FreedArrived'
  <2>1. \A m \in 1 .. accepted : InSendQueue(m)' <=> InSendQueue(m)
    BY <1>0 DEF InSendQueue
  <2> QED
    BY <1>0, <1>14, <2>1 DEF IInv, FreedArrived
<1>17. PacketShapes' /\ PacketMessages' /\ PacketsOvertaken'
  BY <1>0, <1>1, <1>10, <1>15, NoNewPackets
<1>18. ReceivedArrived'
  <2> SUFFICES ASSUME NEW x \in received', NEW i \in 1 .. Len(x.messages)
               PROVE  Arrived(x.messages[i].message)'
    BY DEF ReceivedArrived
  <2>1. CASE x \in received
    <3>1. x.messages[i].message \in Int /\ Arrived(x.messages[i].message)
      BY <2>1, PacketFields DEF IInv, PacketShapes, Packets, Numbers, ReceivedArrived
    <3> QED
      BY <1>14, <3>1
  <2>2. CASE x = p /\ panicked' = NoPanic
    <3> DEFINE n == messages[i].message
    <3>1. n \in 1 .. accepted /\ messages[i].id = IdOf(n)
      BY <1>4, <2>2
    <3>2. CASE n <= delivered
      BY <1>0, <2>2, <3>2 DEF Arrived
    <3>3. CASE n > delivered
      <4>1. n <= delivered + C /\ messages[i].id \in Held(k)
        BY <1>1, <1>7, <1>8, <2>2, <3>1, <3>3
      <4>2. n \in delivered + 1 .. delivered + C
        BY <1>1, <3>1, <3>3, <4>1
      <4>3. InReceiveQueue(n)'
        BY <1>12, <3>1, <4>1, <4>2
      <4> QED
        BY <2>2, <4>3 DEF Arrived
    <3> QED
      BY <1>1, <3>1, <3>2, <3>3
  <2> QED
    BY <1>0, <2>1, <2>2
<1>19. SentPacketsGood' /\ SentPacketsKept'
  BY <1>0 DEF IInv, SentPacketsGood, SentPacketsKept, Idle
\* A message too far ahead: the sender freed the next one, so it is here.
<1>20. PanicsOnlyIfUndrained'
  <2> SUFFICES ASSUME end.panic # NoPanic
               PROVE  end.panic = Desync /\ CanReceiveMessage(receiver')
    BY <1>8 DEF PanicsOnlyIfUndrained, Desync
  <2>1. end.panic = Desync
    BY <1>7 DEF Panics
  <2>2. PICK i \in 1 .. L : messages[i].message > delivered + C
    BY <1>7
  <2>3. messages[i].message <= Freed + C /\ messages[i].message \in Int
    BY <1>4, <2>2
  <2>4. delivered + 1 \in 1 .. Freed /\ delivered + 1 \in Int
    BY <1>1, <2>2, <2>3, SMTT(30)
  <2>5. Arrived(delivered + 1)
    BY <2>4, InQueues
  <2>6. InReceiveQueue(delivered + 1)
    BY <1>1, <2>5 DEF Arrived
  <2>7. InReceiveQueue(delivered + 1)'
    <3>1. delivered + 1 \in delivered + 1 .. delivered + C
      BY <1>1
    <3>2. IdOf(delivered + 1) \in Held(q)
      BY <2>6, <3>1, InQueues
    <3> QED
      BY <1>0, <1>7, <1>8, <1>12, <3>1, <3>2
  <2>8. IdOf(delivered + 1) = delivered % Modulus
    BY <1>1, IdOfNumber
  <2> QED
    BY <1>0, <1>8, <2>1, <2>7, <2>8 DEF InReceiveQueue, CanReceiveMessage
<1> QED
  BY <1>9, <1>10, <1>11, <1>16, <1>17, <1>18, <1>19, <1>20 DEF IInv

-----------------------------------------------------------------------------
(* Sending a packet.                                                         *)

\* When the next sequence is used, every other gets one older.
LEMMA Aging ==
  ASSUME Configured, packet_sequence \in SeqNum, NEW s \in SeqNum
  PROVE  LET next == WrappingAdd(packet_sequence, 1)
         IN  /\ next \in SeqNum
             /\ Behind(next, packet_sequence) = 0 /\ Fresh(next, packet_sequence)
             /\ ~Fresh(packet_sequence, packet_sequence)
             /\ s # packet_sequence =>
                   /\ Behind(packet_sequence, s) \in Nat
                   /\ Behind(next, s) = Behind(packet_sequence, s) + 1
                   /\ Fresh(next, s) => Fresh(packet_sequence, s)
<1> DEFINE ps == packet_sequence
           next == WrappingAdd(ps, 1)
<1>1. /\ Lifetime \in Int /\ Lifetime >= 1 /\ Lifetime <= Half
      /\ Half \in Int /\ Half >= 2 /\ Modulus = 2 * Half
  BY Sizes, HalfOfModulus
<1>2. next \in SeqNum
  BY NextNumber
<1>3. Behind(next, ps) = 0
  BY BehindItself
<1>4. Behind(ps, ps) = ps - 1 - ps + Modulus
  BY BehindCases, <1>1 DEF SeqNum
<1>5. ps \in Int /\ s \in Int
  BY <1>1 DEF SeqNum
<1>6. /\ Behind(next, s) = IF s <= ps THEN ps - s ELSE ps - s + Modulus
      /\ Behind(ps, s) = IF s < ps THEN ps - 1 - s ELSE ps - 1 - s + Modulus
      /\ Behind(ps, s) \in SeqNum
  BY BehindCases, BehindNext
<1> HIDE DEF next, ps
<1>7. s # ps => Behind(ps, s) \in Nat /\ Behind(next, s) = Behind(ps, s) + 1
  BY <1>1, <1>5, <1>6 DEF SeqNum
<1>8. Fresh(next, ps) /\ ~Fresh(ps, ps)
  BY <1>1, <1>3, <1>4, <1>5 DEF Fresh
<1>9. s # ps => (Fresh(next, s) => Fresh(ps, s))
  BY <1>1, <1>7 DEF Fresh
<1> QED
  BY <1>2, <1>3, <1>7, <1>8, <1>9 DEF next, ps

\* How far a sequence is ahead of another.
LEMMA AheadBy ==
  ASSUME NEW a \in SeqNum, NEW h \in SeqNum
  PROVE  (a - h) % Modulus \in SeqNum /\ a = (h + ((a - h) % Modulus)) % Modulus
<1> DEFINE d == (a - h) % Modulus
<1>1. a \in Int /\ h \in Int /\ a - h \in Int /\ Modulus \in Nat /\ Modulus > 0
  BY ModulusAssumption DEF SeqNum
<1>2. d \in SeqNum /\ a % Modulus = a
  BY <1>1, Wrapped
<1>3. PICK j \in Int : d = (a - h) + j * Modulus
  BY <1>1, Wrapped
<1>4. h + d = a + j * Modulus
  <2> DEFINE t == j * Modulus
  <2>1. t \in Int
    BY <1>1
  <2> HIDE DEF t, d
  <2>2. d = (a - h) + t
    BY <1>3 DEF t
  <2>3. h + d = a + t
    BY <1>1, <2>1, <2>2
  <2> QED
    BY <2>3 DEF t
<1>5. (a + j * Modulus) % Modulus = a % Modulus
  BY <1>1, ModShift
<1> QED
  BY <1>2, <1>4, <1>5

\* A packet with no data of this channel: sent_packets stays as it is, and the
\* sequence that is used is not in it.
LEMMA IdleStep ==
  ASSUME Configured, ReliableShapes, Idle < MaxIdle, packet_sequence' = WrappingAdd(packet_sequence, 1),
         sender' = sender
  PROVE  /\ Idle' <= MaxIdle
         /\ packet_sequence \notin Held(sender.sent_packets)
<1> DEFINE ps == packet_sequence
           sp == sender.sent_packets
           h == sp.sequence
<1>1. /\ MaxIdle \in Nat /\ MaxIdle + 1 < Half /\ SentPacketsSize + MaxIdle <= Modulus
      /\ Half \in Nat /\ Modulus = 2 * Half /\ SentPacketsSize \in Nat
  BY Sizes DEF Configured
<1>2. /\ sp \in GoodBuffers(SentPacketsSize, PacketEntries) /\ ps \in SeqNum /\ ps \in Int
      /\ h \in SeqNum /\ h \in Int
  <2>1. sp \in GoodBuffers(SentPacketsSize, PacketEntries) /\ ps \in SeqNum
    BY ReliableFields DEF ReliableShapes
  <2>2. h \in SeqNum
    BY <2>1, ValidSizes, BufferShape DEF GoodBuffers
  <2> QED
    BY <2>1, <2>2 DEF SeqNum
<1> DEFINE idle == Idle
<1>3. idle = (ps - h) % Modulus
  BY DEF Idle
<1>4. idle \in SeqNum /\ ps = (h + idle) % Modulus
  BY <1>2, <1>3, AheadBy
<1>5. idle \in Int /\ 0 <= idle /\ idle < MaxIdle
  BY <1>4, <1>1 DEF SeqNum
<1> HIDE DEF idle, h
<1>6. Idle' <= MaxIdle
  <2>1. Idle' = (WrappingAdd(ps, 1) - h) % Modulus
    BY DEF Idle, h
  <2>2. WrappingAdd(ps, 1) = (h + idle + 1) % Modulus
    <3>1. h + idle \in Int /\ 1 \in Int
      BY <1>2, <1>5
    <3>2. WrappingAdd((h + idle) % Modulus, 1) = ((h + idle) + 1) % Modulus
      BY <3>1, WrappedAdd, Zenon
    <3> QED
      BY <1>4, <3>2
  <2>3. h % Modulus = h
    BY <1>2, Wrapped
  <2>4. (((h + idle + 1) % Modulus) - (h % Modulus)) % Modulus = ((h + idle + 1) - h) % Modulus
    BY <1>2, <1>5, WrappedDifference, h + idle + 1 \in Int, Zenon
  <2>5. (h + idle + 1) - h = idle + 1
    BY <1>2, <1>5
  <2>6. (idle + 1) % Modulus = idle + 1
    <3>1. idle + 1 \in Int /\ 0 <= idle + 1 /\ idle + 1 < Modulus
      BY <1>1, <1>5
    <3> QED
      BY <3>1, WrappedNear
  <2>7. Idle' = idle + 1
    BY <2>1, <2>2, <2>3, <2>4, <2>5, <2>6
  <2> QED
    BY <1>1, <1>5, <2>7
<1>7. ps \notin Held(sp)
  <2> SUFFICES ASSUME ps \in Held(sp) PROVE FALSE
    OBVIOUS
  <2>1. Behind(h, ps) < SentPacketsSize
    BY <1>2, ValidSizes, HeldNumbers DEF h
  <2>2. h % Modulus = h
    BY <1>2, Wrapped
  <2> DEFINE x == h + idle
  <2>3. x \in Int /\ h - 1 - x = -1 - idle /\ h - 1 - x < 0 /\ -Modulus <= h - 1 - x
    BY <1>1, <1>2, <1>5
  <2>4. ps = x % Modulus
    BY <1>4
  <2> HIDE DEF x
  <2>5. Behind(h % Modulus, x % Modulus) = h - 1 - x + Modulus
    BY <1>2, <2>3, WrappedBehind
  <2>6. Behind(h, ps) = Modulus - 1 - idle
    BY <1>1, <1>5, <2>2, <2>3, <2>4, <2>5
  <2> QED
    BY <1>1, <1>5, <2>1, <2>6
<1> QED
  BY <1>6, <1>7

\* A packet that is entered in sent_packets: the buffer moves on to it.
LEMMA EnteredStep ==
  ASSUME Configured, ReliableShapes, Idle <= MaxIdle, NEW v \in PacketEntries,
         packet_sequence' = WrappingAdd(packet_sequence, 1),
         sender'.sent_packets = InsertWith(sender.sent_packets, packet_sequence, v)
  PROVE  LET k == sender'.sent_packets
         IN  /\ Idle' = 0
             /\ Held(k) = {packet_sequence}
                   \cup {s \in Held(sender.sent_packets) : Behind(packet_sequence', s) < SentPacketsSize}
             /\ Get(k, packet_sequence) = v
             /\ \A s \in Held(k) : s # packet_sequence =>
                   Get(k, s) = Get(sender.sent_packets, s)
<1> DEFINE ps == packet_sequence
           sp == sender.sent_packets
           k == sender'.sent_packets
           h == sp.sequence
           C == SentPacketsSize
<1>1. /\ MaxIdle \in Nat /\ MaxIdle + 1 < Half
      /\ Half \in Nat /\ Modulus = 2 * Half /\ ValidSize(C) /\ GoodSize(C)
  BY Sizes, ValidSizes DEF Configured, GoodSizes
<1>2. /\ sp \in GoodBuffers(C, PacketEntries) /\ ps \in SeqNum /\ ps \in Int
      /\ h \in SeqNum /\ h \in Int /\ h % Modulus = h /\ ps % Modulus = ps
  <2>1. sp \in GoodBuffers(C, PacketEntries) /\ ps \in SeqNum
    BY ReliableFields DEF ReliableShapes
  <2>2. h \in SeqNum
    BY <1>1, <2>1, BufferShape DEF GoodBuffers
  <2>3. ps \in Int /\ h \in Int
    BY <2>1, <2>2 DEF SeqNum
  <2> QED
    BY <2>1, <2>2, <2>3, Wrapped
<1> DEFINE idle == Idle
<1>3. idle = (ps - h) % Modulus
  BY DEF Idle
<1>4. idle \in SeqNum /\ ps = (h + idle) % Modulus
  BY <1>2, <1>3, AheadBy
<1>5. idle \in Int /\ 0 <= idle /\ idle <= MaxIdle
  BY <1>4, <1>1 DEF SeqNum
<1> HIDE DEF idle, h
<1> DEFINE x == h + idle
<1>6. x \in Int /\ h <= x /\ x + 1 - h < Half /\ ps = x % Modulus
  BY <1>1, <1>2, <1>4, <1>5
<1> HIDE DEF x
<1>7. WrappingAdd(ps, 1) = (x + 1) % Modulus
  <2>1. WrappingAdd(x % Modulus, 1) = (x + 1) % Modulus
    BY <1>6, WrappedAdd, 1 \in Int, Zenon
  <2> QED
    BY <1>6, <2>1
<1>8. sp.sequence = h % Modulus
  BY <1>2 DEF h
<1>9. /\ k.sequence = (x + 1) % Modulus
      /\ Held(k) = {ps} \cup {s \in Held(sp) : Behind((x + 1) % Modulus, s) < C}
      /\ Get(k, ps) = v
      /\ \A s \in Held(k) : s # ps => Get(k, s) = Get(sp, s)
  <2> DEFINE n == InsertWith(sp, x % Modulus, v)
  <2>1. k = n
    BY <1>6
  <2>2. /\ n.sequence = (x + 1) % Modulus
        /\ Held(n) = {x % Modulus} \cup {s \in Held(sp) : Behind((x + 1) % Modulus, s) < C}
        /\ Get(n, x % Modulus) = v
        /\ \A s \in Held(n) : s # x % Modulus => Get(n, s) = Get(sp, s)
    <3>1. /\ ValidSize(C) /\ GoodSize(C) /\ sp \in GoodBuffers(C, PacketEntries)
          /\ v \in PacketEntries /\ h \in Int /\ x \in Int
          /\ sp.sequence = h % Modulus /\ h <= x /\ x + 1 - h < Half
      BY <1>1, <1>2, <1>6, <1>8
    <3> HIDE DEF C, sp
    <3> QED
      BY <3>1, InsertAhead
  <2> HIDE DEF n
  <2> QED
    BY <1>6, <2>1, <2>2
<1>10. Idle' = 0
  <2>1. Idle' = (WrappingAdd(ps, 1) - k.sequence) % Modulus
    BY DEF Idle
  <2>2. (x + 1) % Modulus \in Int /\ 0 % Modulus = 0
    <3>1. (x + 1) % Modulus \in SeqNum
      BY <1>6, Wrapped, x + 1 \in Int
    <3>2. 0 \in SeqNum
      BY ModulusAssumption DEF SeqNum
    <3>3. (x + 1) % Modulus \in Int
      BY <3>1 DEF SeqNum
    <3> QED
      BY <3>2, <3>3, Wrapped, 0 \in Int
  <2> DEFINE y == (x + 1) % Modulus
  <2>3. Idle' = (y - y) % Modulus /\ y \in Int
    BY <1>7, <1>9, <2>1, <2>2
  <2> HIDE DEF y
  <2> QED
    BY <2>2, <2>3
<1> QED
  BY <1>7, <1>9, <1>10

\* The messages of a new packet are in the send queue, which keeps them.
LEMMA PacketSent ==
  ASSUME Configured, IInv, NEW bits \in AvailableBits, GenerateChannelPacket(bits)
  PROVE  LET messages == PacketData(sender, packet_sequence, bits).messages
             q == sender.message_send_queue
             k == sender'.message_send_queue
             entry == [acked |-> FALSE, message_ids |-> IdsOf(messages)]
         IN  /\ sender' \in Reliables(Numbers)
             /\ sender'.send_message_id = sender.send_message_id
             /\ sender'.oldest_unacked_message_id = sender.oldest_unacked_message_id
             /\ k.sequence = q.sequence /\ Held(k) = Held(q)
             /\ \A id \in Held(q) : Get(k, id).message = Get(q, id).message
             /\ messages \in MessagesOf(Numbers) /\ Len(messages) <= MaxPerPacket
             /\ \A i \in 1 .. Len(messages) :
                   LET n == messages[i].message
                   IN  /\ messages[i].id = IdOf(n)
                       /\ n \in Freed + 1 .. accepted
                       /\ n <= Freed + ReceiveQueueSize
             /\ \/ messages = <<>> /\ sender' = sender /\ Idle < MaxIdle
                \/ sender'.sent_packets
                      = InsertWith(sender.sent_packets, packet_sequence, entry)
<1> DEFINE data == PacketData(sender, packet_sequence, bits)
           messages == data.messages
           q == sender.message_send_queue
           k == sender'.message_send_queue
           o == sender.oldest_unacked_message_id
           entry == [acked |-> FALSE, message_ids |-> IdsOf(messages)]
<1>1. /\ sender \in Reliables(Numbers) /\ q \in SendQueues(Freed, accepted)
      /\ Freed \in Nat /\ Freed <= accepted /\ accepted \in Nat /\ accepted <= MaxMessages
      /\ accepted - Freed <= SendQueueSize
      /\ o = Freed % Modulus
      /\ SendQueueSize \in Nat /\ SendQueueSize < Half /\ Half \in Nat
      /\ Modulus = 2 * Half /\ ReceiveQueueSize \in Nat /\ 2 * ReceiveQueueSize <= Half
      /\ packet_sequence \in SeqNum /\ MaxPerPacket \in Nat
  BY FreedBounds, Sizes DEF IInv, ReliableShapes, SendQueueGood
<1>2. sender' = data.channel /\ (messages = <<>> => Idle < MaxIdle)
  BY DEF GenerateChannelPacket
<1>3. Measured(Numbers) /\ GoodSizes
  BY ChannelAssumption DEF Measured, Configured, Numbers
<1>4. CASE data.channel = sender /\ messages = <<>>
  <2>1. messages \in MessagesOf(Numbers) /\ Len(messages) = 0
    BY <1>4 DEF MessagesOf
  <2>2. \A i \in 1 .. Len(messages) : FALSE
    BY <2>1
  <2> QED
    BY <1>1, <1>2, <1>4, <2>1, <2>2
<1>5. CASE ~(data.channel = sender /\ messages = <<>>)
  <2>1. /\ messages \in MessagesOf(Numbers) /\ Len(messages) <= MaxPerPacket
        /\ \A i \in 1 .. Len(messages) :
              /\ messages[i].id \in Held(q)
              /\ messages[i].message = Get(q, messages[i].id).message
              /\ \E j \in 0 .. MinQueueSize - 1 : messages[i].id = WrappingAdd(o, j)
        /\ sender' \in Reliables(Numbers)
        /\ sender'.send_message_id = sender.send_message_id
        /\ sender'.oldest_unacked_message_id = o
        /\ sender'.sent_packets = InsertWith(sender.sent_packets, packet_sequence, entry)
        /\ k.sequence = q.sequence /\ Held(k) = Held(q)
        /\ \A id \in Held(q) : Get(k, id).message = Get(q, id).message
    <3> DEFINE n == data.channel
    <3>1. PacketFilled(Numbers, sender, packet_sequence, n, messages)
      BY <1>1, <1>3, <1>5, PacketDataSends
    <3>2. n = sender'
      BY <1>2
    <3> HIDE DEF n, messages
    <3> QED
      BY <3>1, <3>2 DEF PacketFilled
  <2> HIDE DEF data, messages
  <2>2. ASSUME NEW i \in 1 .. Len(messages)
        PROVE  LET n == messages[i].message
               IN  /\ messages[i].id = IdOf(n)
                   /\ n \in Freed + 1 .. accepted
                   /\ n <= Freed + ReceiveQueueSize
    <3> DEFINE n == messages[i].message
               id == messages[i].id
    <3>1. PICK x \in Freed + 1 .. accepted : id = IdOf(x) /\ Get(q, id).message = x
      BY <1>1, <2>1 DEF SendQueues
    <3>2. n = x
      BY <2>1, <3>1
    <3>3. PICK j \in 0 .. MinQueueSize - 1 : id = WrappingAdd(o, j)
      BY <2>1
    <3>4. j \in Int /\ 0 <= j /\ j < ReceiveQueueSize /\ Freed \in Int
      BY <1>1, QueueSizes
    <3>5. WrappingAdd(Freed % Modulus, j) = (Freed + j) % Modulus
      BY <3>4, WrappedAdd, Zenon
    <3> DEFINE a == Freed + j
               b == x - 1
    <3>6. /\ a \in Int /\ b \in Int /\ b - a < Modulus /\ a - b < Modulus
      BY <1>1, <3>1, <3>4
    <3>7. a % Modulus = b % Modulus
      BY <1>1, <3>1, <3>3, <3>5 DEF IdOf
    <3> HIDE DEF a, b
    <3>8. a = b
      BY <3>6, <3>7, WrappedApart
    <3>9. x <= Freed + ReceiveQueueSize
      BY <1>1, <3>1, <3>4, <3>8 DEF a, b
    <3> QED
      BY <3>1, <3>2, <3>9
  <2> QED
    BY <2>1, <2>2 DEF messages, data
<1> QED
  BY <1>4, <1>5

\* The packets after a packet has been sent: it and the packets still fresh.
LEMMA GeneratePacketPackets ==
  ASSUME Configured, IInv, NEW bits \in AvailableBits, GenerateChannelPacket(bits)
  PROVE  /\ PacketShapes' /\ PacketMessages' /\ PacketsOvertaken'
         /\ Freed' = Freed
<1> DEFINE messages == PacketData(sender, packet_sequence, bits).messages
           new == [sequence |-> packet_sequence, messages |-> messages]
           M == MaxPerPacket
<1>0. /\ receiver' = receiver /\ delivered' = delivered /\ accepted' = accepted
      /\ packet_sequence' = WrappingAdd(packet_sequence, 1)
      /\ \A p \in Packets' : \/ p = new
                             \/ p \in Packets /\ Fresh(packet_sequence', p.sequence)
  BY DEF GenerateChannelPacket, Transmit, Packets, remote
<1>1. /\ accepted \in Nat /\ SendQueueSize \in Nat /\ ReceiveQueueSize \in Nat /\ M \in Nat
      /\ Freed \in Nat /\ Freed <= accepted /\ accepted - Freed <= SendQueueSize
      /\ packet_sequence \in SeqNum
  BY FreedBounds, Sizes DEF IInv, ReliableShapes
<1>2. /\ sender'.send_message_id = sender.send_message_id
      /\ sender'.oldest_unacked_message_id = sender.oldest_unacked_message_id
      /\ messages \in MessagesOf(Numbers) /\ Len(messages) <= M
      /\ \A i \in 1 .. Len(messages) :
            /\ messages[i].id = IdOf(messages[i].message)
            /\ messages[i].message \in Freed + 1 .. accepted
            /\ messages[i].message <= Freed + ReceiveQueueSize
  BY PacketSent
<1>3. Freed' = Freed
  BY <1>0, <1>2, SameFreed
<1>4. /\ new \in [sequence : SeqNum, messages : MessagesOf(Numbers)]
      /\ new.sequence = packet_sequence /\ new.messages = messages
  BY <1>1, <1>2
<1>5. /\ Behind(packet_sequence', packet_sequence) = 0
      /\ Fresh(packet_sequence', packet_sequence)
      /\ packet_sequence' \in SeqNum
  BY <1>0, <1>1, Aging
<1>6. ASSUME NEW p \in Packets
      PROVE  /\ p \in [sequence : SeqNum, messages : MessagesOf(Numbers)]
             /\ p.sequence # packet_sequence
             /\ Behind(packet_sequence, p.sequence) \in Nat
             /\ Behind(packet_sequence', p.sequence) = Behind(packet_sequence, p.sequence) + 1
  <2>1. /\ p \in [sequence : SeqNum, messages : MessagesOf(Numbers)]
        /\ Fresh(packet_sequence, p.sequence)
    BY DEF IInv, PacketShapes
  <2>2. p.sequence \in SeqNum
    BY <2>1
  <2>3. ~Fresh(packet_sequence, packet_sequence)
    BY <1>1, Aging
  <2> QED
    BY <1>0, <1>1, <2>1, <2>2, <2>3, Aging
<1> HIDE DEF new, messages
<1>7. PacketShapes'
  <2>1. ASSUME NEW p \in Packets'
        PROVE  /\ p \in [sequence : SeqNum, messages : MessagesOf(Numbers)]
               /\ Fresh(packet_sequence', p.sequence)
               /\ Len(p.messages) <= M
    <3>1. CASE p = new
      BY <1>2, <1>4, <1>5, <3>1
    <3>2. CASE p \in Packets /\ Fresh(packet_sequence', p.sequence)
      BY <1>6, <3>2 DEF IInv, PacketShapes
    <3> QED
      BY <1>0, <3>1, <3>2
  <2>2. ASSUME NEW p \in Packets', NEW q \in Packets', q.sequence = p.sequence
        PROVE  q = p
    <3>1. CASE p = new /\ q = new
      BY <3>1
    <3>2. CASE p \in Packets /\ q \in Packets
      BY <2>2, <3>2 DEF IInv, PacketShapes
    <3>3. CASE p = new /\ q \in Packets
      BY <1>4, <1>6, <2>2, <3>3
    <3>4. CASE p \in Packets /\ q = new
      BY <1>4, <1>6, <2>2, <3>4
    <3> QED
      BY <1>0, <3>1, <3>2, <3>3, <3>4
  <2> QED
    BY <2>1, <2>2 DEF PacketShapes
<1>8. PacketMessages'
  <2>1. ASSUME NEW p \in Packets', NEW i \in 1 .. Len(p.messages)
        PROVE  /\ p.messages[i].id = IdOf(p.messages[i].message)
               /\ p.messages[i].message <= accepted
               /\ p.messages[i].message <= Freed + ReceiveQueueSize
    <3>1. CASE p = new
      BY <1>1, <1>2, <1>4, <3>1
    <3>2. CASE p \in Packets
      BY <3>2 DEF IInv, PacketMessages
    <3> QED
      BY <1>0, <3>1, <3>2
  <2> QED
    BY <1>0, <1>3, <2>1 DEF PacketMessages
<1>9. ASSUME NEW m, Packed(m)'
      PROVE  Packed(m) \/ \E i \in DOMAIN messages : messages[i].message = m
  <2>1. Arrived(m)' <=> Arrived(m)
    BY <1>0, SameReceiver
  <2>2. CASE Arrived(m)
    BY <2>2 DEF Packed
  <2>3. CASE ~Arrived(m)
    <3>1. PICK p \in Packets' : Carries(p, m)
      BY <1>9, <2>1, <2>3 DEF Packed, Carries
    <3>2. CASE p = new
      BY <1>4, <3>1, <3>2 DEF Carries
    <3>3. CASE p \in Packets
      BY <3>1, <3>3 DEF Packed
    <3> QED
      BY <1>0, <3>2, <3>3
  <2> QED
    BY <2>2, <2>3
<1>10. ASSUME NEW p \in Packets', NEW i \in 1 .. Len(p.messages)
       PROVE  Cardinality(PackedAfter(p.messages[i].message)')
                 <= Behind(packet_sequence', p.sequence) * M
  <2> DEFINE n == p.messages[i].message
             T == PackedAfter(n)'
             S == PackedAfter(n)
  <2>1. T = {m \in Numbers : m > n - 1 + SendQueueSize /\ Packed(m)'}
    BY DEF PackedAfter
  <2>2. CASE p = new
    <3>1. n \in Freed + 1 .. accepted
      BY <1>2, <1>4, <2>2
    <3>2. ASSUME NEW m \in Numbers, Packed(m)' PROVE m <= accepted
      <4>1. CASE Packed(m)
        BY <4>1, InQueues
      <4>2. CASE \E j \in DOMAIN messages : messages[j].message = m
        <5>1. DOMAIN messages = 1 .. Len(messages)
          BY <1>2 DEF MessagesOf
        <5> QED
          BY <1>1, <1>2, <4>2, <5>1
      <4> QED
        BY <1>9, <3>2, <4>1, <4>2
    <3>3. T = {}
      <4> HIDE DEF n, T
      <4>1. ASSUME NEW m \in T PROVE FALSE
        <5>1. m \in Numbers /\ m \in Int /\ m > n - 1 + SendQueueSize /\ Packed(m)'
          BY <2>1, <4>1 DEF Numbers
        <5>2. m <= accepted
          BY <3>2, <5>1
        <5> QED
          BY <1>1, <3>1, <5>1, <5>2
      <4> QED
        BY <4>1
    <3>4. Cardinality(T) = 0
      BY <3>3, FS_EmptySet
    <3>5. Behind(packet_sequence', p.sequence) * M = 0
      BY <1>1, <1>4, <1>5, <2>2
    <3> QED
      BY <3>4, <3>5
  <2>3. CASE p \in Packets
    <3> DEFINE a == Behind(packet_sequence, p.sequence)
               l == Len(messages)
    <3>1. S \subseteq Numbers /\ Cardinality(S) \in Nat
      <4>1. S \subseteq Numbers
        BY DEF PackedAfter
      <4> HIDE DEF S
      <4> QED
        BY <4>1, NumbersFinite
    <3>2. \A m \in T : m \in S \/ \E j \in DOMAIN messages : messages[j].message = m
      BY <1>9, <2>1 DEF PackedAfter
    <3>3. Cardinality(S) <= a * M
      BY <2>3 DEF IInv, PacketsOvertaken
    <3>4. a \in Nat /\ Behind(packet_sequence', p.sequence) = a + 1
      BY <1>6, <2>3
    <3>5. T \subseteq Numbers
      BY <2>1
    <3> HIDE DEF n, S, T
    <3>6. Cardinality(T) <= Cardinality(S) + l /\ Cardinality(T) \in Nat
      BY <1>2, <3>1, <3>2, <3>5, MoreMessages, NumbersFinite
    <3> HIDE DEF a
    <3>7. a * M \in Nat /\ (a + 1) * M = a * M + M
      BY <1>1, <3>4, Products
    <3>8. l \in Nat /\ l <= M
      BY <1>2 DEF MessagesOf
    <3> DEFINE b == a * M
               c == (a + 1) * M
    <3> HIDE DEF b, c, l
    <3>9. Cardinality(T) <= c
      <4>1. Cardinality(S) <= b /\ b \in Nat /\ c = b + M
        BY <3>3, <3>7 DEF b, c
      <4> QED
        BY <1>1, <3>1, <3>6, <3>8, <4>1
    <3> QED
      BY <3>4, <3>9 DEF c, T, n
  <2> QED
    BY <1>0, <2>2, <2>3
<1>11. PacketsOvertaken'
  BY <1>10 DEF PacketsOvertaken
<1> QED
  BY <1>3, <1>7, <1>8, <1>11

\* GenerateChannelPacket keeps the invariant.
LEMMA GeneratePacketKeeps ==
  ASSUME Configured, IInv, NEW bits \in AvailableBits, GenerateChannelPacket(bits)
  PROVE  IInv'
<1> DEFINE messages == PacketData(sender, packet_sequence, bits).messages
           new == [sequence |-> packet_sequence, messages |-> messages]
           entry == [acked |-> FALSE, message_ids |-> IdsOf(messages)]
           q == sender.message_send_queue
           k == sender'.message_send_queue
           sp == sender.sent_packets
           st == sender'.sent_packets
           ps == packet_sequence
<1>0. /\ receiver' = receiver /\ delivered' = delivered /\ accepted' = accepted
      /\ ps' = WrappingAdd(ps, 1) /\ panicked' = panicked
      /\ \A p \in Packets' : p = new \/ (p \in Packets /\ Fresh(ps', p.sequence))
      /\ received' \subseteq received
      /\ \A s \in acked : Fresh(ps', s) => s \in acked'
  <2>1. /\ network' = {p \in network : Fresh(WrappingAdd(ps, 1), p.sequence)} \cup {new}
        /\ received' = {p \in received : Fresh(WrappingAdd(ps, 1), p.sequence)}
        /\ acked' = {s \in acked : Fresh(WrappingAdd(ps, 1), s)}
        /\ ps' = WrappingAdd(ps, 1)
    BY DEF GenerateChannelPacket, Transmit
  <2>2. /\ receiver' = receiver /\ delivered' = delivered /\ accepted' = accepted
        /\ panicked' = panicked
    BY DEF GenerateChannelPacket, remote
  <2> HIDE DEF new
  <2>3. \A p \in Packets' : p = new \/ (p \in Packets /\ Fresh(ps', p.sequence))
    BY <2>1 DEF Packets
  <2>4. received' \subseteq received /\ \A s \in acked : Fresh(ps', s) => s \in acked'
    BY <2>1
  <2> QED
    BY <2>1, <2>2, <2>3, <2>4
<1>1. /\ sender \in Reliables(Numbers) /\ q \in SendQueues(Freed, accepted)
      /\ ps \in SeqNum /\ Freed \in Nat /\ accepted \in Nat
  BY FreedBounds, Sizes DEF IInv, ReliableShapes, SendQueueGood
<1>2. /\ sender' \in Reliables(Numbers)
      /\ sender'.send_message_id = sender.send_message_id
      /\ sender'.oldest_unacked_message_id = sender.oldest_unacked_message_id
      /\ k.sequence = q.sequence /\ Held(k) = Held(q)
      /\ \A id \in Held(q) : Get(k, id).message = Get(q, id).message
      /\ messages \in MessagesOf(Numbers)
      /\ \/ messages = <<>> /\ sender' = sender /\ Idle < MaxIdle
         \/ st = InsertWith(sp, ps, entry)
  BY PacketSent
<1>3. entry \in PacketEntries /\ entry.acked = FALSE /\ entry.message_ids = IdsOf(messages)
  <2>1. IdsOf(messages) \in Seq(SeqNum)
    BY <1>2, IdsOfMessages
  <2> QED
    BY <2>1 DEF PacketEntries
<1>4. /\ PacketShapes' /\ PacketMessages' /\ PacketsOvertaken'
      /\ Unacked' = Unacked /\ Freed' = Freed
  BY <1>0, <1>2, SameFreed, GeneratePacketPackets
<1>5. ps' \in SeqNum
  BY <1>0, <1>1, Aging
<1>6. new.sequence = ps /\ new.messages = messages
  OBVIOUS
<1>7. \A p \in Packets : p.sequence \in SeqNum /\ p.sequence # ps
  BY <1>1, Aging DEF IInv, PacketShapes
<1>8. sp \in GoodBuffers(SentPacketsSize, PacketEntries) /\ Held(sp) \subseteq SeqNum
  <2>1. sp \in GoodBuffers(SentPacketsSize, PacketEntries)
    BY <1>1, ReliableFields
  <2> QED
    BY <2>1, ValidSizes, HeldNumbers DEF Configured
<1> HIDE DEF messages, new, entry
<1>9. k \in SendQueues(Freed, accepted)
  <2>1. k \in GoodBuffers(SendQueueSize, SendEntries(Numbers))
    BY <1>2, ReliableFields
  <2> QED
    BY <1>1, <1>2, <2>1 DEF SendQueues
<1>10. ReliableShapes' /\ SendQueueGood' /\ ReceiveQueueGood'
  BY <1>0, <1>2, <1>4, <1>5, <1>9
     DEF IInv, ReliableShapes, SendQueueGood, ReceiveQueueGood
<1>11. \A m : Arrived(m)' <=> Arrived(m)
  BY <1>0, SameReceiver
<1>12. FreedArrived'
  BY <1>0, <1>1, <1>2, <1>11, SameInSendQueue DEF IInv, FreedArrived
<1>13. ReceivedArrived'
  BY <1>0, <1>11 DEF IInv, ReceivedArrived
<1>14. SentPacketsGood' /\ SentPacketsKept'
  <2>1. CASE messages = <<>> /\ sender' = sender /\ Idle < MaxIdle
    <3>1. Idle' <= MaxIdle /\ ps \notin Held(sp)
      BY <1>0, <2>1, IdleStep DEF IInv
    <3>2. ASSUME NEW s \in Held(sp), Get(sp, s).acked, Fresh(ps', s)
          PROVE  s \in acked'
      <4>1. s # ps /\ s \in SeqNum
        BY <1>8, <3>1
      <4>2. Fresh(ps, s)
        BY <1>0, <1>1, <3>2, <4>1, Aging
      <4>3. s \in acked
        BY <3>2, <4>2 DEF IInv, SentPacketsGood
      <4> QED
        BY <1>0, <3>2, <4>3
    <3>3. ASSUME NEW p \in Packets', p.sequence \in Held(sp)
          PROVE  Get(sp, p.sequence).message_ids = IdsOf(p.messages)
      <4>1. p \in Packets
        BY <1>0, <1>6, <3>1, <3>3
      <4> QED
        BY <3>3, <4>1 DEF IInv, SentPacketsGood
    <3>4. ASSUME Lifetime <= SentPacketsSize, NEW p \in Packets', p.messages # <<>>
          PROVE  p.sequence \in Held(sp)
      <4>1. p \in Packets
        BY <1>0, <1>6, <2>1, <3>4
      <4> QED
        BY <3>4, <4>1 DEF IInv, SentPacketsKept
    <3> QED
      BY <2>1, <3>1, <3>2, <3>3, <3>4 DEF SentPacketsGood, SentPacketsKept
  <2>2. CASE st = InsertWith(sp, ps, entry)
    <3>1. /\ Idle' = 0
          /\ Held(st) = {ps} \cup {s \in Held(sp) : Behind(ps', s) < SentPacketsSize}
          /\ Get(st, ps) = entry
          /\ \A s \in Held(st) : s # ps => Get(st, s) = Get(sp, s)
      BY <1>0, <1>3, <2>2, EnteredStep DEF IInv, SentPacketsGood
    <3>2. Idle' <= MaxIdle
      BY <3>1, Sizes
    <3>3. ASSUME NEW s \in Held(st), Get(st, s).acked, Fresh(ps', s)
          PROVE  s \in acked'
      <4>1. s # ps
        BY <1>3, <3>1, <3>3
      <4>2. s \in Held(sp) /\ s \in SeqNum /\ Get(sp, s).acked
        BY <1>8, <3>1, <3>3, <4>1
      <4>3. Fresh(ps, s)
        BY <1>0, <1>1, <3>3, <4>1, <4>2, Aging
      <4>4. s \in acked
        BY <4>2, <4>3 DEF IInv, SentPacketsGood
      <4> QED
        BY <1>0, <3>3, <4>4
    <3>4. ASSUME NEW p \in Packets', p.sequence \in Held(st)
          PROVE  Get(st, p.sequence).message_ids = IdsOf(p.messages)
      <4>1. CASE p = new
        BY <1>3, <1>6, <3>1, <4>1
      <4>2. CASE p \in Packets
        BY <1>7, <3>1, <3>4, <4>2 DEF IInv, SentPacketsGood
      <4> QED
        BY <1>0, <4>1, <4>2
    <3>5. ASSUME Lifetime <= SentPacketsSize, NEW p \in Packets', p.messages # <<>>
          PROVE  p.sequence \in Held(st)
      <4>1. CASE p = new
        BY <1>6, <3>1, <4>1
      <4>2. CASE p \in Packets /\ Fresh(ps', p.sequence)
        <5>1. p.sequence \in Held(sp)
          BY <3>5, <4>2 DEF IInv, SentPacketsKept
        <5>2. Behind(ps', p.sequence) \in Nat
          BY <1>0, <1>1, <1>7, <4>2, Aging
        <5>3. Behind(ps', p.sequence) < SentPacketsSize
          BY <3>5, <4>2, <5>2, Sizes DEF Fresh
        <5> QED
          BY <3>1, <5>1, <5>3
      <4> QED
        BY <1>0, <4>1, <4>2
    <3> QED
      BY <3>2, <3>3, <3>4, <3>5 DEF SentPacketsGood, SentPacketsKept
  <2> QED
    BY <1>2, <2>1, <2>2
<1>15. PanicsOnlyIfUndrained'
  BY <1>0 DEF IInv, PanicsOnlyIfUndrained, GenerateChannelPacket
<1> QED
  BY <1>4, <1>10, <1>12, <1>13, <1>14, <1>15 DEF IInv

-----------------------------------------------------------------------------
(* The theorems.                                                             *)

\* The invariant holds initially.
LEMMA InitGood ==
  ASSUME Configured, Init
  PROVE  IInv
<1>1. /\ ValidSize(SendQueueSize) /\ ValidSize(ReceiveQueueSize) /\ ValidSize(SentPacketsSize)
  BY ValidSizes
<1>2. /\ NewBuffer(SendQueueSize).sequence = 0 /\ Held(NewBuffer(SendQueueSize)) = {}
      /\ NewBuffer(ReceiveQueueSize).sequence = 0 /\ Held(NewBuffer(ReceiveQueueSize)) = {}
      /\ NewBuffer(SentPacketsSize).sequence = 0 /\ Held(NewBuffer(SentPacketsSize)) = {}
  BY <1>1, EmptyHeld
<1>3. NewSession
  BY <1>2, NewReliableEmpty DEF Init, NewSession
<1> QED
  BY <1>3, NewSessionGood

\* A stuttering step keeps the invariant.
LEMMA NothingKeeps ==
  ASSUME Configured, IInv, UNCHANGED vars
  PROVE  IInv'
<1>0. /\ receiver' = receiver /\ delivered' = delivered /\ accepted' = accepted
      /\ packet_sequence' = packet_sequence /\ panicked' = panicked
      /\ sender' = sender /\ received' = received /\ acked' = acked
      /\ Packets' \subseteq Packets
  BY DEF vars, Packets
<1>1. Freed \in Nat /\ accepted \in Nat
  BY FreedBounds, Sizes DEF IInv, ReliableShapes
<1>2. Unacked' = Unacked /\ Freed' = Freed
  BY <1>0, SameFreed
<1>3. ReliableShapes' /\ SendQueueGood' /\ ReceiveQueueGood'
  BY <1>0, <1>2 DEF IInv, ReliableShapes, SendQueueGood, ReceiveQueueGood
<1>4. \A m : /\ Arrived(m)' <=> Arrived(m)
             /\ Packed(m)' => Packed(m)
  BY <1>0, SameReceiver
<1>5. FreedArrived'
  BY <1>0, <1>4 DEF IInv, FreedArrived, InSendQueue
<1>6. PacketShapes' /\ PacketMessages' /\ PacketsOvertaken'
  BY <1>0, <1>1, <1>2, <1>4, NoNewPackets
<1>7. ReceivedArrived' /\ SentPacketsGood' /\ SentPacketsKept'
  BY <1>0, <1>4 DEF IInv, ReceivedArrived, SentPacketsGood, SentPacketsKept, Idle
<1>8. PanicsOnlyIfUndrained'
  BY <1>0 DEF IInv, PanicsOnlyIfUndrained
<1> QED
  BY <1>3, <1>5, <1>6, <1>7, <1>8 DEF IInv

\* Every step keeps the invariant.
LEMMA NextKeeps ==
  ASSUME Configured, IInv, [Next]_vars
  PROVE  IInv'
<1>1. CASE SendMessage
  BY <1>1, SendMessageKeeps
<1>2. CASE ReceiveMessage
  BY <1>2, ReceiveMessageKeeps
<1>3. CASE AdvanceTime
  BY <1>3, AdvanceTimeKeeps
<1>4. CASE Reset
  BY <1>4, ResetKeeps
<1>5. CASE \E bits \in AvailableBits : GenerateChannelPacket(bits)
  BY <1>5, GeneratePacketKeeps
<1>6. CASE \E p \in network : LosePacket(p)
  BY <1>6, LosePacketKeeps
<1>7. CASE \E p \in network, duplicated \in BOOLEAN : DeliverPacket(p, duplicated)
  BY <1>7, DeliverPacketKeeps
<1>8. CASE \E p \in received : ProcessAckOf(p)
  BY <1>8, ProcessAckOfKeeps
<1>9. CASE UNCHANGED vars
  BY <1>9, NothingKeeps
<1> QED
  BY <1>1, <1>2, <1>3, <1>4, <1>5, <1>6, <1>7, <1>8, <1>9 DEF Next

\* The inductive invariant holds of every session of a configured channel, whatever
\* the network does to its packets.
THEOREM ReliableChannelInvariant ==
  ASSUME Configured
  PROVE  Spec => []IInv
<1>1. Init => IInv
  BY InitGood
<1>2. IInv /\ [Next]_vars => IInv'
  BY NextKeeps
<1> QED
  BY <1>1, <1>2, PTL DEF Spec

\* The two ends of the channel and its counters keep their shapes: nothing in the
\* buffers of src/src/channel/reliable.rs is ever out of its range.
THEOREM ReliableChannelTypeOK ==
  ASSUME Configured
  PROVE  Spec => []TypeOK
<1>1. IInv => TypeOK
  <2> SUFFICES ASSUME IInv PROVE TypeOK
    OBVIOUS
  <2>1. ASSUME NEW r \in Reliables(Numbers)
        PROVE  /\ r.send_message_id \in SeqNum
               /\ r.receive_message_id \in SeqNum
               /\ r.oldest_unacked_message_id \in SeqNum
               /\ r.message_send_queue \in BufferType(SendQueueSize, MessageEntries)
               /\ r.message_receive_queue \in BufferType(ReceiveQueueSize, Numbers)
               /\ Held(r.sent_packets) \subseteq SeqNum
    <3>1. SendEntries(Numbers) = MessageEntries
      BY DEF SendEntries, MessageEntries
    <3>2. r.sent_packets \in GoodBuffers(SentPacketsSize, PacketEntries)
      BY ReliableFields
    <3>3. Held(r.sent_packets) \subseteq SeqNum
      BY <3>2, ValidSizes, HeldNumbers
    <3> QED
      BY <3>1, <3>3, ReliableFields DEF GoodBuffers
  <2>2. sender \in Reliables(Numbers) /\ receiver \in Reliables(Numbers)
    BY DEF IInv, ReliableShapes
  <2> QED
    BY <2>1, <2>2 DEF TypeOK, IInv, ReliableShapes
<1> QED
  BY <1>1, ReliableChannelInvariant, PTL

\* No accepted message is lost: one that process_ack took out of the send queue has
\* been returned by receive_message or waits in the receive queue.
THEOREM ReliableChannelNoMessageLost ==
  ASSUME Configured
  PROVE  Spec => []NoMessageLost
<1>1. IInv => NoMessageLost
  <2> SUFFICES ASSUME IInv, NEW n \in delivered + 1 .. accepted
               PROVE  InSendQueue(n) \/ InReceiveQueue(n)
    BY DEF NoMessageLost
  <2>1. delivered \in Nat /\ accepted \in Nat
    BY Sizes DEF IInv, ReliableShapes
  <2>2. n \in 1 .. accepted /\ ~(n <= delivered)
    BY <2>1
  <2> QED
    BY <2>2 DEF IInv, FreedArrived, Arrived
<1> QED
  BY <1>1, ReliableChannelInvariant, PTL

\* oldest_unacked_message_id is the first id in the send queue, which holds none
\* outside the window that begins there: the loops of get_messages_to_send and
\* update_oldest_unacked_message look where the messages are, over any wrap.
THEOREM ReliableChannelOldestIsFirst ==
  ASSUME Configured
  PROVE  Spec => []OldestIsFirstInQueue
<1>1. IInv => OldestIsFirstInQueue
  <2> SUFFICES ASSUME IInv PROVE OldestIsFirstInQueue
    OBVIOUS
  <2> DEFINE q == sender.message_send_queue
             o == sender.oldest_unacked_message_id
             all == sender.send_message_id
  <2>1. /\ q \in SendQueues(Freed, accepted) /\ all = accepted % Modulus
        /\ o = Freed % Modulus /\ Unacked = accepted - Freed
        /\ Freed \in 0 .. accepted /\ accepted \in Nat /\ Unacked <= SendQueueSize
        /\ Unacked = (all - o) % Modulus
        /\ SendQueueSize < Modulus /\ SendQueueSize \in Nat /\ Modulus \in Nat
    BY FreedBounds, Sizes DEF IInv, ReliableShapes, SendQueueGood, Unacked
  <2>2. ASSUME NEW id \in Held(q)
        PROVE  (id - o) % Modulus < (all - o) % Modulus
    <3>1. PICK n \in Freed + 1 .. accepted : id = IdOf(n)
      BY <2>1 DEF SendQueues
    <3> DEFINE x == n - 1
               f == Freed
    <3>2. /\ x \in Int /\ f \in Int /\ 0 <= x - f /\ x - f < accepted - f
          /\ x - f < Modulus /\ id = x % Modulus /\ o = f % Modulus
      BY <2>1, <3>1 DEF IdOf
    <3> HIDE DEF x, f, o
    <3>3. ((x % Modulus) - (f % Modulus)) % Modulus = (x - f) % Modulus
      BY <3>2, WrappedDifference, Zenon
    <3>4. (x - f) % Modulus = x - f
      BY <3>2, WrappedNear
    <3>5. (id - o) % Modulus = x - f
      BY <3>2, <3>3, <3>4
    <3> QED
      BY <2>1, <3>2, <3>5 DEF f
  <2>3. HasMessagesToSend(sender) => Exists(q, o)
    <3> HAVE HasMessagesToSend(sender)
    <3>1. Freed < accepted
      BY <2>1 DEF HasMessagesToSend
    <3>2. IdOf(Freed + 1) = o /\ Freed + 1 \in Int
      <4>1. Freed \in Int
        BY <2>1
      <4>2. IdOf(Freed + 1) = Freed % Modulus
        BY <4>1, IdOfNumber
      <4> QED
        BY <2>1, <4>1, <4>2
    <3>3. o \in Held(q)
      BY <2>1, <3>1, <3>2 DEF SendQueues
    <3>4. Freed \in Nat /\ Freed <= accepted /\ accepted - Freed <= SendQueueSize
      BY <2>1
    <3> QED
      BY <2>1, <3>2, <3>3, <3>4, SendQueueHolds
  <2>4. q.sequence = all
    BY <2>1 DEF SendQueues
  <2> QED
    BY <2>2, <2>3, <2>4 DEF OldestIsFirstInQueue
<1> QED
  BY <1>1, ReliableChannelInvariant, PTL

\* No assertion of reliable.rs fails and "desync (2)" is not reached; "desync (1)"
\* strikes only a receiver with messages the application did not take.
THEOREM ReliableChannelPanics ==
  ASSUME Configured
  PROVE  Spec => []PanicsOnlyIfUndrained
<1>1. IInv => PanicsOnlyIfUndrained
  BY DEF IInv
<1> QED
  BY <1>1, ReliableChannelInvariant, PTL

\* process_ack frees the messages of the packet: it finds the packet in
\* sent_packets, with the ids the packet was sent with, when that buffer is as long
\* as the endpoint reports acks.
THEOREM ReliableChannelAckFrees ==
  ASSUME Configured, Lifetime <= SentPacketsSize
  PROVE  Spec => AckFreesMessages
<1> DEFINE Frees == \A p \in received :
                       ProcessAckOf(p) /\ panicked' = NoPanic =>
                          \A i \in DOMAIN p.messages :
                             ~InSendQueue(p.messages[i].message)'
<1>1. IInv => Frees
  <2> HAVE IInv
  <2> TAKE p \in received
  <2> HAVE ProcessAckOf(p) /\ panicked' = NoPanic
  <2> QED
    BY ProcessAckOfKeeps
<1>2. IInv /\ [Next]_vars => [Frees]_vars
  BY <1>1
<1> QED
  BY <1>2, ReliableChannelInvariant, PTL DEF Spec, AckFreesMessages

\* The queue of the FIFO channel that the counters stand for.
Waiting(taken, all) == [i \in 1 .. all - taken |-> taken + i]

\* The queue of accepted and not yet delivered messages, as the abstract FIFO
\* changes it.
LEMMA WaitingQueue ==
  ASSUME NEW taken \in Nat, NEW all \in Nat, taken <= all
  PROVE  /\ Waiting(taken, taken) = <<>>
         /\ Waiting(taken, all + 1) = Append(Waiting(taken, all), all + 1)
         /\ taken < all => /\ Waiting(taken, all) # <<>>
                           /\ Head(Waiting(taken, all)) = taken + 1
                           /\ Waiting(taken + 1, all) = Tail(Waiting(taken, all))
<1> DEFINE w == Waiting(taken, all)
           l == all - taken
<1>1. l \in Nat /\ w \in Seq(Int) /\ Len(w) = l /\ \A i \in 1 .. l : w[i] = taken + i
  <2>1. l \in Nat
    OBVIOUS
  <2>2. w = [i \in 1 .. l |-> taken + i]
    BY DEF Waiting
  <2>3. \A i \in 1 .. l : taken + i \in Int
    OBVIOUS
  <2> HIDE DEF w, l
  <2>4. w \in [1 .. l -> Int]
    BY <2>2, <2>3
  <2> QED
    BY <2>1, <2>2, <2>4
<1>2. Waiting(taken, taken) = <<>>
  <2>1. Waiting(taken, taken) \in [1 .. 0 -> Int]
    BY DEF Waiting
  <2> QED
    BY <2>1
<1>3. Waiting(taken, all + 1) = Append(w, all + 1)
  <2>1. Waiting(taken, all + 1) = [i \in 1 .. l + 1 |-> taken + i]
    BY DEF Waiting
  <2>2. taken + (l + 1) = all + 1 /\ all + 1 \in Int
    OBVIOUS
  <2> DEFINE t == Append(w, all + 1)
  <2> HIDE DEF w, l
  <2>3. t \in Seq(Int) /\ Len(t) = l + 1 /\ l \in Nat
    BY <1>1, <2>2
  <2>4. \A i \in 1 .. l + 1 : t[i] = taken + i
    BY <1>1, <2>2
  <2> HIDE DEF t
  <2>5. t \in [1 .. l + 1 -> Int]
    BY <2>3
  <2>6. t = [i \in 1 .. l + 1 |-> taken + i]
    BY <2>4, <2>5
  <2> QED
    BY <2>1, <2>6 DEF t
<1>4. ASSUME taken < all
      PROVE  w # <<>> /\ Head(w) = taken + 1 /\ Waiting(taken + 1, all) = Tail(w)
  <2>1. Waiting(taken + 1, all) = [i \in 1 .. l - 1 |-> taken + (i + 1)] /\ l >= 1
    <3>1. all - (taken + 1) = l - 1 /\ \A i \in Int : (taken + 1) + i = taken + (i + 1)
      OBVIOUS
    <3> HIDE DEF l
    <3>2. Waiting(taken + 1, all) = [i \in 1 .. l - 1 |-> (taken + 1) + i]
      BY <3>1 DEF Waiting
    <3>3. \A i \in 1 .. l - 1 : (taken + 1) + i = taken + (i + 1)
      OBVIOUS
    <3>4. l >= 1
      BY <1>4 DEF l
    <3> QED
      BY <3>2, <3>3, <3>4
  <2> HIDE DEF w, l
  <2>2. w # <<>> /\ Head(w) = taken + 1
    BY <1>1, <2>1
  <2> DEFINE t == Tail(w)
             u == [i \in 1 .. l - 1 |-> taken + (i + 1)]
  <2>3. t \in Seq(Int) /\ Len(t) = l - 1 /\ \A i \in 1 .. l - 1 : t[i] = w[i + 1]
    BY <1>1, <2>1, <2>2
  <2>4. \A i \in 1 .. l - 1 : w[i + 1] = taken + (i + 1)
    BY <1>1
  <2>5. \A i \in 1 .. l - 1 : t[i] = u[i]
    BY <2>3, <2>4
  <2> HIDE DEF t
  <2>6. t \in [1 .. l - 1 -> Int]
    <3>1. t \in [1 .. Len(t) -> Int]
      BY <2>3
    <3> QED
      BY <2>3, <3>1
  <2>7. t = u
    BY <2>5, <2>6
  <2> QED
    BY <2>1, <2>2, <2>7 DEF t
<1> QED
  BY <1>2, <1>3, <1>4

\* The reliable channel is a FIFO channel: what it accepts it delivers in order and
\* once, or not at all when the session is reset.
THEOREM ReliableChannelImplementsFifo ==
  ASSUME Configured
  PROVE  Spec => ImplementsFifo
<1> DEFINE queue == [i \in 1 .. accepted - delivered |-> delivered + i]
<1>1. Init => Fifo!Init
  <2> HAVE Init
  <2>1. queue = Waiting(0, 0) /\ out = <<>>
    BY DEF Init, Waiting
  <2>2. Waiting(0, 0) = <<>>
    BY WaitingQueue
  <2> QED
    BY <2>1, <2>2 DEF Fifo!Init
<1>2. ASSUME IInv, [Next]_vars
      PROVE  [Fifo!Next]_(Fifo!vars)
  <2> DEFINE w == Waiting(delivered, accepted)
  <2>1. delivered \in Nat /\ accepted \in Nat /\ delivered <= accepted
    BY <1>2, Sizes DEF IInv, ReliableShapes
  <2>2. queue = w /\ queue' = Waiting(delivered', accepted')
    BY DEF Waiting
  <2>3. CASE SendMessage
    <3>1. out' = out /\ delivered' = delivered
      BY <2>3 DEF SendMessage, remote
    <3>2. CASE accepted' = accepted
      BY <2>2, <3>1, <3>2 DEF Fifo!vars
    <3>3. CASE accepted' = accepted + 1 /\ accepted < MaxMessages
      <4>1. accepted + 1 \in Numbers
        BY <2>1, <3>3, Sizes DEF Numbers
      <4>2. queue' = Append(queue, accepted + 1)
        BY <2>1, <2>2, <3>1, <3>3, WaitingQueue
      <4> HIDE DEF queue
      <4>3. \E m \in Numbers : queue' = Append(queue, m) /\ out' = out
        BY <3>1, <4>1, <4>2
      <4> QED
        BY <4>3 DEF Fifo!Next, Fifo!Accept, queue
    <3> QED
      BY <2>3, <3>2, <3>3 DEF SendMessage
  <2>4. CASE ReceiveMessage
    <3>1. delivered + 1 <= accepted /\ NextMessage(receiver) = delivered + 1
      BY <1>2, <2>4, ReceiveMessageKeeps
    <3>2. delivered' = delivered + 1 /\ accepted' = accepted /\ out' = <<delivered + 1>>
      BY <2>4, <3>1 DEF ReceiveMessage
    <3>3. delivered < accepted
      BY <2>1, <3>1
    <3>4. queue # <<>> /\ out' = <<Head(queue)>> /\ queue' = Tail(queue)
      <4>1. w # <<>> /\ Head(w) = delivered + 1 /\ Waiting(delivered + 1, accepted) = Tail(w)
        BY <2>1, <3>3, WaitingQueue
      <4>2. queue' = Waiting(delivered + 1, accepted)
        BY <2>2, <3>2
      <4> HIDE DEF w, queue
      <4> QED
        BY <2>2, <3>2, <4>1, <4>2
    <3> QED
      BY <3>4 DEF Fifo!Next, Fifo!Deliver
  <2>5. CASE Reset
    <3>1. delivered' = 0 /\ accepted' = 0 /\ out' = <<>>
      BY <2>5 DEF Reset
    <3>2. queue' = <<>>
      BY <2>2, <3>1, WaitingQueue
    <3> QED
      BY <3>1, <3>2 DEF Fifo!Next, Fifo!Close
  <2>6. CASE UNCHANGED <<accepted, delivered, out>>
    BY <2>2, <2>6 DEF Fifo!vars
  <2>7. CASE AdvanceTime
    BY <2>6, <2>7 DEF AdvanceTime, remote
  <2>8. CASE \E bits \in AvailableBits : GenerateChannelPacket(bits)
    BY <2>6, <2>8 DEF GenerateChannelPacket, remote
  <2>9. CASE \E p \in network : LosePacket(p)
    BY <2>6, <2>9 DEF LosePacket, remote
  <2>10. CASE \E p \in network, duplicated \in BOOLEAN : DeliverPacket(p, duplicated)
    BY <2>6, <2>10 DEF DeliverPacket
  <2>11. CASE \E p \in received : ProcessAckOf(p)
    BY <2>6, <2>11 DEF ProcessAckOf, remote
  <2>12. CASE UNCHANGED vars
    BY <2>6, <2>12 DEF vars
  <2> QED
    BY <1>2, <2>3, <2>4, <2>5, <2>7, <2>8, <2>9, <2>10, <2>11, <2>12 DEF Next
<1> QED
  BY <1>1, <1>2, ReliableChannelInvariant, PTL DEF Spec, ImplementsFifo, Fifo!Spec
==============================================================================
