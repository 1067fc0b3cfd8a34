----------------------------- MODULE ConnectionPair -----------------------------
(***************************************************************************)
(* A client and a server connected to each other: their two Connections,   *)
(* each with all its channels, driven as Client and ServerRuntime drive     *)
(* them (src/src/client.rs, src/src/server.rs), the reliable endpoints with *)
(* the acknowledgements they put in every packet, and the network.          *)
(*                                                                          *)
(* The endpoints and the network (netcode) are external.  An endpoint       *)
(* numbers the packets it sends, writes in each the sequences of the recent *)
(* packets that process_packet returned true for, and hands every sequence  *)
(* acknowledged to get_acks once.  It reads the acknowledgements of a packet *)
(* only if process_packet returns true for it, and refuses packets older    *)
(* than the last Lifetime.  The network loses, reorders and duplicates.      *)
(* A session ends at both peers, one after the other; packets of a session  *)
(* are not accepted in the next.                                            *)
(***************************************************************************)
EXTENDS Connection

CONSTANTS BufferBits,         \* max_packet_size in bits
          Lifetime,           \* for how many packets an ack is still possible
          MaxMessages(_, _),  \* bound: what a peer sends on a channel in a session
          MaxPackets(_)       \* bound: how many packets it sends, Modulus for any number

Peers == {"client", "server"}

Other(p) == CHOOSE q \in Peers : q # p

\* The reliable channels.
Ordered == {i \in ChannelIndexes : Kinds[i] = ReliableOrdered}

ASSUME PairAssumption ==
    /\ BufferBits \in Nat
    /\ Lifetime \in 1 .. Half
    /\ \A p \in Peers : MaxPackets(p) \in Nat
    /\ \A p \in Peers, i \in ChannelIndexes : MaxMessages(p, i) \in Nat

VARIABLES
    connection,      \* of each peer
    next_sequence,   \* of each endpoint, the sequence of its next packet
    network,         \* packets on their way
    received,        \* of each endpoint, the recent packets accepted
    acks,            \* of each endpoint, the acks get_acks returns
    reported,        \* of each endpoint, its recent packets once in acks
    ended,           \* the peers at which the session is over
    accepted,        \* of each peer and channel, how many messages were accepted
    delivered,       \* of each peer and ordered channel, how many were returned
    panicked         \* the panic that ended a program, or NoPanic

endpoints == <<next_sequence, network, received, acks, reported>>
vars == <<connection, next_sequence, network, received, acks, reported, ended,
          accepted, delivered, panicked>>

None == [p \in Peers |-> {}]
Zero == [p \in Peers |-> [i \in ChannelIndexes |-> 0]]

Init ==
    /\ connection = [p \in Peers |-> NewConnection]
    /\ next_sequence = [p \in Peers |-> 0]
    /\ network = {} /\ received = None /\ acks = None /\ reported = None
    /\ ended = {}
    /\ accepted = Zero /\ delivered = Zero
    /\ panicked = NoPanic

Running(p) == panicked = NoPanic /\ p \notin ended

-----------------------------------------------------------------------------
(* The application.  Messages are <<channel, number>>.                       *)

SendMessage(p, i) ==
    LET c == connection[p].channels[i]
        number == accepted[p][i] + 1
    IN  /\ Running(p)
        /\ c.error_level = "None"
        /\ ChannelCanSend(c) => number <= MaxMessages(p, i)
        /\ IF SendPanics(c)
           THEN panicked' = "send_message" /\ UNCHANGED <<connection, accepted>>
           ELSE /\ connection' = [connection EXCEPT ![p].channels[i] =
                                      ChannelSend(c, <<i, number>>)]
                /\ accepted' = IF ChannelCanSend(c)
                               THEN [accepted EXCEPT ![p][i] = number] ELSE accepted
                /\ UNCHANGED panicked
        /\ UNCHANGED <<endpoints, ended, delivered>>

ReceiveMessage(p, i) ==
    /\ Running(p)
    /\ ChannelCanReceive(connection[p].channels[i])
    /\ connection' = [connection EXCEPT ![p].channels[i] = ChannelReceive(@)]
    /\ delivered' = IF i \in Ordered
                    THEN [delivered EXCEPT ![p][i] = @ + 1] ELSE delivered
    /\ UNCHANGED <<endpoints, ended, accepted, panicked>>

-----------------------------------------------------------------------------
(* Packets.                                                                  *)

Fresh(next, sequence) == Behind(next, sequence) < Lifetime

Remembered(next, sequences) == {s \in sequences : Fresh(next, s)}

\* What is left on its way when p has sent a packet: its older ones are stale,
\* and so are their acks in the packets of the other.
OnItsWay(p, next) ==
    {k \in network : k.from = p /\ Fresh(next, k.sequence)}
        \cup {[k EXCEPT !.acks = Remembered(next, @)] :
                  k \in {n \in network : n.from # p}}

\* What generate_packet made is sent by p's endpoint, if it has data.
SendGenerated(p, packet) ==
    LET next == WrappingAdd(next_sequence[p], 1)
    IN  /\ connection' = [connection EXCEPT ![p] = packet.connection]
        /\ panicked' = packet.panic
        /\ IF packet.data = <<>> \/ packet.panic # NoPanic
           THEN UNCHANGED <<next_sequence, network, received, reported>>
           ELSE /\ next_sequence' = [next_sequence EXCEPT ![p] = next]
                /\ network' = OnItsWay(p, next)
                                \cup {[from |-> p, sequence |-> next_sequence[p],
                                       data |-> packet.data, acks |-> received[p]]}
                /\ received' = [received EXCEPT ![Other(p)] = Remembered(next, @)]
                /\ reported' = [reported EXCEPT ![p] = Remembered(next, @)]
        /\ UNCHANGED <<acks, ended, accepted, delivered>>

\* Bound: the acks waiting for advance_time are at most one packet older than
\* those still accepted.  The loop of the examples, which calls advance_time between
\* any two send_packets, stays within it.
AcksInTime(p) ==
    \A s \in acks[p] : Behind(WrappingAdd(next_sequence[p], 1), s) <= Lifetime

\* send_packets
SendPackets(p) ==
    /\ Running(p)
    /\ AcksInTime(p) /\ next_sequence[p] < MaxPackets(p)
    /\ SendGenerated(p, GeneratePacket(connection[p], next_sequence[p], BufferBits))

\* The endpoint of p takes in packet k if process_packet returned true for it.
TakeIn(p, k, result) ==
    LET new == k.acks \ reported[p]
    IN  /\ connection' = [connection EXCEPT ![p] = result.connection]
        /\ panicked' = result.panic
        /\ IF result.accepted
           THEN /\ received' = [received EXCEPT ![p] = @ \cup {k.sequence}]
                /\ acks' = [acks EXCEPT ![p] = @ \cup new]
                /\ reported' = [reported EXCEPT ![p] = @ \cup new]
           ELSE UNCHANGED <<received, acks, reported>>
        /\ UNCHANGED <<next_sequence, network, ended, accepted, delivered>>

\* receive_packets for one packet, of which a duplicate may still be on its way:
\* packets are delivered any number of times, or never, until they are stale.
DeliverPacket(k) ==
    LET p == Other(k.from)
    IN  /\ Running(p)
        /\ TakeIn(p, k, ProcessPacket(connection[p], k.sequence, k.data))

-----------------------------------------------------------------------------
(* Time and the end of a session.                                            *)

\* The session ends at p: the client drops its connection and its endpoint, the
\* server resets them.
EndAt(p, conn) ==
    /\ connection' = [connection EXCEPT
                          ![p] = IF p = "client" THEN NewConnection
                                                 ELSE ResetConnection(conn)]
    /\ ended' = ended \cup {p}
    /\ next_sequence' = [next_sequence EXCEPT ![p] = 0]
    /\ received' = [received EXCEPT ![p] = {}]
    /\ acks' = [acks EXCEPT ![p] = {}]
    /\ reported' = [reported EXCEPT ![p] = {}]
    /\ network' = {k \in network : k.from = p}
    /\ UNCHANGED <<accepted, delivered>>

\* Bug: clear_acks is forgotten.
HandleAcksKept(p, conn) ==
    LET ack(c, s) == ProcessConnectionAck(c, s)
    IN  /\ IF \E s \in acks[p] : ConnectionAckPanics(conn, s)
           THEN panicked' = "process_ack" /\ connection' = [connection EXCEPT ![p] = conn]
           ELSE /\ connection' = [connection EXCEPT
                                      ![p] = FoldLeft(ack, conn, SetToSeq(acks[p]))]
                /\ UNCHANGED panicked
        /\ UNCHANGED <<endpoints, ended, accepted, delivered>>

\* Bug: the acks are cleared before they are processed.
HandleAcksCleared(p, conn) ==
    /\ connection' = [connection EXCEPT ![p] = conn]
    /\ acks' = [acks EXCEPT ![p] = {}]
    /\ UNCHANGED <<next_sequence, network, received, reported, ended, accepted,
                   delivered, panicked>>

\* process_acks for all of get_acks, then clear_acks.
HandleAcks(p, conn) ==
    LET ack(c, s) == ProcessConnectionAck(c, s)
        order == SetToSeq(acks[p])
        before(n) == FoldLeft(ack, conn, SubSeq(order, 1, n - 1))
    IN  /\ IF \E n \in DOMAIN order : ConnectionAckPanics(before(n), order[n])
           THEN panicked' = "process_ack" /\ connection' = [connection EXCEPT ![p] = conn]
           ELSE /\ connection' = [connection EXCEPT ![p] = FoldLeft(ack, conn, order)]
                /\ UNCHANGED panicked
        /\ acks' = [acks EXCEPT ![p] = {}]
        /\ UNCHANGED <<next_sequence, network, received, reported, ended,
                       accepted, delivered>>

\* advance_time: an errored connection is disconnected before its acks are seen.
AdvanceTime(p) ==
    LET conn == AdvanceConnection(connection[p])
    IN  /\ Running(p)
        /\ IF conn.error_level # "None"
           THEN EndAt(p, conn) /\ UNCHANGED panicked
           ELSE HandleAcks(p, conn)

\* netcode tells p that the other is gone; nothing of p is lost that the other
\* could still have received.
Disconnected(p) ==
    /\ Running(p)
    /\ Other(p) \in ended
    /\ EndAt(p, connection[p])
    /\ UNCHANGED panicked

\* A client connects again to the slot of the server.
Reconnect ==
    /\ panicked = NoPanic /\ ended = Peers
    /\ ended' = {}
    /\ network' = {}
    /\ accepted' = Zero /\ delivered' = Zero
    /\ UNCHANGED <<connection, next_sequence, received, acks, reported, panicked>>

Next ==
    \/ \E p \in Peers, i \in ChannelIndexes : SendMessage(p, i)
    \/ \E p \in Peers, i \in ChannelIndexes : ReceiveMessage(p, i)
    \/ \E p \in Peers : SendPackets(p)
    \/ \E k \in network : DeliverPacket(k)
    \/ \E p \in Peers : AdvanceTime(p)
    \/ \E p \in Peers : Disconnected(p)
    \/ Reconnect

Spec == Init /\ [][Next]_vars

-----------------------------------------------------------------------------
(* Safety.                                                                   *)

IdOf(n) == (n - 1) % Modulus

InSendQueue(p, i, n) ==
    LET q == connection[p].channels[i].processor.message_send_queue
    IN  Exists(q, IdOf(n)) /\ Get(q, IdOf(n)).message = <<i, n>>

InReceiveQueue(p, i, n) ==
    LET q == connection[p].channels[i].processor.message_receive_queue
    IN  Exists(q, IdOf(n)) /\ Get(q, IdOf(n)) = <<i, n>>

\* The channels keep their kinds and bounds, and no counter leaves its range.
TypeOK ==
    /\ \A p \in Peers :
          /\ next_sequence[p] \in SeqNum
          /\ acks[p] \cup reported[p] \cup received[p] \subseteq SeqNum
          /\ \A i \in ChannelIndexes :
                LET c == connection[p].channels[i]
                IN  /\ c.kind = Kinds[i]
                    /\ c.error_level \in {"None", "SendQueueFull"}
                    /\ accepted[p][i] <= MaxMessages(p, i)
                    /\ ~IsReliable(c) =>
                          /\ Len(c.processor.message_send_queue) <= SendQueueSize
                          /\ Len(c.processor.message_receive_queue) <= ReceiveQueueSize
    /\ Cardinality(network) <= 2 * Lifetime

\* As long as a session lasts no message accepted on a reliable channel is
\* lost: it is in the send queue until it is in the other's receive queue, also
\* when a channel in an error state takes nothing in, when a packet is taken in
\* by its first channels only, and when it comes twice.
NothingLost ==
    ended = {} =>
        \A p \in Peers, i \in Ordered :
            \A n \in delivered[Other(p)][i] + 1 .. accepted[p][i] :
                InSendQueue(p, i, n) \/ InReceiveQueue(Other(p), i, n)

\* On a reliable channel the message to come out next is the first accepted
\* and not delivered, in every session.
NextInOrder ==
    \A p \in Peers, i \in Ordered :
        LET c == connection[p].channels[i]
        IN  ChannelCanReceive(c) => ChannelNext(c) = <<i, delivered[p][i] + 1>>

\* What waits in a receive queue of an unreliable channel was accepted by the
\* other peer on that channel in this session.
NothingInvented ==
    \A p \in Peers, i \in ChannelIndexes \ Ordered :
        LET queue == connection[p].channels[i].processor.message_receive_queue
        IN  \A k \in DOMAIN queue :
                /\ queue[k].message[1] = i
                /\ queue[k].message[2] \in 1 .. accepted[Other(p)][i]

\* The only panic is the desync of a peer that leaves messages of a reliable channel in
\* its receive queue; no assertion fails.
PanicsOnlyIfUndrained ==
    panicked # NoPanic =>
        /\ panicked = "desync (1)"
        /\ \E p \in Peers, i \in Ordered : ChannelCanReceive(connection[p].channels[i])

-----------------------------------------------------------------------------
(* Liveness.                                                                 *)

Unacked(p) ==
    \E i \in Ordered : HasMessagesToSend(connection[p].channels[i].processor)

\* A channel has a message that send_packets would send.
Due(p, i) ==
    LET r == connection[p].channels[i].processor
    IN  \E id \in ToSet(Candidates(r)) :
            /\ Exists(r.message_send_queue, id)
            /\ Get(r.message_send_queue, id).waited >= ResendTicks

\* advance_time would find an error.
Fails(p) == AdvanceConnection(connection[p]).error_level # "None"

Healthy(p) == Running(p) /\ ErroredChannels(connection[p]) = {}

\* AdvanceTime, SendPackets and DeliverPacket by what they alone change.
EndsErrored(p) == Running(p) /\ Fails(p) /\ ended' = ended \cup {p}

NoticesEnd(p) == Running(p) /\ Other(p) \in ended /\ ended' = ended \cup {p}

HandlesAcks(p) ==
    /\ Running(p) /\ ~Fails(p) /\ acks[p] # {}
    /\ acks' = [acks EXCEPT ![p] = {}]

Sends(p) ==
    /\ Healthy(p) /\ AcksInTime(p) /\ next_sequence[p] < MaxPackets(p)
    /\ \E i \in Ordered : Due(p, i)
    /\ next_sequence' = [next_sequence EXCEPT ![p] = WrappingAdd(@, 1)]

TakesIn(p) ==
    \E k \in network :
        /\ Healthy(p) /\ k.from # p
        /\ received' = [received EXCEPT ![p] = @ \cup {k.sequence}]

HearsAcks(p) ==
    \E k \in network :
        /\ Healthy(p) /\ k.from # p /\ k.acks \ reported[p] # {}
        /\ acks' = [acks EXCEPT ![p] = @ \cup (k.acks \ reported[p])]

\* The programs call advance_time and send_packets for ever (the loop of the
\* README) and netcode notices the end of a session.  If packets are sent for
\* ever some arrive; if some arrive for ever some are acknowledged before they
\* are stale; and some of the acknowledgements arrive before the packets they
\* are for are stale: a round trip is shorter than Lifetime packets.
Fairness ==
    \A p \in Peers :
       /\ WF_ended(EndsErrored(p))
       /\ WF_ended(NoticesEnd(p))
       /\ WF_acks(HandlesAcks(p))
       /\ WF_next_sequence(Sends(p))
       /\ SF_received(TakesIn(p))
       /\ SF_next_sequence(received[p] # {} /\ Sends(p))
       /\ SF_acks(HearsAcks(p))

FairSpec == Spec /\ Fairness

\* An error of any channel ends the session at both peers.
ErrorEndsSession ==
    \A p \in Peers : ErroredChannels(connection[p]) # {} ~>
                         panicked # NoPanic \/ ended = Peers

\* While both peers have messages unacked their packets carry each other's
\* acks: one of the two gets everything through.
OneGetsThrough ==
    Unacked("client") /\ Unacked("server")
        ~> ~Unacked("client") \/ ~Unacked("server")
           \/ ended # {} \/ panicked # NoPanic
==============================================================================
