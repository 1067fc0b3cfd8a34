------------------------------ MODULE ServerProofs ------------------------------
(***************************************************************************)
(* The safety properties of Server, for any number of slots and every       *)
(* configuration with unreliable channels.  Everything in a slot is typed by *)
(* the number of the client that has the slot or comes next: its connection  *)
(* has only messages of that client, and the simulator only packets for      *)
(* clients that are there.                                                   *)
(***************************************************************************)
EXTENDS Server, OperatorLemmas

\* The numbers clients are known by.
Numbers == 0 .. ClientNumbers - 1

\* Connections with messages of the clients of these numbers, slot by slot.
ConnectionsFor(numbers) ==
    {f \in [Slots -> UNION {Connections({numbers[i]}) : i \in Slots}] :
        \A i \in Slots : f[i] \in Connections({numbers[i]})}

\* Packets for the clients that are present.
PacketsFor(n) == [client : {n}, data : DataOf({n})]
\* What may be handed to netcode for slot i while it has client n.
TransmissionsTo(i, n) == [client_index : {i}, packet : PacketsFor(n)]
\* What may wait in the simulator for slot i while it has client n.
EntriesTo(i, n) == [client_index : {i}, packet : PacketsFor(n), consumed : BOOLEAN]
\* What may be handed to netcode while the clients in `present` are there.
Transmissions(present, numbers) == UNION {TransmissionsTo(i, numbers[i]) : i \in present}
\* What may wait in the simulator while the clients in `present` are there.
Entries(present, numbers) == UNION {EntriesTo(i, numbers[i]) : i \in present}

\* The inductive invariant, in parts.
Shapes ==
    /\ running \in BOOLEAN /\ panicked \in BOOLEAN
    /\ connected \in SUBSET Slots
    /\ client \in [Slots -> Numbers]

\* Each slot's connection has messages of its client only.
OwnConnections == connection \in ConnectionsFor(client)
\* The simulator has packets for clients that are there only.
OwnPackets == simulator \in Simulators(Entries(connected, client))
\* What was handed to netcode is for clients that are there only.
OwnTransmitted == transmitted \in SUBSET Transmissions(connected, client)

\* The inductive invariant.
IInv ==
    /\ Shapes
    /\ OwnConnections
    /\ OwnPackets
    /\ OwnTransmitted

-----------------------------------------------------------------------------
(* Helpers.                                                                  *)

\* The assumptions are those of OperatorLemmas.
LEMMA ServerChannels == AllUnreliable
BY ServerAssumption DEF AllUnreliable

\* The messages of a client have sizes.
LEMMA NumbersMeasured ==
  ASSUME NEW n \in Numbers
  PROVE  MeasuredMessages({n})
BY ServerAssumption DEF MeasuredMessages, Numbers

\* The next client's number is a number.
LEMMA NextClientNumber ==
  ASSUME NEW n \in Numbers
  PROVE  (n + 1) % ClientNumbers \in Numbers
<1> DEFINE a == n + 1
<1>1. a \in Int /\ ClientNumbers \in Nat /\ ClientNumbers > 0
  BY ServerAssumption DEF Numbers
<1> HIDE DEF a
<1>2. a % ClientNumbers \in 0 .. ClientNumbers - 1
  BY <1>1
<1> QED
  BY <1>2 DEF a, Numbers

\* Slots whose clients are gone get the next number, the others keep theirs.
LEMMA NextClientsGood ==
  ASSUME NEW gone, client \in [Slots -> Numbers]
  PROVE  /\ NextClients(gone) \in [Slots -> Numbers]
         /\ \A i \in Slots : i \notin gone => NextClients(gone)[i] = client[i]
BY NextClientNumber DEF NextClients

\* The connections, slot by slot.
LEMMA ConnectionsAre ==
  ASSUME NEW numbers, NEW f \in ConnectionsFor(numbers)
  PROVE  /\ DOMAIN f = Slots
         /\ \A i \in Slots : f[i] \in Connections({numbers[i]})
BY DEF ConnectionsFor

\* And back.
LEMMA ConnectionsMade ==
  ASSUME NEW numbers, NEW f, f = [i \in Slots |-> f[i]],
         \A i \in Slots : f[i] \in Connections({numbers[i]})
  PROVE  f \in ConnectionsFor(numbers)
BY DEF ConnectionsFor

\* The connections with another one in a slot.
LEMMA ConnectionsWith ==
  ASSUME NEW numbers, NEW f \in ConnectionsFor(numbers), NEW i \in Slots,
         NEW conn \in Connections({numbers[i]})
  PROVE  [f EXCEPT ![i] = conn] \in ConnectionsFor(numbers)
BY DEF ConnectionsFor

\* An entry's packet is for the client of the slot it names.
LEMMA EntryFields ==
  ASSUME NEW present, NEW numbers, NEW e \in Entries(present, numbers)
  PROVE  /\ e.client_index \in present
         /\ e \in EntriesTo(e.client_index, numbers[e.client_index])
         /\ e.packet \in PacketsFor(numbers[e.client_index])
         /\ e.consumed \in BOOLEAN
<1>1. PICK i \in present : e \in EntriesTo(i, numbers[i])
  BY DEF Entries
<1>2. e.client_index = i /\ e.packet \in PacketsFor(numbers[i]) /\ e.consumed \in BOOLEAN
  BY <1>1 DEF EntriesTo
<1> QED
  BY <1>1, <1>2

\* So is a transmission's.
LEMMA TransmissionOf ==
  ASSUME NEW present, NEW numbers, NEW t \in Transmissions(present, numbers)
  PROVE  /\ t.client_index \in present
         /\ t.packet \in PacketsFor(numbers[t.client_index])
<1>1. PICK i \in present : t \in TransmissionsTo(i, numbers[i])
  BY DEF Transmissions
<1>2. t.client_index = i /\ t.packet \in PacketsFor(numbers[i])
  BY <1>1 DEF TransmissionsTo
<1> QED
  BY <1>2

\* A packet for the client of slot i makes a transmission to it.
LEMMA TransmissionMade ==
  ASSUME NEW present, NEW numbers, NEW i \in present, NEW packet \in PacketsFor(numbers[i])
  PROVE  Transmission(i, packet) \in Transmissions(present, numbers)
<1>1. Transmission(i, packet) \in TransmissionsTo(i, numbers[i])
  BY DEF Transmission, TransmissionsTo
<1> QED
  BY <1>1 DEF Transmissions

\* Entries are of the kind the simulator takes.
LEMMA EntriesQueueable ==
  ASSUME NEW present, NEW numbers
  PROVE  Queueable(Entries(present, numbers))
<1>1. ASSUME NEW e \in Entries(present, numbers)
      PROVE  e.consumed \in BOOLEAN /\ [e EXCEPT !.consumed = TRUE] \in Entries(present, numbers)
  <2> DEFINE i == e.client_index
             P == PacketsFor(numbers[i])
  <2>1. i \in present /\ e \in EntriesTo(i, numbers[i])
    BY EntryFields
  <2>2. e \in [client_index : {i}, packet : P, consumed : BOOLEAN]
    BY <2>1 DEF EntriesTo
  <2> HIDE DEF i, P
  <2>3. /\ e.consumed \in BOOLEAN
        /\ [e EXCEPT !.consumed = TRUE] \in [client_index : {i}, packet : P, consumed : BOOLEAN]
    BY <2>2
  <2>4. [e EXCEPT !.consumed = TRUE] \in EntriesTo(i, numbers[i])
    BY <2>3 DEF EntriesTo, P
  <2> QED
    BY <2>1, <2>3, <2>4 DEF Entries
<1> QED
  BY <1>1 DEF Queueable

\* So are those left when some clients have gone.
LEMMA PresentQueueable ==
  ASSUME NEW present, NEW numbers, NEW gone
  PROVE  Queueable({e \in Entries(present, numbers) : e.client_index \notin gone})
<1> DEFINE E == Entries(present, numbers)
<1>1. Queueable(E)
  BY EntriesQueueable
<1>2. \A e \in E : [e EXCEPT !.consumed = TRUE].client_index = e.client_index
  <2> TAKE e \in E
  <2> DEFINE P == PacketsFor(numbers[e.client_index])
             i == e.client_index
  <2>1. e \in [client_index : {i}, packet : P, consumed : BOOLEAN]
    BY EntryFields DEF E, EntriesTo
  <2> HIDE DEF P, i
  <2>2. [e EXCEPT !.consumed = TRUE].client_index = i
    BY <2>1
  <2> QED
    BY <2>2 DEF i
<1> HIDE DEF E
<1>3. Queueable({e \in E : e.client_index \notin gone})
  BY <1>1, <1>2 DEF Queueable
<1> QED
  BY <1>3 DEF E

\* Entries for clients that are still there are entries as before.
LEMMA EntriesLeft ==
  ASSUME NEW present, NEW numbers, NEW gone, NEW next, NEW others,
         \A i \in present \ gone : i \in next /\ others[i] = numbers[i]
  PROVE  {e \in Entries(present, numbers) : e.client_index \notin gone}
             \in SUBSET Entries(next, others)
<1>1. ASSUME NEW e \in Entries(present, numbers), e.client_index \notin gone
      PROVE  e \in Entries(next, others)
  <2> DEFINE i == e.client_index
  <2>1. i \in present \ gone /\ e \in EntriesTo(i, numbers[i])
    BY <1>1, EntryFields
  <2> HIDE DEF i
  <2>2. i \in next /\ e \in EntriesTo(i, others[i])
    BY <2>1
  <2> QED
    BY <2>2 DEF Entries
<1> QED
  BY <1>1

-----------------------------------------------------------------------------
(* Folds over the slots.                                                     *)

\* The loops go through the slots in the order of their numbers.
LEMMA Order ==
  /\ SlotOrder \in Seq(Slots) /\ Len(SlotOrder) = MaxClients /\ MaxClients \in Nat
  /\ \A k \in 1 .. MaxClients : SlotOrder[k] = k - 1
<1> DEFINE n == MaxClients
<1>1. n \in Nat /\ \A k \in 1 .. n : k - 1 \in Slots
  BY ServerAssumption DEF Slots
<1> HIDE DEF n
<1>2. [k \in 1 .. n |-> k - 1] \in Seq(Slots)
  BY <1>1
<1> QED
  BY <1>1, <1>2 DEF SlotOrder, n

\* One round of the loop over disconnected clients, as an operator FoldTheory
\* takes.
DropPacketsOf(gone, unused, sim, i) == DropPackets(gone, sim, i)

\* The loop that discards the packets of disconnected clients.
Drops == INSTANCE FoldTheory WITH Op <- DropPacketsOf

\* handle_connect_disconnect leaves no packet for a client that has gone.
LEMMA DropsGood ==
  ASSUME NEW E, NEW gone \in SUBSET Slots, NEW sim \in Simulators(E),
         \A e \in E : e.client_index \in Slots
  PROVE  LET drop(s, i) == DropPackets(gone, s, i)
         IN  FoldLeft(drop, sim, SlotOrder)
                 \in Simulators({e \in E : e.client_index \notin gone})
<1> DEFINE F(k) == {e \in E : e.client_index \notin gone \cap 0 .. k - 1}
           D == Simulators(E)
           Inv == [k \in 0 .. MaxClients |-> Simulators(F(k))]
           folded == Drops!Fold(gone, gone, sim, SlotOrder)
<1>1. \A k \in Int : F(k) \in SUBSET E
  OBVIOUS
<1>2. ASSUME NEW d \in D, NEW i \in Slots
      PROVE  DropPacketsOf(gone, gone, d, i) \in D
  <2>1. DiscardClientPackets(d, i) \in Simulators({e \in E : e.client_index # i})
    BY DiscardClientGood
  <2>2. DiscardClientPackets(d, i) \in D
    BY <2>1, SimulatorsGrow
  <2> QED
    BY <2>2 DEF DropPacketsOf, DropPackets
<1>3. sim \in Inv[0]
  <2>1. F(0) = E
    OBVIOUS
  <2>2. Inv[0] = Simulators(F(0))
    BY Order
  <2> HIDE DEF Inv, F
  <2> QED
    BY <2>1, <2>2
<1>4. ASSUME NEW k \in 1 .. MaxClients, NEW d \in D, d \in Inv[k - 1]
      PROVE  DropPacketsOf(gone, gone, d, SlotOrder[k]) \in Inv[k]
  <2> DEFINE i == k - 1
  <2>1. SlotOrder[k] = i /\ i \in 0 .. MaxClients /\ k \in 0 .. MaxClients /\ k \in Int
    BY Order
  <2>2. d \in Simulators(F(i))
    BY <1>4, <2>1
  <2>3. ASSUME NEW e \in E, e.client_index \in gone \cap 0 .. k - 1
        PROVE  \/ e.client_index \in gone \cap 0 .. i - 1
               \/ e.client_index = i /\ i \in gone
    <3> DEFINE x == e.client_index
    <3>1. x \in 0 .. k - 1 /\ x \in gone
      BY <2>3
    <3> HIDE DEF x
    <3>2. x \in 0 .. i - 1 \/ x = i
      BY <2>1, <3>1
    <3> QED
      BY <3>1, <3>2 DEF x
  <2>4. {e \in F(i) : e.client_index # i} \in SUBSET F(k)
    BY <2>3
  <2>5. i \notin gone => F(i) \in SUBSET F(k)
    BY <2>3
  <2> HIDE DEF i, F, D
  <2>6. CASE i \in gone
    <3>1. DiscardClientPackets(d, i) \in Simulators({e \in F(i) : e.client_index # i})
      BY <2>2, DiscardClientGood
    <3>2. DiscardClientPackets(d, i) \in Simulators(F(k))
      BY <2>4, <3>1, SimulatorsGrow
    <3> QED
      BY <2>1, <2>6, <3>2 DEF DropPacketsOf, DropPackets
  <2>7. CASE i \notin gone
    <3>1. d \in Simulators(F(k))
      BY <2>2, <2>5, <2>7, SimulatorsGrow
    <3> QED
      BY <2>1, <2>7, <3>1 DEF DropPacketsOf, DropPackets
  <2> QED
    BY <2>6, <2>7
<1>5. sim \in D
  OBVIOUS
<1>6. folded \in Inv[MaxClients]
  <2> HIDE DEF D, Inv
  <2> QED
    BY <1>2, <1>3, <1>4, <1>5, Order, Drops!FoldKeeps
<1>7. F(MaxClients) = {e \in E : e.client_index \notin gone}
  BY DEF Slots
<1>8. folded \in Simulators({e \in E : e.client_index \notin gone})
  <2>1. Inv[MaxClients] = Simulators(F(MaxClients))
    BY Order
  <2> HIDE DEF folded, Inv, F
  <2> QED
    BY <1>6, <1>7, <2>1
<1>9. FoldLeft(LAMBDA s, i : DropPackets(gone, s, i), sim, SlotOrder) = folded
  BY DEF DropPacketsOf, FoldLeft, MapThenFoldSet, Max, Drops!Fold,
         Drops!FoldLeft, Drops!MapThenFoldSet, Drops!Max
<1> HIDE DEF folded
<1> QED
  BY <1>8, <1>9

\* What handle_connect_disconnect makes of the connections and the simulator.
LEMMA HandleDisconnectGood ==
  ASSUME NEW E, NEW gone \in SUBSET Slots, NEW sim \in Simulators(E),
         \A e \in E : e.client_index \in Slots, NEW conns
  PROVE  LET after == HandleDisconnect([connection |-> conns, simulator |-> sim], gone)
         IN  /\ after.connection = [i \in Slots |-> IF i \in gone THEN ResetConnection(conns[i])
                                                                ELSE conns[i]]
             /\ after.simulator \in Simulators({e \in E : e.client_index \notin gone})
BY DropsGood DEF HandleDisconnect

-----------------------------------------------------------------------------
(* The steps.                                                                *)

\* The invariant holds initially.
LEMMA InitGood == Init => IInv
<1> SUFFICES ASSUME Init PROVE IInv
  OBVIOUS
<1>1. client \in [Slots -> Numbers]
  BY ServerAssumption DEF Init, Numbers
<1>2. Shapes
  BY <1>1 DEF Init, Shapes
<1>3. OwnConnections
  <2>1. \A i \in Slots : NewConnection \in Connections({client[i]})
    BY ServerChannels, NewConnectionGood
  <2> QED
    BY <2>1, ConnectionsMade DEF Init, NoConnections, OwnConnections
<1>4. OwnPackets /\ OwnTransmitted
  BY NewSimulatorGood DEF Init, OwnPackets, OwnTransmitted
<1> QED
  BY <1>2, <1>3, <1>4 DEF IInv

\* Stop and start keep the invariant.
LEMMA RestartKeeps ==
  ASSUME IInv, NEW starts \in BOOLEAN, Restart(starts)
  PROVE  IInv'
<1>1. /\ running' = starts /\ connected' = {} /\ connection' = NoConnections
      /\ simulator' = NewSimulator /\ client' = NextClients(Slots)
      /\ transmitted' = {} /\ panicked' = panicked
  BY DEF Restart
<1>2. client' \in [Slots -> Numbers]
  BY <1>1, NextClientsGood DEF IInv, Shapes
<1>3. Shapes'
  BY <1>1, <1>2 DEF IInv, Shapes
<1>4. OwnConnections'
  <2>1. \A i \in Slots : NewConnection \in Connections({client'[i]})
    BY ServerChannels, NewConnectionGood
  <2> QED
    BY <1>1, <2>1, ConnectionsMade DEF NoConnections, OwnConnections
<1>5. OwnPackets' /\ OwnTransmitted'
  BY <1>1, NewSimulatorGood DEF OwnPackets, OwnTransmitted
<1> QED
  BY <1>3, <1>4, <1>5 DEF IInv

\* A step that only touches what one slot's connection holds.
LEMMA ContentsKeep ==
  ASSUME IInv, connection' \in ConnectionsFor(client), transmitted' = {},
         UNCHANGED <<running, connected, client, simulator, panicked>>
  PROVE  IInv'
BY DEF IInv, Shapes, OwnConnections, OwnPackets, OwnTransmitted

\* SendMessage keeps the invariant.
LEMMA NextSend ==
  ASSUME IInv, NEW i \in Slots, NEW c \in ChannelIndexes, SendMessage(i, c)
  PROVE  IInv'
<1> DEFINE conn == connection[i]
           next == [conn EXCEPT !.channels[c] = ChannelSend(conn.channels[c], client[i])]
<1>1. /\ connection' = [connection EXCEPT ![i].channels[c] = ChannelSend(@, client[i])]
      /\ transmitted' = {} /\ UNCHANGED <<running, connected, client, simulator, panicked>>
  BY DEF SendMessage
<1>2. connection \in ConnectionsFor(client) /\ conn \in Connections({client[i]})
  BY ConnectionsAre DEF IInv, OwnConnections
<1>3. next \in Connections({client[i]})
  BY <1>2, ConnectionSendKeeps
<1>4. connection' = [connection EXCEPT ![i] = next]
  BY <1>1
<1> HIDE DEF next
<1>5. connection' \in ConnectionsFor(client)
  BY <1>2, <1>3, <1>4, ConnectionsWith
<1> QED
  BY <1>1, <1>5, ContentsKeep

\* ReceiveMessage keeps the invariant.
LEMMA NextReceive ==
  ASSUME IInv, NEW i \in Slots, NEW c \in ChannelIndexes, ReceiveMessage(i, c)
  PROVE  IInv'
<1> DEFINE conn == connection[i]
           next == [conn EXCEPT !.channels[c] = ChannelReceive(conn.channels[c])]
<1>1. /\ ChannelCanReceive(conn.channels[c])
      /\ connection' = [connection EXCEPT ![i].channels[c] = ChannelReceive(@)]
      /\ transmitted' = {} /\ UNCHANGED <<running, connected, client, simulator, panicked>>
  BY DEF ReceiveMessage
<1>2. connection \in ConnectionsFor(client) /\ conn \in Connections({client[i]})
  BY ConnectionsAre DEF IInv, OwnConnections
<1>3. next \in Connections({client[i]})
  BY <1>1, <1>2, ConnectionReceiveKeeps
<1>4. connection' = [connection EXCEPT ![i] = next]
  BY <1>1
<1> HIDE DEF next
<1>5. connection' \in ConnectionsFor(client)
  BY <1>2, <1>3, <1>4, ConnectionsWith
<1> QED
  BY <1>1, <1>5, ContentsKeep

\* Configure keeps the invariant.
LEMMA NextConfigure ==
  ASSUME IInv, Configure
  PROVE  IInv'
<1> DEFINE E == Entries(connected, client)
<1>1. simulator \in Simulators(E)
  BY DEF IInv, OwnPackets
<1>2. PICK sim \in Simulators(E) : ConfigureSimulator(sim)
  <2>1. \A active \in BOOLEAN : SetActive(simulator, active) \in Simulators(E)
    BY <1>1, SetActiveGood
  <2>2. DiscardPackets(simulator) \in Simulators(E)
    BY <1>1, DiscardGood
  <2> HIDE DEF E
  <2> QED
    BY <2>1, <2>2 DEF Configure
<1>3. /\ simulator' = sim /\ transmitted' = {} /\ running' = running /\ panicked' = panicked
      /\ connected' = connected /\ connection' = connection /\ client' = client
  BY <1>2 DEF ConfigureSimulator, slots
<1> QED
  BY <1>3 DEF IInv, Shapes, OwnConnections, OwnPackets, OwnTransmitted

\* ReceivePackets keeps the invariant.
LEMMA NextReceivePackets ==
  ASSUME IInv, ReceivePackets
  PROVE  IInv'
<1> DEFINE data(i, c) == <<[channel_index |-> c, messages |-> <<client[i]>>]>>
<1>1. PICK arrived \in SUBSET connected \ {{}}, c \in ChannelIndexes :
         connection' = [i \in Slots |->
             IF i \in arrived THEN ProcessPacket(connection[i], 0, data(i, c)).connection
                              ELSE connection[i]]
  BY DEF ReceivePackets
<1>2. /\ transmitted' = {} /\ UNCHANGED <<running, connected, client, simulator, panicked>>
  BY DEF ReceivePackets
<1>3. ASSUME NEW i \in Slots
      PROVE  /\ connection[i] \in Connections({client[i]})
             /\ ProcessPacket(connection[i], 0, data(i, c)).connection \in Connections({client[i]})
  <2>1. connection[i] \in Connections({client[i]})
    BY ConnectionsAre DEF IInv, OwnConnections
  <2>2. data(i, c) \in DataOf({client[i]})
    BY DEF DataOf
  <2> QED
    BY <2>1, <2>2, ProcessPacketKeeps
<1> HIDE DEF data
<1>4. connection' = [i \in Slots |-> connection'[i]]
      /\ \A i \in Slots : connection'[i] \in Connections({client[i]})
  BY <1>1, <1>3
<1>5. connection' \in ConnectionsFor(client)
  BY <1>4, ConnectionsMade
<1> QED
  BY <1>2, <1>5, ContentsKeep

-----------------------------------------------------------------------------
(* send_packets.                                                             *)

\* The state of send_packets' loop.
Sendings ==
    [connection : ConnectionsFor(client), simulator : Simulators(Entries(connected, client)),
     transmitted : SUBSET Transmissions(connected, client), panicked : BOOLEAN]

\* One round of send_packets hands out packets for the round's client only.
LEMMA SendToKeeps ==
  ASSUME client \in [Slots -> Numbers], NEW copies \in [Slots -> Copies],
         NEW state \in Sendings, NEW i \in Slots
  PROVE  SendTo(copies, state, i) \in Sendings
<1> DEFINE conn == state.connection[i]
           generated == GeneratePacket(conn, 0, BufferBits)
           packet == Packet(i, generated.data)
           sent == [state EXCEPT !.connection[i] = generated.connection]
           sim == state.simulator
           E == Entries(connected, client)
<1>1. /\ state.connection \in ConnectionsFor(client) /\ sim \in Simulators(E)
      /\ state.transmitted \in SUBSET Transmissions(connected, client)
      /\ state.panicked \in BOOLEAN
  BY DEF Sendings
<1>2. conn \in Connections({client[i]}) /\ MeasuredMessages({client[i]}) /\ BufferBits \in Int
  BY <1>1, ConnectionsAre, NumbersMeasured, ServerAssumption
<1>3. /\ generated.connection \in Connections({client[i]})
      /\ generated.data \in DataOf({client[i]})
  BY <1>2, GeneratePacketKeepsMessages
<1>4. packet \in PacketsFor(client[i])
  BY <1>3 DEF Packet, PacketsFor
<1> HIDE DEF generated
<1>5. sent \in Sendings /\ sent.simulator = sim /\ sent.transmitted = state.transmitted
  <2>1. [state.connection EXCEPT ![i] = generated.connection] \in ConnectionsFor(client)
    BY <1>1, <1>3, ConnectionsWith
  <2> DEFINE conns == [state.connection EXCEPT ![i] = generated.connection]
  <2>2. sent = [state EXCEPT !.connection = conns]
    BY DEF Sendings
  <2> HIDE DEF conns, sent
  <2> QED
    BY <2>1, <2>2 DEF Sendings, conns
<1>6. ASSUME i \in connected
      PROVE  TransmitPacket(sent, i, packet, copies[i]) \in Sendings
  <2>1. CASE sim.active
    <3>1. [client_index |-> i, packet |-> packet, consumed |-> FALSE] \in E
      <4>1. [client_index |-> i, packet |-> packet, consumed |-> FALSE]
               \in EntriesTo(i, client[i])
        BY <1>4 DEF EntriesTo
      <4> QED
        BY <1>6, <4>1 DEF Entries
    <3>2. copies[i] \in Copies
      OBVIOUS
    <3> HIDE DEF E, packet, sim
    <3>3. SimulatorSend(sim, i, packet, copies[i]) \in Simulators(E)
      BY <1>1, <2>1, <3>1, <3>2, SimulatorSendGood
    <3> DEFINE after == SimulatorSend(sim, i, packet, copies[i])
    <3>4. TransmitPacket(sent, i, packet, copies[i]) = [sent EXCEPT !.simulator = after]
      BY <1>5, <2>1 DEF TransmitPacket
    <3> HIDE DEF after, sent
    <3> QED
      BY <1>5, <3>3, <3>4 DEF Sendings, after, E
  <2>2. CASE ~sim.active
    <3>1. Transmission(i, packet) \in Transmissions(connected, client)
      BY <1>4, <1>6, TransmissionMade
    <3> HIDE DEF E, packet, sim
    <3> DEFINE all == state.transmitted \cup {Transmission(i, packet)}
    <3>2. TransmitPacket(sent, i, packet, copies[i]) = [sent EXCEPT !.transmitted = all]
      BY <1>5, <2>2 DEF TransmitPacket
    <3>3. all \in SUBSET Transmissions(connected, client)
      BY <1>1, <3>1
    <3> HIDE DEF all, sent
    <3> QED
      BY <1>5, <3>2, <3>3 DEF Sendings
  <2> QED
    BY <2>1, <2>2
<1>7. [sent EXCEPT !.panicked = TRUE] \in Sendings
  <2> HIDE DEF sent
  <2> QED
    BY <1>5 DEF Sendings
<1>8. \/ SendTo(copies, state, i) = state
      \/ /\ i \in connected
         /\ SendTo(copies, state, i) \in {sent, [sent EXCEPT !.panicked = TRUE],
                                          TransmitPacket(sent, i, packet, copies[i])}
  BY DEF SendTo, SendGenerated, generated
<1> HIDE DEF sent, packet
<1> QED
  BY <1>5, <1>6, <1>7, <1>8

\* The round, as an operator FoldTheory takes.
SendToOf(copies, unused, state, i) == SendTo(copies, state, i)

\* The loop of send_packets.
Sends == INSTANCE FoldTheory WITH Op <- SendToOf

\* SendPackets keeps the invariant.
LEMMA NextSendPackets ==
  ASSUME IInv, SendPackets
  PROVE  IInv'
<1> DEFINE base == [connection |-> connection, simulator |-> simulator,
                    transmitted |-> {}, panicked |-> FALSE]
           done(copies) == Sends!Fold(copies, copies, base, SlotOrder)
<1>1. PICK copies \in [Slots -> Copies] :
         /\ connection' = done(copies).connection /\ simulator' = done(copies).simulator
         /\ transmitted' = done(copies).transmitted /\ panicked' = done(copies).panicked
  BY DEF SendPackets, SendToOf, FoldLeft, MapThenFoldSet, Max, Sends!Fold,
         Sends!FoldLeft, Sends!MapThenFoldSet, Sends!Max
<1>2. running' = running /\ connected' = connected /\ client' = client
  BY DEF SendPackets
<1>3. client \in [Slots -> Numbers]
  BY DEF IInv, Shapes
<1>4. base \in Sendings
  BY DEF Sendings, IInv, OwnConnections, OwnPackets
<1>5. \A d \in Sendings, i \in Slots : SendToOf(copies, copies, d, i) \in Sendings
  BY <1>3, SendToKeeps DEF SendToOf
<1> HIDE DEF base
<1>6. done(copies) \in Sendings
  BY <1>4, <1>5, Order, Sends!FoldStays
<1> DEFINE s == done(copies)
<1>7. /\ connection' = s.connection /\ simulator' = s.simulator
      /\ transmitted' = s.transmitted /\ panicked' = s.panicked /\ s \in Sendings
  BY <1>1, <1>6
<1> HIDE DEF done, s
<1> QED
  BY <1>2, <1>7 DEF IInv, Shapes, OwnConnections, OwnPackets, OwnTransmitted, Sendings

-----------------------------------------------------------------------------
(* Clients that go, and advance_time.                                        *)

\* What the simulator holds for clients that are there is for slots.
LEMMA EntriesForSlots ==
  ASSUME NEW present \in SUBSET Slots, NEW numbers, NEW e \in Entries(present, numbers)
  PROVE  e.client_index \in Slots
BY EntryFields

\* DisconnectClient keeps the invariant.
LEMMA NextDisconnectClient ==
  ASSUME IInv, NEW i \in Slots, DisconnectClient(i)
  PROVE  IInv'
<1> DEFINE after == HandleDisconnect([connection |-> connection, simulator |-> simulator], {i})
           E == Entries(connected, client)
<1>1. /\ connection' = after.connection /\ simulator' = after.simulator
      /\ connected' = connected \ {i} /\ client' = NextClients({i})
      /\ transmitted' = {} /\ running' = running /\ panicked' = panicked
  BY DEF DisconnectClient
<1>2. simulator \in Simulators(E) /\ {i} \in SUBSET Slots /\ \A e \in E : e.client_index \in Slots
  BY EntriesForSlots DEF IInv, OwnPackets, Shapes
<1>3. /\ after.connection = [j \in Slots |-> IF j \in {i} THEN ResetConnection(connection[j])
                                                        ELSE connection[j]]
      /\ after.simulator \in Simulators({e \in E : e.client_index \notin {i}})
  <2> HIDE DEF E
  <2> QED
    BY <1>2, HandleDisconnectGood
<1> HIDE DEF after
<1>4. /\ client' \in [Slots -> Numbers]
      /\ \A j \in Slots : j \notin {i} => client'[j] = client[j]
  BY <1>1, NextClientsGood DEF IInv, Shapes
<1>5. Shapes'
  BY <1>1, <1>4 DEF IInv, Shapes
<1>6. OwnConnections'
  <2>1. ASSUME NEW j \in Slots
        PROVE  connection'[j] \in Connections({client'[j]})
    <3>1. connection[j] \in Connections({client[j]})
      BY ConnectionsAre DEF IInv, OwnConnections
    <3>2. ResetConnection(connection[j]) \in Connections({client'[j]})
      BY <3>1, ResetConnectionGood
    <3> QED
      BY <1>1, <1>3, <1>4, <3>1, <3>2
  <2>2. connection' = [j \in Slots |-> connection'[j]]
    BY <1>1, <1>3
  <2> QED
    BY <2>1, <2>2, ConnectionsMade DEF OwnConnections
<1>7. OwnPackets'
  <2>1. {e \in E : e.client_index \notin {i}} \in SUBSET Entries(connected', client')
    <3>1. \A j \in connected \ {i} : j \in connected' /\ client'[j] = client[j]
      BY <1>1, <1>4 DEF IInv, Shapes
    <3> QED
      BY <3>1, EntriesLeft
  <2> QED
    BY <1>1, <1>3, <2>1, SimulatorsGrow DEF OwnPackets
<1>8. OwnTransmitted'
  BY <1>1 DEF OwnTransmitted
<1> QED
  BY <1>5, <1>6, <1>7, <1>8 DEF IInv

\* What is due is for the clients that are there.
LEMMA FlushGood ==
  ASSUME NEW present, NEW numbers, NEW sim \in Simulators(Entries(present, numbers)),
         Flush(sim), panicked \in BOOLEAN
  PROVE  /\ simulator' \in Simulators(Entries(present, numbers))
         /\ transmitted' \in SUBSET Transmissions(present, numbers)
         /\ panicked' \in BOOLEAN
<1> DEFINE E == Entries(present, numbers)
<1>1. CASE ~sim.active \/ ReceiveAsserts(sim)
  BY <1>1 DEF Flush
<1>2. CASE sim.active /\ ~ReceiveAsserts(sim)
  <2>1. PICK due \in SUBSET DOMAIN sim.entries :
           /\ simulator' = SimulatorReceive(sim, due)
           /\ transmitted' = {Transmission(sim.entries[k].client_index,
                                           sim.entries[k].packet) : k \in due}
           /\ UNCHANGED panicked
    BY <1>2 DEF Flush
  <2>2. SimulatorReceive(sim, due) \in Simulators(E)
    BY EntriesQueueable, SimulatorReceiveGood
  <2>3. ASSUME NEW k \in due
        PROVE  Transmission(sim.entries[k].client_index, sim.entries[k].packet)
                   \in Transmissions(present, numbers)
    <3> DEFINE e == sim.entries[k]
    <3>1. e \in E
      BY SimulatorFields
    <3> HIDE DEF e
    <3>2. Transmission(e.client_index, e.packet) \in Transmissions(present, numbers)
      BY <3>1, EntryFields, TransmissionMade
    <3> QED
      BY <3>2 DEF e
  <2> QED
    BY <2>1, <2>2, <2>3
<1> QED
  BY <1>1, <1>2

\* The whole of advance_time: the invariant, and that no client stays in a slot
\* with an error.
LEMMA NextAdvance ==
  ASSUME IInv, AdvanceTime
  PROVE  /\ IInv'
         /\ \A i \in connected' : ErroredChannels(connection'[i]) = {}
<1>1. PICK left \in SUBSET Slots, now \in SUBSET Slots :
         LET updated(state) ==
                 AdvanceSlots([i \in Slots |-> AdvanceConnection(state.connection[i])],
                              state.simulator, now, left)
         IN  /\ connected \ left \subseteq now
             /\ updated(HandleDisconnect(
                           [connection |-> connection, simulator |-> simulator], left))
  BY DEF AdvanceTime
<1> DEFINE E == Entries(connected, client)
           E1 == {e \in E : e.client_index \notin left}
           first == HandleDisconnect([connection |-> connection, simulator |-> simulator], left)
           conn == [i \in Slots |-> AdvanceConnection(first.connection[i])]
           sim == first.simulator
           failed == Disconnects(conn)
           dropped == failed \cap now
           moved == IF failed = Slots THEN sim ELSE AdvanceSimulator(sim)
           last == HandleDisconnect([connection |-> conn, simulator |-> moved], dropped)
<1>2. /\ connected \ left \subseteq now
      /\ connection' = last.connection /\ Flush(last.simulator)
      /\ connected' = now \ dropped
      /\ client' = NextClients(left \cup dropped)
      /\ running' = running
  BY <1>1 DEF AdvanceSlots, AdvanceTime
<1>3. simulator \in Simulators(E) /\ \A e \in E : e.client_index \in Slots
  BY EntriesForSlots DEF IInv, OwnPackets, Shapes
<1>4. /\ first.connection = [i \in Slots |-> IF i \in left THEN ResetConnection(connection[i])
                                                          ELSE connection[i]]
      /\ sim \in Simulators(E1)
  <2> HIDE DEF E
  <2> QED
    BY <1>3, HandleDisconnectGood
<1> HIDE DEF first
<1>5. moved \in Simulators(E1)
  <2>2. Queueable(E1)
    BY PresentQueueable
  <2> HIDE DEF sim, failed, E1
  <2> QED
    BY <1>4, <2>2, AdvanceSimulatorGood
<1>6. failed \in SUBSET Slots /\ dropped \in SUBSET Slots
  BY DEF Disconnects, Failed
<1> HIDE DEF conn, sim, failed, moved
<1>7. /\ last.connection = [i \in Slots |-> IF i \in dropped THEN ResetConnection(conn[i])
                                                          ELSE conn[i]]
      /\ last.simulator \in Simulators({e \in E1 : e.client_index \notin dropped})
  <2>1. \A e \in E1 : e.client_index \in Slots
    BY <1>3
  <2> HIDE DEF E1, dropped
  <2> QED
    BY <1>5, <1>6, <2>1, HandleDisconnectGood
<1> HIDE DEF last
<1>8. /\ client' \in [Slots -> Numbers]
      /\ \A i \in Slots : i \notin left \cup dropped => client'[i] = client[i]
  <2> HIDE DEF dropped
  <2> QED
    BY <1>2, NextClientsGood DEF IInv, Shapes
<1>9. ASSUME NEW i \in Slots
      PROVE  /\ first.connection[i] \in Connections({client[i]})
             /\ i \in left => first.connection[i] \in Connections({client'[i]})
  <2>1. connection[i] \in Connections({client[i]})
    BY ConnectionsAre DEF IInv, OwnConnections
  <2>2. /\ ResetConnection(connection[i]) \in Connections({client[i]})
        /\ ResetConnection(connection[i]) \in Connections({client'[i]})
    BY <2>1, ResetConnectionGood
  <2> QED
    BY <1>4, <2>1, <2>2
<1>10. ASSUME NEW i \in Slots
       PROVE  /\ conn[i] = AdvanceConnection(first.connection[i])
              /\ conn[i] \in Connections({client[i]})
              /\ i \in left => conn[i] \in Connections({client'[i]})
  BY <1>9, AdvanceConnectionKeeps DEF conn
<1>11. ASSUME NEW i \in Slots
       PROVE  connection'[i] \in Connections({client'[i]})
  <2>1. ResetConnection(conn[i]) \in Connections({client'[i]})
    BY <1>10, ResetConnectionGood
  <2> HIDE DEF dropped
  <2>2. CASE i \in dropped
    BY <1>2, <1>7, <2>1, <2>2
  <2>3. CASE i \notin dropped
    <3>1. connection'[i] = conn[i]
      BY <1>2, <1>7, <2>3
    <3>2. i \notin left => client'[i] = client[i]
      BY <1>8, <2>3
    <3> QED
      BY <1>10, <3>1, <3>2
  <2> QED
    BY <2>2, <2>3
<1>12. {e \in E1 : e.client_index \notin dropped} \in SUBSET Entries(connected', client')
  <2>1. \A i \in connected \ (left \cup dropped) : i \in connected' /\ client'[i] = client[i]
    BY <1>2, <1>8 DEF IInv, Shapes
  <2> DEFINE gone == left \cup dropped
  <2>2. {e \in E : e.client_index \notin gone} \in SUBSET Entries(connected', client')
    <3>1. \A i \in connected \ gone : i \in connected' /\ client'[i] = client[i]
      BY <2>1
    <3> HIDE DEF gone
    <3> QED
      BY <3>1, EntriesLeft
  <2> HIDE DEF E, dropped
  <2> QED
    BY <2>2
<1>13. last.simulator \in Simulators(Entries(connected', client'))
  <2> HIDE DEF E1, dropped
  <2> QED
    BY <1>7, <1>12, SimulatorsGrow
<1>14. OwnPackets' /\ OwnTransmitted' /\ panicked' \in BOOLEAN
  <2> HIDE DEF dropped
  <2>1. panicked \in BOOLEAN
    BY DEF IInv, Shapes
  <2> QED
    BY <1>2, <1>13, <2>1, FlushGood DEF OwnPackets, OwnTransmitted
<1>15. OwnConnections'
  <2>1. connection' = [i \in Slots |-> connection'[i]]
    BY <1>2, <1>7
  <2> QED
    BY <1>11, <2>1, ConnectionsMade DEF OwnConnections
<1>16. Shapes'
  BY <1>2, <1>8, <1>14 DEF IInv, Shapes
<1>17. ASSUME NEW i \in connected'
       PROVE  ErroredChannels(connection'[i]) = {}
  <2>1. i \in Slots /\ i \notin failed
    BY <1>2
  <2>2. connection'[i] = conn[i]
    BY <1>2, <1>7, <2>1
  <2>3. conn[i].error_level = "None"
    BY <2>1 DEF failed, Disconnects, Failed
  <2> QED
    BY <1>9, <1>10, <2>1, <2>2, <2>3, AdvanceFindsErrors
<1> QED
  BY <1>14, <1>15, <1>16, <1>17 DEF IInv

-----------------------------------------------------------------------------
(* The theorems.                                                             *)

\* A stuttering step keeps the invariant.
LEMMA NothingKeeps ==
  ASSUME IInv, UNCHANGED vars
  PROVE  IInv'
<1>1. /\ running' = running /\ connected' = connected /\ connection' = connection
      /\ client' = client /\ simulator' = simulator /\ transmitted' = transmitted
      /\ panicked' = panicked
  BY DEF vars, slots
<1> QED
  BY <1>1 DEF IInv, Shapes, OwnConnections, OwnPackets, OwnTransmitted

\* Every step keeps the invariant.
LEMMA NextKeeps ==
  ASSUME IInv, Next
  PROVE  IInv'
<1>1. CASE Start
  BY <1>1, RestartKeeps DEF Start
<1>2. CASE Stop
  BY <1>2, RestartKeeps DEF Stop
<1>3. CASE \E i \in Slots, c \in ChannelIndexes : SendMessage(i, c)
  BY <1>3, NextSend
<1>4. CASE \E i \in Slots, c \in ChannelIndexes : ReceiveMessage(i, c)
  BY <1>4, NextReceive
<1>5. CASE Configure
  BY <1>5, NextConfigure
<1>6. CASE SendPackets
  BY <1>6, NextSendPackets
<1>7. CASE ReceivePackets
  BY <1>7, NextReceivePackets
<1>8. CASE \E i \in Slots : DisconnectClient(i)
  BY <1>8, NextDisconnectClient
<1>9. CASE AdvanceTime
  BY <1>9, NextAdvance
<1> QED
  BY <1>1, <1>2, <1>3, <1>4, <1>5, <1>6, <1>7, <1>8, <1>9 DEF Next

\* The inductive invariant holds in every reachable state.
THEOREM ServerInvariant == Spec => []IInv
<1>1. Init => IInv
  BY InitGood
<1>2. IInv /\ [Next]_vars => IInv'
  BY NextKeeps, NothingKeeps
<1> QED
  BY <1>1, <1>2, PTL DEF Spec

\* The simulator never holds more than its queue was made for.
THEOREM ServerTypeOK == Spec => []TypeOK
<1>1. ASSUME IInv PROVE TypeOK
  <2>1. Len(simulator.entries) <= SimulatorCapacity /\ (~simulator.active => simulator.entries = <<>>)
    BY <1>1, SimulatorFields DEF IInv, OwnPackets
  <2> QED
    BY <1>1, <2>1 DEF TypeOK, IInv, Shapes, Numbers
<1> QED
  BY <1>1, ServerInvariant, PTL

\* However long the simulator keeps a packet, it is handed to netcode only for the
\* client it was made for.
THEOREM ServerPacketsForTheirClient == Spec => []PacketsForTheirClient
<1>1. ASSUME IInv PROVE PacketsForTheirClient
  <2>1. ASSUME NEW k \in DOMAIN simulator.entries
        PROVE  /\ simulator.entries[k].client_index \in connected
               /\ simulator.entries[k].packet.client = client[simulator.entries[k].client_index]
    <3> DEFINE e == simulator.entries[k]
    <3>1. e \in Entries(connected, client)
      BY <1>1, SimulatorFields DEF IInv, OwnPackets
    <3> HIDE DEF e
    <3>2. e.client_index \in connected /\ e.packet \in PacketsFor(client[e.client_index])
      BY <3>1, EntryFields
    <3>3. e.packet.client = client[e.client_index]
      BY <3>2 DEF PacketsFor
    <3> QED
      BY <3>2, <3>3 DEF e
  <2>2. ASSUME NEW t \in transmitted
        PROVE  t.client_index \in connected /\ t.packet.client = client[t.client_index]
    <3>1. t \in Transmissions(connected, client)
      BY <1>1 DEF IInv, OwnTransmitted
    <3>2. t.client_index \in connected /\ t.packet \in PacketsFor(client[t.client_index])
      BY <3>1, TransmissionOf
    <3> QED
      BY <3>2 DEF PacketsFor
  <2> QED
    BY <2>1, <2>2 DEF PacketsForTheirClient
<1> QED
  BY <1>1, ServerInvariant, PTL

\* No message gets from one client of a slot to the next.
THEOREM ServerMessagesOfTheirClient == Spec => []MessagesOfTheirClient
<1>1. ASSUME IInv PROVE MessagesOfTheirClient
  <2>1. ASSUME NEW V, NEW messages \in Seq(V)
        PROVE  ToSet(messages) \subseteq V
    BY DEF ToSet
  <2>2. ASSUME NEW i \in Slots, NEW c \in ChannelIndexes
        PROVE  LET u == connection[i].channels[c].processor
               IN  /\ ToSet(u.message_send_queue) \subseteq {client[i]}
                   /\ \A k \in DOMAIN u.message_receive_queue :
                         u.message_receive_queue[k].message = client[i]
    <3> DEFINE u == connection[i].channels[c].processor
    <3>1. connection[i] \in Connections({client[i]})
      BY <1>1, ConnectionsAre DEF IInv, OwnConnections
    <3>2. connection[i].channels[c] \in UnreliableChannels({client[i]})
      BY <3>1, ConnectionFields
    <3>3. /\ u.message_send_queue \in Seq({client[i]})
          /\ u.message_receive_queue \in Seq([id : Nat, message : {client[i]}])
      BY <3>2, ChannelFields
    <3> HIDE DEF u
    <3>4. ToSet(u.message_send_queue) \subseteq {client[i]}
      BY <2>1, <3>3
    <3>5. \A k \in DOMAIN u.message_receive_queue : u.message_receive_queue[k].message = client[i]
      <4> DEFINE q == u.message_receive_queue
                 R == [id : Nat, message : {client[i]}]
      <4>1. q \in Seq(R) /\ \A e \in R : e.message = client[i]
        BY <3>3
      <4> HIDE DEF q, R
      <4>2. \A k \in DOMAIN q : q[k].message = client[i]
        BY <4>1
      <4> QED
        BY <4>2 DEF q
    <3> QED
      BY <3>4, <3>5 DEF u
  <2>3. ASSUME NEW t \in transmitted, NEW d \in DOMAIN t.packet.data
        PROVE  ToSet(t.packet.data[d].messages) \subseteq {client[t.client_index]}
    <3> DEFINE n == client[t.client_index]
               S == Seq({n})
               R == [channel_index : ChannelIndexes, messages : S]
               data == t.packet.data
    <3>1. t \in Transmissions(connected, client)
      BY <1>1 DEF IInv, OwnTransmitted
    <3>2. t.packet \in PacketsFor(n)
      BY <3>1, TransmissionOf
    <3>3. data \in Seq(R)
      BY <3>2 DEF PacketsFor, DataOf
    <3> HIDE DEF data, S
    <3>4. \A r \in R : r.messages \in S
      OBVIOUS
    <3> HIDE DEF R
    <3>5. \A k \in DOMAIN data : data[k].messages \in S
      BY <3>3, <3>4
    <3>6. data[d].messages \in S
      BY <3>5 DEF data
    <3> QED
      BY <2>1, <3>6 DEF S, data
  <2> QED
    BY <2>2, <2>3 DEF MessagesOfTheirClient
<1> QED
  BY <1>1, ServerInvariant, PTL

\* advance_time leaves no client in a slot that is in an error state.
THEOREM ServerFailedAreDropped == Spec => FailedAreDropped
<1>1. IInv /\ [Next]_vars
        => [AdvanceTime => \A i \in connected' : ErroredChannels(connection'[i]) = {}]_vars
  BY NextAdvance
<1> QED
  BY <1>1, ServerInvariant, PTL DEF Spec, FailedAreDropped

-----------------------------------------------------------------------------
(* Nothing panics.  The measured size of a packet is what it costs, and an    *)
(* empty packet for each client fits.                                        *)

\* No checks between the parts of a packet, a buffer with room for the entries of
\* every channel, and sizes in bits a usize can hold.
PacketFits ==
    /\ CheckBits = 0
    /\ Room(BufferBits)
    /\ UsizeModulus > BufferBits

\* The loop's states in which nothing has panicked.
CalmSendings == {state \in Sendings : ~state.panicked}

\* One round of send_packets does not panic: the budgets leave room for every
\* channel of the slot's connection.
LEMMA SendToIsCalm ==
  ASSUME PacketFits, client \in [Slots -> Numbers], NEW copies \in [Slots -> Copies],
         NEW state \in CalmSendings, NEW i \in Slots
  PROVE  SendTo(copies, state, i) \in CalmSendings
<1> DEFINE generated == GeneratePacket(state.connection[i], 0, BufferBits)
           sent == [state EXCEPT !.connection[i] = generated.connection]
           packet == Packet(i, generated.data)
           after == SendTo(copies, state, i)
<1>1. state \in Sendings /\ ~state.panicked
  BY DEF CalmSendings
<1>2. after \in Sendings
  BY <1>1, SendToKeeps
<1>3. generated.panic = NoPanic
  <2>1. state.connection[i] \in Connections({client[i]})
    BY <1>1, ConnectionsAre DEF Sendings
  <2>2. MeasuredMessages({client[i]}) /\ BufferBits \in Nat
    BY NumbersMeasured, ServerAssumption
  <2> QED
    BY <2>1, <2>2, ServerChannels, GeneratePacketCalm DEF PacketFits
<1> HIDE DEF generated
<1>4. sent.panicked = state.panicked /\ {"simulator", "transmitted", "panicked"} \subseteq DOMAIN sent
  <2> DEFINE conns == [state.connection EXCEPT ![i] = generated.connection]
  <2>1. sent = [state EXCEPT !.connection = conns]
    BY <1>1 DEF Sendings
  <2> HIDE DEF conns, sent
  <2> QED
    BY <1>1, <2>1 DEF Sendings
<1>5. after \in {state, sent, TransmitPacket(sent, i, packet, copies[i])}
  BY <1>3 DEF SendTo, SendGenerated, generated
<1>6. TransmitPacket(sent, i, packet, copies[i]).panicked = sent.panicked
  <2> DEFINE sim == SimulatorSend(sent.simulator, i, packet, copies[i])
             all == sent.transmitted \cup {Transmission(i, packet)}
  <2>1. TransmitPacket(sent, i, packet, copies[i])
            \in {[sent EXCEPT !.simulator = sim], [sent EXCEPT !.transmitted = all]}
    BY DEF TransmitPacket
  <2> HIDE DEF sim, all, sent
  <2> QED
    BY <1>4, <2>1
<1>7. ~after.panicked
  <2> HIDE DEF sent, after, packet
  <2> QED
    BY <1>1, <1>4, <1>5, <1>6
<1> QED
  BY <1>2, <1>7 DEF CalmSendings

\* send_packets does not panic.
LEMMA SendPacketsIsCalm ==
  ASSUME PacketFits, IInv, SendPackets
  PROVE  ~panicked'
<1> DEFINE base == [connection |-> connection, simulator |-> simulator,
                    transmitted |-> {}, panicked |-> FALSE]
           done(copies) == Sends!Fold(copies, copies, base, SlotOrder)
<1>1. PICK copies \in [Slots -> Copies] : panicked' = done(copies).panicked
  BY DEF SendPackets, SendToOf, FoldLeft, MapThenFoldSet, Max, Sends!Fold,
         Sends!FoldLeft, Sends!MapThenFoldSet, Sends!Max
<1>2. client \in [Slots -> Numbers]
  BY DEF IInv, Shapes
<1>3. base \in CalmSendings
  BY DEF CalmSendings, Sendings, IInv, OwnConnections, OwnPackets
<1>4. \A d \in CalmSendings, i \in Slots : SendToOf(copies, copies, d, i) \in CalmSendings
  BY <1>2, SendToIsCalm DEF SendToOf
<1> HIDE DEF base
<1>5. done(copies) \in CalmSendings
  BY <1>3, <1>4, Order, Sends!FoldStays
<1> HIDE DEF done
<1> QED
  BY <1>1, <1>5 DEF CalmSendings

\* A simulator whose entries are not received yet hands them over.
LEMMA NoneReceived ==
  ASSUME NEW E, NEW sim \in Simulators(E), \A e \in E : ~e.consumed
  PROVE  ~ReceiveAsserts(sim)
<1>1. \A k \in DOMAIN sim.entries : sim.entries[k] \in E
  BY SimulatorFields
<1> QED
  BY <1>1 DEF ReceiveAsserts

\* And one that hands over its entries has none that is received.
LEMMA AllWaiting ==
  ASSUME NEW E, NEW sim \in Simulators(E), ~ReceiveAsserts(sim)
  PROVE  sim \in Simulators({e \in E : ~e.consumed})
<1> DEFINE W == {e \in E : ~e.consumed}
           s == sim.entries
<1>1. /\ s \in Seq(E) /\ Len(s) <= SimulatorCapacity /\ sim.active \in BOOLEAN
      /\ ~sim.active => s = <<>>
      /\ sim = [active |-> sim.active, entries |-> s]
  BY SimulatorFields
<1>2. \A k \in DOMAIN s : s[k] \in E /\ ~s[k].consumed
  BY SimulatorFields DEF ReceiveAsserts
<1>3. \A k \in DOMAIN s : s[k] \in W
  BY <1>2
<1> HIDE DEF W, s
<1>4. s \in Seq(W)
  BY <1>1, <1>3
<1>5. [active |-> sim.active, entries |-> s] \in Simulators(W)
  BY <1>1, <1>4, SimulatorWith
<1> QED
  BY <1>1, <1>5 DEF W

\* advance_time does not panic: either a slot that has not failed advances the
\* simulator, which drops what was received before, or every client is dropped and
\* with them all packets.
LEMMA AdvanceTimeIsCalm ==
  ASSUME IInv, AdvanceTime
  PROVE  ~panicked'
<1>1. PICK left \in SUBSET Slots, now \in SUBSET Slots :
         LET updated(state) ==
                 AdvanceSlots([i \in Slots |-> AdvanceConnection(state.connection[i])],
                              state.simulator, now, left)
         IN  /\ connected \ left \subseteq now
             /\ updated(HandleDisconnect(
                           [connection |-> connection, simulator |-> simulator], left))
  BY DEF AdvanceTime
<1> DEFINE E == Entries(connected, client)
           E1 == {e \in E : e.client_index \notin left}
           W == {e \in E1 : ~e.consumed}
           first == HandleDisconnect([connection |-> connection, simulator |-> simulator], left)
           conn == [i \in Slots |-> AdvanceConnection(first.connection[i])]
           sim == first.simulator
           failed == Disconnects(conn)
           dropped == failed \cap now
           moved == IF failed = Slots THEN sim ELSE AdvanceSimulator(sim)
           last == HandleDisconnect([connection |-> conn, simulator |-> moved], dropped)
<1>2. /\ connected \ left \subseteq now
      /\ Flush(last.simulator)
  BY <1>1 DEF AdvanceSlots
<1>3. simulator \in Simulators(E) /\ \A e \in E : e.client_index \in connected
  BY EntryFields DEF IInv, OwnPackets
<1>4. connected \in SUBSET Slots
  BY DEF IInv, Shapes
<1>5. sim \in Simulators(E1)
  <2> HIDE DEF E
  <2>1. \A e \in E : e.client_index \in Slots
    BY <1>3, <1>4
  <2> QED
    BY <1>3, <2>1, HandleDisconnectGood
<1> HIDE DEF first
<1>6. failed \in SUBSET Slots /\ dropped \in SUBSET Slots
  BY DEF Disconnects, Failed
<1>7. \A e \in E1 : e.client_index \in Slots /\ e.client_index \in now
  <2> HIDE DEF E
  <2> QED
    BY <1>2, <1>3, <1>4
<1> HIDE DEF conn, sim, failed
<1>8. CASE failed = Slots
  <2> DEFINE none == {e \in E1 : e.client_index \notin dropped}
  <2>1. last.simulator \in Simulators(none)
    <3>1. moved = sim
      BY <1>8
    <3> HIDE DEF E1, dropped, moved
    <3> QED
      BY <1>5, <1>6, <1>7, <3>1, HandleDisconnectGood
  <2>2. \A e \in none : ~e.consumed
    <3> HIDE DEF E1
    <3> QED
      BY <1>7, <1>8
  <2> HIDE DEF last, none
  <2>3. ~ReceiveAsserts(last.simulator)
    BY <2>1, <2>2, NoneReceived
  <2> QED
    BY <1>2, <2>3 DEF Flush, AdvanceTime, Running
<1>9. CASE failed # Slots
  <2> DEFINE waiting == {e \in W : e.client_index \notin dropped}
  <2>1. Queueable(E1)
    BY PresentQueueable
  <2> HIDE DEF E1
  <2>2. moved = AdvanceSimulator(sim)
    BY <1>9
  <2>3. moved \in Simulators(W)
    <3> HIDE DEF moved
    <3>1. moved \in Simulators(E1) /\ ~ReceiveAsserts(moved)
      BY <1>5, <2>1, <2>2, AdvanceSimulatorGood
    <3> QED
      BY <3>1, AllWaiting
  <2>4. last.simulator \in Simulators(waiting)
    <3>1. \A e \in W : e.client_index \in Slots
      BY <1>7
    <3> HIDE DEF W, dropped, moved
    <3> QED
      BY <1>6, <2>3, <3>1, HandleDisconnectGood
  <2>5. \A e \in waiting : ~e.consumed
    OBVIOUS
  <2> HIDE DEF last, waiting
  <2>6. ~ReceiveAsserts(last.simulator)
    BY <2>4, <2>5, NoneReceived
  <2> QED
    BY <1>2, <2>6 DEF Flush, AdvanceTime, Running
<1> QED
  BY <1>8, <1>9

\* The server never panics: no packet overflows its buffer, and the simulator never
\* hands out a packet twice, though its clock stands still when every slot fails.
THEOREM ServerNothingPanics ==
  ASSUME PacketFits
  PROVE  Spec => []NothingPanics
<1>1. Init => NothingPanics
  BY DEF Init, NothingPanics
<1>2. ASSUME IInv, NothingPanics, [Next]_vars
      PROVE  NothingPanics'
  <2>1. CASE UNCHANGED vars
    BY <1>2, <2>1 DEF vars, NothingPanics
  <2>2. CASE SendPackets
    BY <1>2, <2>2, SendPacketsIsCalm DEF NothingPanics
  <2>3. CASE AdvanceTime
    BY <1>2, <2>3, AdvanceTimeIsCalm DEF NothingPanics
  <2>4. CASE Start \/ Stop
    BY <1>2, <2>4 DEF Start, Stop, Restart, NothingPanics
  <2>5. CASE \/ \E i \in Slots, c \in ChannelIndexes : SendMessage(i, c)
             \/ \E i \in Slots, c \in ChannelIndexes : ReceiveMessage(i, c)
             \/ \E i \in Slots : DisconnectClient(i)
             \/ ReceivePackets
    BY <1>2, <2>5 DEF SendMessage, ReceiveMessage, DisconnectClient, ReceivePackets, NothingPanics
  <2>6. CASE Configure
    BY <1>2, <2>6 DEF Configure, ConfigureSimulator, NothingPanics
  <2> QED
    BY <1>2, <2>1, <2>2, <2>3, <2>4, <2>5, <2>6 DEF Next
<1> QED
  BY <1>1, <1>2, ServerInvariant, PTL DEF Spec
==============================================================================
