--------------------------------- MODULE Server ---------------------------------
(***************************************************************************)
(* Server<M> (src/src/server.rs): the slots of a server, each with a        *)
(* Connection that is used by one client after the other, and the network   *)
(* simulator they share.  ConnectionPair looks at one slot and its client;   *)
(* here clients come and go in every slot, the application calls methods of  *)
(* any slot at any time, and the question is what one client can get of      *)
(* another.                                                                  *)
(*                                                                          *)
(* netcode is external: in netcode_server_update any client may leave and    *)
(* any other may come; it delivers to a slot packets of its client.  The     *)
(* channels are unreliable ones, so acks do nothing and the endpoint is left *)
(* out; a packet carries the number of the client it is meant for, and so    *)
(* does a message.                                                           *)
(***************************************************************************)
EXTENDS Connection, NetworkSimulator

CONSTANTS MaxClients,            \* max_clients
          BufferBits,            \* max_packet_size in bits
          ClientNumbers          \* bound: after so many clients a slot's numbers repeat

ASSUME ServerAssumption ==
    /\ MaxClients \in Nat \ {0}
    /\ BufferBits \in Nat
    /\ ClientNumbers \in Nat \ {0}
    /\ \A c \in ChannelIndexes : Kinds[c] = UnreliableUnordered
    /\ \A n \in 0 .. ClientNumbers - 1 : MeasuredBits(n) \in Nat

\* The slots, and the order in which loops go through them.
Slots == 0 .. MaxClients - 1
SlotOrder == [n \in 1 .. MaxClients |-> n - 1]

VARIABLES
    running,       \* there is a ServerRuntime
    connected,     \* the slots with a client, as netcode has it
    connection,    \* of each slot
    simulator,     \* network_simulator
    client,        \* of each slot, the number of the client that has it or comes next
    transmitted,   \* what the last call handed to netcode_server_send_packet
    panicked

slots == <<connected, connection, client>>
vars == <<running, slots, simulator, transmitted, panicked>>

NoConnections == [i \in Slots |-> NewConnection]

Init ==
    /\ running = FALSE /\ connected = {}
    /\ connection = NoConnections
    /\ simulator = NewSimulator
    /\ client = [i \in Slots |-> 0]
    /\ transmitted = {} /\ panicked = FALSE

Running == running /\ ~panicked

\* The clients of these slots have gone: the next ones have other numbers.
NextClients(gone) ==
    [i \in Slots |-> IF i \in gone THEN (client[i] + 1) % ClientNumbers ELSE client[i]]

\* start, which stops first, and stop: the runtime is made anew, or dropped.
Restart(starts) ==
    /\ ~panicked
    /\ running' = starts
    /\ connected' = {} /\ connection' = NoConnections
    /\ simulator' = NewSimulator
    /\ client' = NextClients(Slots)
    /\ transmitted' = {}
    /\ UNCHANGED panicked

Start == Restart(TRUE)
Stop == running /\ Restart(FALSE)

-----------------------------------------------------------------------------
(* The application, for a slot with or without a client.                     *)

SendMessage(i, c) ==
    /\ Running
    /\ connection' = [connection EXCEPT ![i].channels[c] = ChannelSend(@, client[i])]
    /\ transmitted' = {}
    /\ UNCHANGED <<running, connected, client, simulator, panicked>>

ReceiveMessage(i, c) ==
    /\ Running
    /\ ChannelCanReceive(connection[i].channels[c])
    /\ connection' = [connection EXCEPT ![i].channels[c] = ChannelReceive(@)]
    /\ transmitted' = {}
    /\ UNCHANGED <<running, connected, client, simulator, panicked>>

\* with_network_simulator: the setters and discard_packets.
ConfigureSimulator(sim) ==
    /\ Running
    /\ simulator' = sim
    /\ transmitted' = {}
    /\ UNCHANGED <<running, slots, panicked>>

Configure ==
    \/ \E active \in BOOLEAN : ConfigureSimulator(SetActive(simulator, active))
    \/ ConfigureSimulator(DiscardPackets(simulator))

-----------------------------------------------------------------------------
(* Packets.                                                                  *)

Packet(i, data) == [client |-> client[i], data |-> data]

Transmission(i, packet) == [client_index |-> i, packet |-> packet]

\* transmit_packet: the simulator intercepts the packet if it is active.
TransmitPacket(state, i, packet, copies) ==
    IF state.simulator.active
    THEN [state EXCEPT !.simulator = SimulatorSend(@, i, packet, copies)]
    ELSE [state EXCEPT !.transmitted = @ \cup {Transmission(i, packet)}]

\* What generate_packet made for slot i.
SendGenerated(state, i, generated, copies) ==
    LET sent == [state EXCEPT !.connection[i] = generated.connection]
    IN  IF generated.panic # NoPanic THEN [sent EXCEPT !.panicked = TRUE]
        ELSE IF generated.data = <<>> THEN sent
        ELSE TransmitPacket(sent, i, Packet(i, generated.data), copies)

\* One turn of the loop of send_packets: nothing for a slot without a client.
SendTo(copies, state, i) ==
    IF state.panicked \/ i \notin connected
    THEN state
    ELSE SendGenerated(state, i, GeneratePacket(state.connection[i], 0, BufferBits), copies[i])

\* send_packets: the slots in order.
SendPackets ==
    /\ Running
    /\ \E copies \in [Slots -> Copies] :
          LET send(state, i) == SendTo(copies, state, i)
              done(state) ==
                  /\ connection' = state.connection
                  /\ simulator' = state.simulator
                  /\ transmitted' = state.transmitted
                  /\ panicked' = state.panicked
          IN  done(FoldLeft(send,
                            [connection |-> connection, simulator |-> simulator,
                             transmitted |-> {}, panicked |-> FALSE],
                            SlotOrder))
    /\ UNCHANGED <<running, connected, client>>

\* receive_packets: netcode has a packet for the slots that arrived, from the
\* client each has now.
ReceivePackets ==
    /\ Running
    /\ \E arrived \in SUBSET connected \ {{}}, c \in ChannelIndexes :
          connection' = [i \in Slots |->
              IF i \in arrived
              THEN ProcessPacket(connection[i], 0,
                                 <<[channel_index |-> c, messages |-> <<client[i]>>]>>).connection
              ELSE connection[i]]
    /\ transmitted' = {}
    /\ UNCHANGED <<running, connected, client, simulator, panicked>>

-----------------------------------------------------------------------------
(* Clients come and go.                                                      *)

\* discard_client_packets, if the client of slot i has gone.
DropPackets(gone, sim, i) == IF i \in gone THEN DiscardClientPackets(sim, i) ELSE sim

\* Bug: packets for the client that left stay in the simulator.
HandleDisconnectKeepPackets(state, gone) ==
    [connection |-> [i \in Slots |-> IF i \in gone THEN ResetConnection(state.connection[i])
                                                   ELSE state.connection[i]],
     simulator  |-> state.simulator]

\* Bug: the connection is not reset.
HandleDisconnectKeepMessages(state, gone) ==
    LET drop(sim, i) == DropPackets(gone, sim, i)
    IN  [connection |-> state.connection,
         simulator  |-> FoldLeft(drop, state.simulator, SlotOrder)]

\* handle_connect_disconnect for the clients of these slots; when a client comes
\* it does nothing.
HandleDisconnect(state, gone) ==
    LET drop(sim, i) == DropPackets(gone, sim, i)
    IN  [connection |-> [i \in Slots |-> IF i \in gone THEN ResetConnection(state.connection[i])
                                                       ELSE state.connection[i]],
         simulator  |-> FoldLeft(drop, state.simulator, SlotOrder)]

DisconnectClient(i) ==
    LET gone(state) == connection' = state.connection /\ simulator' = state.simulator
    IN  /\ Running /\ i \in connected
        /\ gone(HandleDisconnect([connection |-> connection, simulator |-> simulator], {i}))
        /\ connected' = connected \ {i}
        /\ client' = NextClients({i})
        /\ transmitted' = {}
        /\ UNCHANGED <<running, panicked>>

Failed(conn) == {i \in Slots : conn[i].error_level # "None"}

\* Bug: the loop ends at the first slot that fails, as the client's does.
FirstFailed(conn) == LET f == Failed(conn) IN IF f = {} THEN {} ELSE {Min(f)}

\* The slots whose client advance_time disconnects.
Disconnects(conn) == Failed(conn)

\* The last part of advance_time: an active simulator hands over what is due.
Flush(sim) ==
    IF ~sim.active
    THEN simulator' = sim /\ transmitted' = {} /\ UNCHANGED panicked
    ELSE IF ReceiveAsserts(sim)
    THEN simulator' = sim /\ transmitted' = {} /\ panicked' = TRUE
    ELSE \E due \in SUBSET DOMAIN sim.entries :
            /\ simulator' = SimulatorReceive(sim, due)
            /\ transmitted' = {Transmission(sim.entries[k].client_index,
                                            sim.entries[k].packet) : k \in due}
            /\ UNCHANGED panicked

\* The loop of advance_time over the slots, where `now` have a client: a slot
\* that fails is disconnected, which does nothing to one without a client, and
\* is passed over; every other one advances the simulator.
AdvanceSlots(conn, sim, now, gone) ==
    LET failed  == Disconnects(conn)
        dropped == failed \cap now
        after(state) == connection' = state.connection /\ Flush(state.simulator)
    IN  /\ after(HandleDisconnect(
                    [connection |-> conn,
                     simulator  |-> IF failed = Slots THEN sim ELSE AdvanceSimulator(sim)],
                    dropped))
        /\ connected' = now \ dropped
        /\ client' = NextClients(gone \cup dropped)

\* advance_time.  netcode_server_update calls back for the clients that left; the
\* slots `now` have a client afterwards, the same one if none has left.
AdvanceTime ==
    /\ Running
    /\ \E left, now \in SUBSET Slots :
          LET updated(state) ==
                  AdvanceSlots([i \in Slots |-> AdvanceConnection(state.connection[i])],
                               state.simulator, now, left)
          IN  /\ connected \ left \subseteq now
              /\ updated(HandleDisconnect(
                            [connection |-> connection, simulator |-> simulator], left))
    /\ UNCHANGED running

Next ==
    \/ Start
    \/ Stop
    \/ \E i \in Slots, c \in ChannelIndexes : SendMessage(i, c)
    \/ \E i \in Slots, c \in ChannelIndexes : ReceiveMessage(i, c)
    \/ Configure
    \/ SendPackets
    \/ ReceivePackets
    \/ \E i \in Slots : DisconnectClient(i)
    \/ AdvanceTime

Spec == Init /\ [][Next]_vars

-----------------------------------------------------------------------------
(* Properties.                                                               *)

\* The simulator never holds more packets than its queue was made for.
TypeOK ==
    /\ running \in BOOLEAN /\ panicked \in BOOLEAN
    /\ connected \subseteq Slots
    /\ client \in [Slots -> 0 .. ClientNumbers - 1]
    /\ Len(simulator.entries) <= SimulatorCapacity
    /\ ~simulator.active => simulator.entries = <<>>

\* A packet in the simulator, or just handed to netcode, is meant for the client
\* that now has the slot, however late it is and whoever had the slot before.
PacketsForTheirClient ==
    LET meant(entry) == /\ entry.client_index \in connected
                        /\ entry.packet.client = client[entry.client_index]
    IN  /\ \A k \in DOMAIN simulator.entries : meant(simulator.entries[k])
        /\ \A t \in transmitted : meant(t)

\* Messages in the queues of a slot, and in the packets for it, are from or for
\* its client: what was sent to a slot after its last client left goes to the
\* next, and nothing from before.
MessagesOfTheirClient ==
    /\ \A i \in Slots, c \in ChannelIndexes :
          LET u == connection[i].channels[c].processor
          IN  /\ ToSet(u.message_send_queue) \subseteq {client[i]}
              /\ \A k \in DOMAIN u.message_receive_queue :
                    u.message_receive_queue[k].message = client[i]
    /\ \A t \in transmitted : \A d \in DOMAIN t.packet.data :
          ToSet(t.packet.data[d].messages) \subseteq {client[t.client_index]}

\* The simulator's assertion that no packet is received twice holds, though
\* advance_time leaves its clock alone when every slot fails: the packets
\* received before were for clients that are gone by then.  No packet overflows.
NothingPanics == ~panicked

\* After advance_time no slot that has a client is in an error state, whichever
\* slots fail together and also if the client has come to a slot that failed while
\* it was free: every failing slot is dropped, not only the first.
FailedAreDropped ==
    [][AdvanceTime => \A i \in connected' : ErroredChannels(connection'[i]) = {}]_vars
==============================================================================
