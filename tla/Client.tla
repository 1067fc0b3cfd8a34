--------------------------------- MODULE Client ---------------------------------
(***************************************************************************)
(* Client<M> (src/src/client.rs): its state as the application sees it, and *)
(* the four things a session needs, made one after the other by             *)
(* insecure_connect, any of which may fail, and destroyed together: the     *)
(* reliable endpoint, the Connection, the network simulator and the netcode *)
(* client.  client_id and bound_port come and go with the netcode client.   *)
(*                                                                          *)
(* netcode is external: netcode_client_update moves its state towards 3,    *)
(* connected, or to 0 or below, and connect may find the token invalid.     *)
(* The client is boxed, as the README asks, so that the callbacks' pointers  *)
(* to it stay valid.  Channels are unreliable, so acks do nothing.           *)
(***************************************************************************)
EXTENDS Connection, NetworkSimulator

CONSTANTS BufferBits,       \* max_packet_size in bits
          HasSimulator,     \* whether the configuration has a network simulator
          SessionNumbers    \* bound: after so many sessions their numbers repeat

ASSUME ClientAssumption ==
    /\ BufferBits \in Nat
    /\ HasSimulator \in BOOLEAN
    /\ SessionNumbers \in Nat \ {0}
    /\ \A c \in ChannelIndexes : Kinds[c] = UnreliableUnordered
    /\ \A s \in 0 .. SessionNumbers - 1 : MeasuredBits(s) \in Nat

\* Option<T>, and pointers that may be null.
None == <<>>
Some(x) == <<x>>

VARIABLES
    client_state,        \* what is_connected, is_disconnected, connection_failed read
    client,              \* None, or the state of the netcode client
    endpoint,            \* whether there is one
    connection,          \* None, or the connection
    network_simulator,   \* None, or the simulator
    allocated,           \* how many endpoints and netcode clients the C libraries hold
    session,             \* the number of the last insecure_connect
    transmitted,         \* what the last call handed to netcode_client_send_packet
    clock,               \* changes with every advance_time
    panicked

resources == <<client, endpoint, allocated, session>>
vars == <<client_state, resources, connection, network_simulator, transmitted,
          clock, panicked>>

Init ==
    /\ client_state = "Disconnected"
    /\ client = None /\ endpoint = FALSE
    /\ connection = None /\ network_simulator = None
    /\ allocated = [endpoints |-> 0, clients |-> 0]
    /\ session = 0 /\ transmitted = {} /\ clock = 0 /\ panicked = FALSE

-----------------------------------------------------------------------------
(* netcode.                                                                  *)

\* Disconnected is 0, a request or a response being sent is 1 or 2, connected is
\* 3; the others say why a client failed, -5 that its token is invalid.
NetcodeStates == -6 .. 3
Handshake == {1, 2}

\* netcode_client_update.
NetcodeUpdate(n) ==
    CASE n \in Handshake -> {1, 2, 3, -1, -2, -3, -6}
      [] n = 3 -> {3, 0, -4}
      [] OTHER -> {n}

\* client_state_from_netcode_state
StateFromNetcode(n) ==
    CASE n < 0 -> "Error"
      [] n = 0 -> "Disconnected"
      [] n \in Handshake -> "Connecting"
      [] OTHER -> "Connected"

-----------------------------------------------------------------------------
(* Connecting and disconnecting.                                             *)

\* What connecting makes and disconnecting destroys.
Now ==
    [client |-> client, endpoint |-> endpoint, connection |-> connection,
     network_simulator |-> network_simulator, allocated |-> allocated,
     session |-> session]

\* The method leaves this behind.
Becomes(next) ==
    /\ client' = next.client /\ endpoint' = next.endpoint
    /\ connection' = next.connection /\ network_simulator' = next.network_simulator
    /\ allocated' = next.allocated /\ session' = next.session
    /\ transmitted' = {} /\ UNCHANGED panicked

\* destroy_client: nothing if there is none.
DestroyClient(now) ==
    IF now.client = None
    THEN now
    ELSE [now EXCEPT !.client = None, !.network_simulator = None,
                     !.allocated.clients = @ - 1]

\* destroy_internal
DestroyInternal(now) ==
    [client |-> now.client, endpoint |-> FALSE, connection |-> None,
     network_simulator |-> None, session |-> now.session,
     allocated |-> [now.allocated EXCEPT !.endpoints = IF now.endpoint THEN @ - 1 ELSE @]]

\* Bug: without a netcode client there is thought to be nothing to destroy.
DestroyIfClient(now) ==
    IF now.client = None THEN now ELSE DestroyInternal(DestroyClient(now))

\* What disconnect leaves of it.
DestroyAll(now) == DestroyInternal(DestroyClient(now))

\* connect_internal
ConnectInternal(now) ==
    [client |-> now.client, endpoint |-> TRUE, connection |-> Some(NewConnection),
     network_simulator |-> IF HasSimulator THEN Some(NewSimulator) ELSE None,
     session |-> now.session, allocated |-> [now.allocated EXCEPT !.endpoints = @ + 1]]

\* create_client, for which netcode makes a client or None.
CreateClient(now, created) ==
    [DestroyClient(now) EXCEPT !.client = created,
                               !.allocated.clients = @ + Len(created)]

NextSession(now) == [now EXCEPT !.session = (@ + 1) % SessionNumbers]

\* Bug: the connection of an older session is used again.
CreateOver(created) ==
    LET now == NextSession(Now)
    IN  CreateClient(IF now.connection = None THEN ConnectInternal(now) ELSE now, created)

\* insecure_connect up to its create_client.
Create(created) == CreateClient(ConnectInternal(DestroyAll(NextSession(Now))), created)

\* Bug: the state is left to the next advance_time.
StateUnchanged(state) == state

\* The state disconnect leaves behind: Error is kept, for the user to see.
StateDisconnected(state) == IF state = "Error" THEN "Error" ELSE "Disconnected"

\* disconnect, called in this state.
DisconnectFrom(state) ==
    client_state' = StateDisconnected(state) /\ Becomes(DestroyAll(Now))

Disconnect == ~panicked /\ DisconnectFrom(client_state) /\ UNCHANGED clock

\* insecure_connect; netcode takes the token, or will report it as invalid.
Connect ==
    /\ ~panicked
    /\ \E n \in {1, -5} : Becomes([Create(Some(0)) EXCEPT !.client = Some(n)])
    /\ client_state' = "Connecting"
    /\ UNCHANGED clock

\* No token can be made: everything else is there, for advance_time to destroy.
FailToken ==
    /\ ~panicked
    /\ Becomes(Create(Some(0)))
    /\ client_state' = "Error"
    /\ UNCHANGED clock

\* Bug: what connect_internal made stays.
FailCreateHalfWay ==
    /\ ~panicked
    /\ Becomes(Create(None))
    /\ client_state' = StateDisconnected(client_state)
    /\ UNCHANGED clock

\* netcode cannot create a client: disconnect, the second in this call, takes the
\* rest down again.
FailCreate ==
    /\ ~panicked
    /\ Becomes(DestroyAll(Create(None)))
    /\ client_state' = StateDisconnected(StateDisconnected(client_state))
    /\ UNCHANGED clock

-----------------------------------------------------------------------------
(* A session.                                                                *)

IsConnected == client_state = "Connected"

SendMessage(c) ==
    /\ ~panicked /\ connection # None
    /\ connection' = [connection EXCEPT ![1].channels[c] = ChannelSend(@, session)]
    /\ transmitted' = {}
    /\ UNCHANGED <<client_state, resources, network_simulator, clock, panicked>>

ReceiveMessage(c) ==
    /\ ~panicked /\ connection # None
    /\ ChannelCanReceive(connection[1].channels[c])
    /\ connection' = [connection EXCEPT ![1].channels[c] = ChannelReceive(@)]
    /\ transmitted' = {}
    /\ UNCHANGED <<client_state, resources, network_simulator, clock, panicked>>

\* with_network_simulator, if there is one.
Configure ==
    /\ ~panicked /\ network_simulator # None
    /\ \/ \E active \in BOOLEAN :
             network_simulator' = Some(SetActive(network_simulator[1], active))
       \/ network_simulator' = Some(DiscardPackets(network_simulator[1]))
    /\ transmitted' = {}
    /\ UNCHANGED <<client_state, resources, connection, clock, panicked>>

Packet(data) == [session |-> session, data |-> data]

SimulatorActive == network_simulator # None /\ network_simulator[1].active

\* transmit_packet, for what generate_packet made.
TransmitPacket(data, copies) ==
    IF SimulatorActive
    THEN /\ network_simulator' =
                Some(SimulatorSend(network_simulator[1], 0, Packet(data), copies))
         /\ transmitted' = {}
    ELSE /\ transmitted' = {Packet(data)}
         /\ UNCHANGED network_simulator

SendGenerated(generated) ==
    /\ connection' = Some(generated.connection)
    /\ panicked' = (generated.panic # NoPanic)
    /\ IF generated.data = <<>> \/ generated.panic # NoPanic
       THEN transmitted' = {} /\ UNCHANGED network_simulator
       ELSE \E copies \in Copies : TransmitPacket(generated.data, copies)
    /\ UNCHANGED <<client_state, resources, clock>>

\* send_packets and receive_packets assert that a connected client has a netcode
\* client, and process_packet that it has a connection.
Panic ==
    /\ panicked' = TRUE
    /\ UNCHANGED <<client_state, resources, connection, network_simulator,
                   transmitted, clock>>

\* send_packets
SendPackets ==
    /\ ~panicked /\ IsConnected
    /\ IF client = None
       THEN Panic
       ELSE connection # None /\ SendGenerated(GeneratePacket(connection[1], 0, BufferBits))

\* receive_packets, for a packet of the server with a message of this session.
ReceivePackets ==
    /\ ~panicked /\ IsConnected
    /\ IF client = None \/ connection = None
       THEN Panic
       ELSE /\ \E c \in ChannelIndexes :
                   connection' = Some(ProcessPacket(connection[1], 0,
                       <<[channel_index |-> c, messages |-> <<session>>]>>).connection)
            /\ transmitted' = {}
            /\ UNCHANGED <<client_state, resources, network_simulator, clock, panicked>>

\* Bug: after an error what is left is for the user to clean up.
EndedRegularly == {"Disconnected"}

\* The states in which advance_time disconnects.
Ended == {"Disconnected", "Error"}

\* The last part of advance_time: an active simulator hands over what is due.
Flush(sim) ==
    IF sim # None /\ sim[1].active
    THEN IF ReceiveAsserts(sim[1])
         THEN network_simulator' = sim /\ transmitted' = {} /\ panicked' = TRUE
         ELSE \E due \in SUBSET DOMAIN sim[1].entries :
                 /\ network_simulator' = Some(SimulatorReceive(sim[1], due))
                 /\ transmitted' = {sim[1].entries[k].packet : k \in due}
                 /\ UNCHANGED panicked
    ELSE network_simulator' = sim /\ transmitted' = {} /\ UNCHANGED panicked

\* Bug: the simulator is not advanced.
AdvancedNever(sim) == sim

Advanced(sim) == IF sim = None THEN None ELSE Some(AdvanceSimulator(sim[1]))

\* The part after the connection was advanced to conn: the simulator, netcode, and
\* the end of the session if netcode says so.
AdvanceNetcode(conn) ==
    IF client = None
    THEN /\ connection' = conn
         /\ network_simulator' = Advanced(network_simulator)
         /\ transmitted' = {}
         /\ UNCHANGED <<client_state, resources, panicked>>
    ELSE \E n \in NetcodeUpdate(client[1]) :
            IF StateFromNetcode(n) \in Ended
            THEN DisconnectFrom(StateFromNetcode(n))
            ELSE /\ client_state' = StateFromNetcode(n)
                 /\ client' = Some(n)
                 /\ connection' = conn
                 /\ Flush(Advanced(network_simulator))
                 /\ UNCHANGED <<endpoint, allocated, session>>

AdvanceTime ==
    LET advanced(conn) == IF conn.error_level # "None" THEN DisconnectFrom(client_state)
                                                       ELSE AdvanceNetcode(Some(conn))
    IN  /\ ~panicked
        /\ IF endpoint /\ connection # None THEN advanced(AdvanceConnection(connection[1]))
                                            ELSE AdvanceNetcode(connection)
        /\ clock' = 1 - clock

Next ==
    \/ Connect
    \/ FailToken
    \/ FailCreate
    \/ Disconnect
    \/ \E c \in ChannelIndexes : SendMessage(c)
    \/ \E c \in ChannelIndexes : ReceiveMessage(c)
    \/ Configure
    \/ SendPackets
    \/ ReceivePackets
    \/ AdvanceTime

Spec == Init /\ [][Next]_vars

\* The application keeps calling advance_time, and netcode gives up a handshake that
\* takes too long.
HandshakeEnds ==
    /\ ~panicked /\ client # None /\ client[1] \in Handshake
    /\ client' \in {None} \cup {Some(n) : n \in NetcodeStates \ Handshake}

FairSpec ==
    /\ Spec
    /\ WF_clock(~panicked /\ clock' = 1 - clock)
    /\ WF_client(HandshakeEnds)

-----------------------------------------------------------------------------
(* Properties.                                                               *)

\* A session's resources have their shapes, and the simulator never holds more
\* packets than its queue was made for.
TypeOK ==
    /\ client_state \in {"Error", "Disconnected", "Connecting", "Connected"}
    /\ client \in {None} \cup {Some(n) : n \in NetcodeStates}
    /\ endpoint \in BOOLEAN /\ panicked \in BOOLEAN
    /\ connection # None => DOMAIN connection[1].channels = ChannelIndexes
    /\ network_simulator # None =>
          Len(network_simulator[1].entries) <= SimulatorCapacity
    /\ session \in 0 .. SessionNumbers - 1 /\ clock \in {0, 1}

\* Whatever fails and in whatever order connects, errors and disconnects come, the
\* netcode client, the endpoint, the connection and a configured simulator exist
\* together or not at all, between two calls: a connect that fails half way takes down
\* what connect_internal made, and destroy_client, which clears the simulator too and
\* which create_client begins with, never clears the new one.
AllOrNothing ==
    /\ endpoint <=> client # None
    /\ connection # None <=> client # None
    /\ network_simulator # None <=> HasSimulator /\ client # None

\* The endpoint and the netcode client are the only ones allocated by the C
\* libraries: none is left behind or destroyed twice by a connect that fails half
\* way, a new connect over an old session, or an error in advance_time.
NothingLeaks ==
    allocated = [endpoints |-> IF endpoint THEN 1 ELSE 0, clients |-> Len(client)]

\* What the user is told holds: is_connected means that netcode has finished its
\* handshake, and a client said to be disconnected without an error holds nothing.
StateIsTrue ==
    /\ IsConnected => client = Some(3)
    /\ client_state = "Disconnected" => client = None

\* Nothing of an earlier session is sent or received in this one: the packets the
\* simulator holds or hands over, and the messages in the queues, are this one's.
NothingOfEarlierSessions ==
    LET own(messages) == ToSet(messages) \subseteq {session}
        current(packet) == /\ packet.session = session
                           /\ \A d \in DOMAIN packet.data : own(packet.data[d].messages)
    IN  /\ \A packet \in transmitted : current(packet)
        /\ network_simulator # None =>
              \A k \in DOMAIN network_simulator[1].entries :
                  current(network_simulator[1].entries[k].packet)
        /\ connection # None => \A c \in ChannelIndexes :
              LET u == connection[1].channels[c].processor
              IN  /\ own(u.message_send_queue)
                  /\ \A k \in DOMAIN u.message_receive_queue :
                        u.message_receive_queue[k].message = session

\* No assertion fails: those of send_packets and receive_packets, and that of the
\* simulator, which advance_time must advance before it takes packets from it.
NothingPanics == ~panicked

\* An attempt to connect comes to an end: it succeeds, or what insecure_connect
\* made is destroyed by advance_time, also when its token was bad or none was made.
AttemptEnds ==
    \A s \in 0 .. SessionNumbers - 1 :
        client # None /\ session = s ~> client = None \/ session # s \/ IsConnected

\* disconnect's comment: "do not overwrite the state if it is `Error` (this ensures
\* the user can detect error states vs disconnected)"; an error lasts until the
\* next connect.
ErrorIsKept == [][client_state = "Error" => client_state' # "Disconnected"]_vars
==============================================================================
