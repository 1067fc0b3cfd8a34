------------------------------ MODULE ClientProofs ------------------------------
(***************************************************************************)
(* The safety properties of Client, for every configuration with unreliable *)
(* channels and any number of sessions.  What a session holds is typed by   *)
(* the session's number: its connection has only messages of the session,   *)
(* its simulator only packets of it.                                         *)
(***************************************************************************)
EXTENDS Client, OperatorLemmas

\* The states of a client.
ClientStates == {"Error", "Disconnected", "Connecting", "Connected"}

\* An Option of an element of S.
Options(S) == {None} \cup {Some(x) : x \in S}

\* Packets of session s: its own messages only.
PacketsOf(s) == [session : {s}, data : DataOf({s})]
\* Entries of the simulator with packets of session s.
EntriesOf(s) == [client_index : {0}, packet : PacketsOf(s), consumed : BOOLEAN]

\* The inductive invariant, in parts.
Shapes ==
    /\ client_state \in ClientStates
    /\ client \in Options(NetcodeStates)
    /\ endpoint \in BOOLEAN /\ panicked \in BOOLEAN
    /\ session \in 0 .. SessionNumbers - 1 /\ clock \in {0, 1}

\* The connection has messages of this session only.
OwnConnection == connection \in Options(Connections({session}))
\* The simulator has packets of this session only.
OwnSimulator == network_simulator \in Options(Simulators(EntriesOf(session)))
\* What was handed to netcode is of this session only.
OwnTransmitted == transmitted \in SUBSET PacketsOf(session)

\* The inductive invariant.
IInv ==
    /\ Shapes
    /\ AllOrNothing
    /\ NothingLeaks
    /\ StateIsTrue
    /\ OwnConnection
    /\ OwnSimulator
    /\ OwnTransmitted

-----------------------------------------------------------------------------
(* Helpers.                                                                  *)

\* The names of the states.
LEMMA States ==
  /\ "Error" \in ClientStates /\ "Disconnected" \in ClientStates
  /\ "Connecting" \in ClientStates /\ "Connected" \in ClientStates
  /\ "Error" # "Disconnected" /\ "Error" # "Connected"
  /\ "Connecting" # "Connected" /\ "Connecting" # "Disconnected"
  /\ "Connected" # "Disconnected"
BY DEF ClientStates

\* An Option is None or Some.
LEMMA OptionCases ==
  ASSUME NEW S, NEW o \in Options(S)
  PROVE  \/ o = None
         \/ o # None /\ o = Some(o[1]) /\ o[1] \in S
BY DEF Options, None, Some

\* None and Some are different, and Some has what was put in.
LEMMA OptionOf ==
  ASSUME NEW S, NEW x
  PROVE  /\ None \in Options(S)
         /\ Some(x) # None
         /\ Some(x)[1] = x
         /\ x \in S => Some(x) \in Options(S)
BY DEF Options, None, Some

\* The channels and sessions of a client are as OperatorLemmas needs them.
LEMMA ClientChannels == AllUnreliable
BY ClientAssumption DEF AllUnreliable

\* The messages of a session have sizes.
LEMMA SessionsMeasured ==
  ASSUME NEW s \in 0 .. SessionNumbers - 1
  PROVE  MeasuredMessages({s})
BY ClientAssumption DEF MeasuredMessages

\* Entries are of the kind the simulator takes.
LEMMA EntriesQueueable ==
  ASSUME NEW s
  PROVE  Queueable(EntriesOf(s))
<1> DEFINE P == PacketsOf(s)
<1> HIDE DEF P
<1>1. ASSUME NEW e \in [client_index : {0}, packet : P, consumed : BOOLEAN]
      PROVE  /\ e.consumed \in BOOLEAN
             /\ [e EXCEPT !.consumed = TRUE]
                   \in [client_index : {0}, packet : P, consumed : BOOLEAN]
  OBVIOUS
<1> QED
  BY <1>1 DEF EntriesOf, Queueable, P

-----------------------------------------------------------------------------
(* Connecting and disconnecting.                                             *)

\* What disconnect leaves in session s.
AllGone(s) ==
    [client |-> None, endpoint |-> FALSE, connection |-> None,
     network_simulator |-> None, allocated |-> [endpoints |-> 0, clients |-> 0],
     session |-> s]

\* What connect_internal and create_client leave.
Made(s, created) ==
    [client |-> created, endpoint |-> TRUE, connection |-> Some(NewConnection),
     network_simulator |-> IF HasSimulator THEN Some(NewSimulator) ELSE None,
     allocated |-> [endpoints |-> 1, clients |-> Len(created)], session |-> s]

\* None has no element and Some one.
LEMMA OptionLength ==
  ASSUME NEW x
  PROVE  Len(None) = 0 /\ Len(Some(x)) = 1
BY DEF None, Some

\* Everything the C libraries hold is destroyed by disconnect.
LEMMA AllDestroyed ==
  ASSUME IInv, NEW s
  PROVE  DestroyAll([Now EXCEPT !.session = s]) = AllGone(s)
<1> DEFINE e == IF endpoint THEN 1 ELSE 0
           now == [client |-> client, endpoint |-> endpoint, connection |-> connection,
                   network_simulator |-> network_simulator, allocated |-> allocated,
                   session |-> s]
           first == DestroyClient(now)
<1>1. [Now EXCEPT !.session = s] = now
  BY DEF Now
<1>2. allocated = [endpoints |-> e, clients |-> Len(client)]
  BY DEF IInv, NothingLeaks
<1>3. /\ endpoint \in BOOLEAN
      /\ client = None => network_simulator = None
  BY DEF IInv, Shapes, AllOrNothing
<1>4. first = [client |-> None, endpoint |-> endpoint, connection |-> connection,
               network_simulator |-> None,
               allocated |-> [endpoints |-> e, clients |-> 0], session |-> s]
  <2>1. CASE client = None
    BY <1>2, <1>3, <2>1, OptionLength DEF DestroyClient
  <2>2. CASE client # None
    <3>1. Len(client) = 1
      BY <2>2, OptionCases, OptionLength DEF IInv, Shapes
    <3>2. first = [now EXCEPT !.client = None, !.network_simulator = None,
                              !.allocated.clients = allocated.clients - 1]
      BY <2>2 DEF DestroyClient
    <3>3. allocated.clients - 1 = 0
      BY <1>2, <3>1
    <3> QED
      BY <1>2, <3>2, <3>3
  <2> QED
    BY <2>1, <2>2
<1> HIDE DEF now, first
<1>5. DestroyInternal(first) = AllGone(s)
  <2>1. /\ first.client = None /\ first.endpoint = endpoint /\ first.session = s
        /\ first.allocated = [endpoints |-> e, clients |-> 0]
    BY <1>4
  <2>2. [first.allocated EXCEPT !.endpoints = IF first.endpoint THEN @ - 1 ELSE @]
          = [endpoints |-> 0, clients |-> 0]
    BY <1>3, <2>1
  <2> QED
    BY <2>1, <2>2 DEF DestroyInternal, AllGone
<1> QED
  BY <1>1, <1>5 DEF DestroyAll, first

\* The next session has a number.
LEMMA NextSessionNumber ==
  ASSUME IInv
  PROVE  (session + 1) % SessionNumbers \in 0 .. SessionNumbers - 1
<1> DEFINE a == session + 1
<1>1. a \in Int /\ SessionNumbers \in Nat /\ SessionNumbers > 0
  BY ClientAssumption DEF IInv, Shapes
<1> HIDE DEF a
<1>2. a % SessionNumbers \in 0 .. SessionNumbers - 1
  BY <1>1
<1> QED
  BY <1>2 DEF a

\* insecure_connect up to create_client makes everything anew.
LEMMA AllMade ==
  ASSUME IInv, NEW created \in {None, Some(0)}
  PROVE  Create(created) = Made((session + 1) % SessionNumbers, created)
<1> DEFINE s == (session + 1) % SessionNumbers
           sim == IF HasSimulator THEN Some(NewSimulator) ELSE None
           inner == [client |-> None, endpoint |-> TRUE, connection |-> Some(NewConnection),
                     network_simulator |-> sim,
                     allocated |-> [endpoints |-> 1, clients |-> 0], session |-> s]
<1>1. NextSession(Now) = [Now EXCEPT !.session = s]
  BY DEF NextSession, Now
<1> HIDE DEF s, sim
<1>2. DestroyAll(NextSession(Now)) = AllGone(s)
  BY <1>1, AllDestroyed
<1>3. ConnectInternal(AllGone(s)) = inner
  <2> DEFINE gone == AllGone(s)
  <2>1. /\ gone.client = None /\ gone.session = s
        /\ gone.allocated = [endpoints |-> 0, clients |-> 0]
    BY DEF AllGone
  <2> HIDE DEF gone
  <2>2. [gone.allocated EXCEPT !.endpoints = @ + 1] = [endpoints |-> 1, clients |-> 0]
    BY <2>1
  <2> QED
    BY <2>1, <2>2 DEF ConnectInternal, gone, sim
<1>4. DestroyClient(inner) = inner
  BY DEF DestroyClient
<1>5. Len(created) \in Nat
  BY OptionLength
<1> DEFINE n == Len(created)
<1>6. 0 + n = n
  BY <1>5
<1> HIDE DEF n
<1>7. CreateClient(inner, created)
        = [inner EXCEPT !.client = created, !.allocated.clients = @ + n]
  BY <1>4 DEF CreateClient, n
<1>8. CreateClient(inner, created)
        = [client |-> created, endpoint |-> TRUE, connection |-> Some(NewConnection),
           network_simulator |-> sim,
           allocated |-> [endpoints |-> 1, clients |-> n], session |-> s]
  BY <1>6, <1>7
<1> HIDE DEF inner
<1> QED
  BY <1>2, <1>3, <1>8 DEF Create, Made, n, sim, s

\* What a failed create_client leaves is destroyed as well.
LEMMA MadeDestroyed ==
  ASSUME NEW s
  PROVE  DestroyAll(Made(s, None)) = AllGone(s)
<1> DEFINE sim == IF HasSimulator THEN Some(NewSimulator) ELSE None
           made == [client |-> None, endpoint |-> TRUE, connection |-> Some(NewConnection),
                    network_simulator |-> sim,
                    allocated |-> [endpoints |-> 1, clients |-> 0], session |-> s]
<1>1. Made(s, None) = made
  BY OptionLength DEF Made
<1> HIDE DEF sim
<1>2. DestroyClient(made) = made
  BY DEF DestroyClient
<1>3. /\ made.client = None /\ made.endpoint = TRUE /\ made.session = s
      /\ made.allocated = [endpoints |-> 1, clients |-> 0]
  OBVIOUS
<1> HIDE DEF made
<1>4. [made.allocated EXCEPT !.endpoints = IF made.endpoint THEN @ - 1 ELSE @]
        = [endpoints |-> 0, clients |-> 0]
  BY <1>3
<1>5. DestroyInternal(made) = AllGone(s)
  BY <1>3, <1>4 DEF DestroyInternal, AllGone
<1> QED
  BY <1>1, <1>2, <1>5 DEF DestroyAll

\* What disconnect leaves satisfies the invariant, in whatever state.
LEMMA ClearedKeeps ==
  ASSUME IInv, NEW s \in 0 .. SessionNumbers - 1, Becomes(AllGone(s)),
         client_state' \in ClientStates \ {"Connected"}, clock' \in {0, 1}
  PROVE  IInv'
<1>1. /\ client' = None /\ endpoint' = FALSE /\ connection' = None
      /\ network_simulator' = None /\ transmitted' = {}
      /\ session' = s /\ panicked' = panicked
      /\ allocated' = [endpoints |-> 0, clients |-> 0]
  BY DEF Becomes, AllGone
<1>2. Shapes'
  BY <1>1, OptionOf DEF Shapes, IInv
<1>3. AllOrNothing'
  BY <1>1 DEF AllOrNothing
<1>4. NothingLeaks'
  BY <1>1, OptionLength DEF NothingLeaks
<1>5. StateIsTrue'
  BY <1>1 DEF StateIsTrue, IsConnected
<1>6. OwnConnection' /\ OwnSimulator' /\ OwnTransmitted'
  BY <1>1, OptionOf DEF OwnConnection, OwnSimulator, OwnTransmitted
<1> QED
  BY <1>2, <1>3, <1>4, <1>5, <1>6 DEF IInv

\* disconnect keeps the invariant, whatever state it leaves.
LEMMA DisconnectKeeps ==
  ASSUME IInv, NEW state \in ClientStates, DisconnectFrom(state), clock' \in {0, 1}
  PROVE  IInv'
<1>1. Now = [Now EXCEPT !.session = session]
  BY DEF Now
<1>2. DestroyAll(Now) = AllGone(session)
  BY <1>1, AllDestroyed
<1>3. client_state' \in ClientStates \ {"Connected"}
  BY States DEF DisconnectFrom, StateDisconnected
<1>4. session \in 0 .. SessionNumbers - 1
  BY DEF IInv, Shapes
<1> QED
  BY <1>2, <1>3, <1>4, ClearedKeeps DEF DisconnectFrom

\* netcode has taken the token, or will refuse it.
LEMMA MadeWith ==
  ASSUME NEW s, NEW n
  PROVE  [Made(s, Some(0)) EXCEPT !.client = Some(n)] = Made(s, Some(n))
<1> DEFINE sim == IF HasSimulator THEN Some(NewSimulator) ELSE None
           zero == Some(0)
           made == Some(NewConnection)
           held == Some(n)
           one == [endpoints |-> 1, clients |-> 1]
           yes == TRUE
           r == Made(s, Some(0))
<1>1. r = [client |-> zero, endpoint |-> yes, connection |-> made,
           network_simulator |-> sim, allocated |-> one, session |-> s]
  BY OptionLength DEF Made
<1>2. Made(s, Some(n))
        = [client |-> held, endpoint |-> yes, connection |-> made,
           network_simulator |-> sim, allocated |-> one, session |-> s]
  BY OptionLength DEF Made
<1> HIDE DEF sim, zero, made, held, one, yes, r
<1>3. [r EXCEPT !.client = held]
        = [client |-> held, endpoint |-> yes, connection |-> made,
           network_simulator |-> sim, allocated |-> one, session |-> s]
  BY <1>1
<1> QED
  BY <1>2, <1>3 DEF r, held

\* connect keeps the invariant, and begins a new session.
LEMMA ConnectKeeps ==
  ASSUME IInv, NEW n \in NetcodeStates, client_state' \in {"Connecting", "Error"},
         Becomes([Create(Some(0)) EXCEPT !.client = Some(n)]), clock' = clock
  PROVE  IInv'
<1> DEFINE s == (session + 1) % SessionNumbers
<1>1. s \in 0 .. SessionNumbers - 1
  BY NextSessionNumber
<1> DEFINE sim == IF HasSimulator THEN Some(NewSimulator) ELSE None
<1>2. Create(Some(0)) = Made(s, Some(0))
  BY AllMade
<1> HIDE DEF s
<1>3. Becomes(Made(s, Some(n)))
  BY <1>2, MadeWith
<1>4. /\ client' = Some(n) /\ endpoint' = TRUE /\ connection' = Some(NewConnection)
      /\ network_simulator' = sim
      /\ transmitted' = {} /\ session' = s /\ panicked' = panicked
      /\ allocated' = [endpoints |-> 1, clients |-> 1]
  BY <1>3, OptionLength DEF Becomes, Made
<1>5. client_state' \in ClientStates \ {"Connected", "Disconnected"}
  BY States
<1>6. Shapes'
  BY <1>1, <1>4, <1>5, OptionOf DEF Shapes, IInv
<1>7. AllOrNothing'
  BY <1>4, OptionOf DEF AllOrNothing
<1>8. NothingLeaks'
  BY <1>4, OptionLength DEF NothingLeaks
<1>9. StateIsTrue'
  BY <1>5 DEF StateIsTrue, IsConnected
<1>10. OwnConnection'
  <2>1. NewConnection \in Connections({s})
    BY ClientChannels, NewConnectionGood
  <2> QED
    BY <1>4, <2>1, OptionOf DEF OwnConnection
<1>11. OwnSimulator'
  <2>1. NewSimulator \in Simulators(EntriesOf(s))
    BY NewSimulatorGood
  <2> QED
    BY <1>4, <2>1, OptionOf DEF OwnSimulator
<1>12. OwnTransmitted'
  BY <1>4 DEF OwnTransmitted
<1> QED
  BY <1>6, <1>7, <1>8, <1>9, <1>10, <1>11, <1>12 DEF IInv

-----------------------------------------------------------------------------
(* The steps of a session.  What they leave alone keeps its part of the      *)
(* invariant.                                                                *)

\* A step that changes no more than the contents of the connection and of the
\* simulator, and leaves each where it was.
LEMMA ContentsKeep ==
  ASSUME IInv, UNCHANGED <<client_state, resources>>, clock' \in {0, 1},
         panicked' \in BOOLEAN,
         OwnConnection', OwnSimulator', OwnTransmitted',
         connection' = None <=> connection = None,
         network_simulator' = None <=> network_simulator = None
  PROVE  IInv'
<1>1. /\ client_state' = client_state /\ client' = client /\ endpoint' = endpoint
      /\ allocated' = allocated /\ session' = session
  BY DEF resources
<1>2. Shapes'
  BY <1>1 DEF IInv, Shapes
<1>3. AllOrNothing' /\ NothingLeaks' /\ StateIsTrue'
  BY <1>1 DEF IInv, AllOrNothing, NothingLeaks, StateIsTrue, IsConnected
<1> QED
  BY <1>2, <1>3 DEF IInv

\* The connection, if there is one, and what it holds.
LEMMA TheConnection ==
  ASSUME IInv, connection # None
  PROVE  /\ connection = Some(connection[1])
         /\ connection[1] \in Connections({session})
BY OptionCases DEF IInv, OwnConnection

\* The simulator, when there is one.
LEMMA TheSimulator ==
  ASSUME IInv, network_simulator # None
  PROVE  /\ network_simulator = Some(network_simulator[1])
         /\ network_simulator[1] \in Simulators(EntriesOf(session))
BY OptionCases DEF IInv, OwnSimulator

\* A channel of the connection is replaced.
LEMMA ChannelReplaced ==
  ASSUME NEW conn, NEW c, NEW ch
  PROVE  [Some(conn) EXCEPT ![1].channels[c] = ch] = Some([conn EXCEPT !.channels[c] = ch])
BY DEF Some

\* SendMessage keeps the invariant.
LEMMA NextSend ==
  ASSUME IInv, NEW c \in ChannelIndexes, SendMessage(c)
  PROVE  IInv'
<1> DEFINE conn == connection[1]
           sent == ChannelSend(conn.channels[c], session)
<1>1. /\ connection # None /\ transmitted' = {}
      /\ connection' = [connection EXCEPT ![1].channels[c] = sent]
      /\ UNCHANGED <<client_state, resources>> /\ network_simulator' = network_simulator
      /\ clock' = clock /\ panicked' = panicked
  BY DEF SendMessage
<1>2. connection = Some(conn) /\ conn \in Connections({session})
  BY <1>1, TheConnection
<1> DEFINE next == [conn EXCEPT !.channels[c] = sent]
<1>3. next \in Connections({session})
  BY <1>2, ConnectionSendKeeps
<1>4. connection' = Some(next)
  <2> HIDE DEF conn, sent
  <2> QED
    BY <1>1, <1>2 DEF Some
<1> HIDE DEF next
<1>5. session' = session /\ clock' \in {0, 1} /\ panicked' \in BOOLEAN
  BY <1>1 DEF resources, IInv, Shapes
<1>6. OwnConnection'
  BY <1>3, <1>4, <1>5, OptionOf DEF OwnConnection
<1>7. OwnSimulator' /\ OwnTransmitted'
  BY <1>1, <1>5 DEF OwnSimulator, OwnTransmitted, IInv
<1> QED
  BY <1>1, <1>4, <1>5, <1>6, <1>7, OptionOf, ContentsKeep

\* ReceiveMessage keeps the invariant.
LEMMA NextReceive ==
  ASSUME IInv, NEW c \in ChannelIndexes, ReceiveMessage(c)
  PROVE  IInv'
<1> DEFINE conn == connection[1]
           rest == ChannelReceive(conn.channels[c])
<1>1. /\ connection # None /\ transmitted' = {}
      /\ ChannelCanReceive(conn.channels[c])
      /\ connection' = [connection EXCEPT ![1].channels[c] = rest]
      /\ UNCHANGED <<client_state, resources>> /\ network_simulator' = network_simulator
      /\ clock' = clock /\ panicked' = panicked
  BY DEF ReceiveMessage
<1>2. connection = Some(conn) /\ conn \in Connections({session})
  BY <1>1, TheConnection
<1> DEFINE next == [conn EXCEPT !.channels[c] = rest]
<1>3. next \in Connections({session})
  BY <1>1, <1>2, ConnectionReceiveKeeps
<1>4. connection' = Some(next)
  <2> HIDE DEF conn, rest
  <2> QED
    BY <1>1, <1>2 DEF Some
<1> HIDE DEF next
<1>5. session' = session /\ clock' \in {0, 1} /\ panicked' \in BOOLEAN
  BY <1>1 DEF resources, IInv, Shapes
<1>6. OwnConnection'
  BY <1>3, <1>4, <1>5, OptionOf DEF OwnConnection
<1>7. OwnSimulator' /\ OwnTransmitted'
  BY <1>1, <1>5 DEF OwnSimulator, OwnTransmitted, IInv
<1> QED
  BY <1>1, <1>4, <1>5, <1>6, <1>7, OptionOf, ContentsKeep

\* Configure keeps the invariant.
LEMMA NextConfigure ==
  ASSUME IInv, Configure
  PROVE  IInv'
<1> DEFINE sim == network_simulator[1]
           E == EntriesOf(session)
<1>1. /\ network_simulator # None /\ transmitted' = {}
      /\ UNCHANGED <<client_state, resources>> /\ connection' = connection
      /\ clock' = clock /\ panicked' = panicked
  BY DEF Configure
<1>2. sim \in Simulators(E)
  BY <1>1, TheSimulator
<1>3. \E next \in Simulators(E) : network_simulator' = Some(next)
  <2>1. CASE \E active \in BOOLEAN : network_simulator' = Some(SetActive(sim, active))
    <3>1. PICK active \in BOOLEAN : network_simulator' = Some(SetActive(sim, active))
      BY <2>1
    <3>2. SetActive(sim, active) \in Simulators(E)
      BY <1>2, SetActiveGood
    <3> QED
      BY <3>1, <3>2
  <2>2. CASE network_simulator' = Some(DiscardPackets(sim))
    <3>1. DiscardPackets(sim) \in Simulators(E)
      BY <1>2, DiscardGood
    <3> QED
      BY <2>2, <3>1
  <2> QED
    BY <2>1, <2>2 DEF Configure
<1> HIDE DEF E
<1>4. session' = session /\ clock' \in {0, 1} /\ panicked' \in BOOLEAN
  BY <1>1 DEF resources, IInv, Shapes
<1>5. OwnSimulator' /\ network_simulator' # None
  BY <1>3, <1>4, OptionOf DEF OwnSimulator, E
<1>6. OwnConnection' /\ OwnTransmitted'
  BY <1>1, <1>4 DEF OwnConnection, OwnTransmitted, IInv
<1> QED
  BY <1>1, <1>4, <1>5, <1>6, ContentsKeep

\* SendPackets keeps the invariant.
LEMMA NextSendPackets ==
  ASSUME IInv, SendPackets
  PROVE  IInv'
<1> DEFINE conn == connection[1]
           generated == GeneratePacket(conn, 0, BufferBits)
           sim == network_simulator[1]
           packet == Packet(generated.data)
           E == EntriesOf(session)
<1>1. client # None
  BY OptionOf DEF SendPackets, IInv, StateIsTrue
<1>2. connection # None /\ SendGenerated(generated)
  BY <1>1 DEF SendPackets
<1>3. conn \in Connections({session})
  BY <1>2, TheConnection
<1>4. MeasuredMessages({session}) /\ BufferBits \in Int
  BY SessionsMeasured, ClientAssumption DEF IInv, Shapes
<1>5. generated.connection \in Connections({session}) /\ generated.data \in DataOf({session})
  BY <1>3, <1>4, GeneratePacketKeepsMessages
<1>6. packet \in PacketsOf(session)
  BY <1>5 DEF Packet, PacketsOf
<1>7. /\ connection' = Some(generated.connection)
      /\ panicked' = (generated.panic # NoPanic)
      /\ UNCHANGED <<client_state, resources>> /\ clock' = clock
      /\ \/ transmitted' = {} /\ network_simulator' = network_simulator
         \/ \E copies \in Copies : TransmitPacket(generated.data, copies)
  BY <1>2 DEF SendGenerated
<1>8. session' = session /\ clock' \in {0, 1}
  BY <1>7 DEF resources, IInv, Shapes
<1> HIDE DEF conn, generated, sim, packet
<1>9. /\ OwnSimulator' /\ OwnTransmitted'
      /\ network_simulator' = None <=> network_simulator = None
  <2>1. CASE transmitted' = {} /\ network_simulator' = network_simulator
    BY <1>8, <2>1 DEF OwnSimulator, OwnTransmitted, IInv
  <2>2. CASE \E copies \in Copies : TransmitPacket(generated.data, copies)
    <3>1. PICK copies \in Copies : TransmitPacket(generated.data, copies)
      BY <2>2
    <3>2. CASE SimulatorActive
      <4>1. /\ network_simulator # None /\ sim.active /\ transmitted' = {}
            /\ network_simulator' = Some(SimulatorSend(sim, 0, packet, copies))
        BY <3>1, <3>2 DEF TransmitPacket, SimulatorActive, sim, packet
      <4>2. sim \in Simulators(E)
        BY <4>1, TheSimulator DEF sim
      <4>3. [client_index |-> 0, packet |-> packet, consumed |-> FALSE] \in E
        BY <1>6 DEF EntriesOf
      <4> HIDE DEF E
      <4>4. SimulatorSend(sim, 0, packet, copies) \in Simulators(E)
        BY <4>1, <4>2, <4>3, SimulatorSendGood
      <4> QED
        BY <1>8, <4>1, <4>4, OptionOf DEF OwnSimulator, OwnTransmitted, E
    <3>3. CASE ~SimulatorActive
      <4>1. transmitted' = {packet} /\ network_simulator' = network_simulator
        BY <3>1, <3>3 DEF TransmitPacket, packet
      <4> QED
        BY <1>6, <1>8, <4>1 DEF OwnSimulator, OwnTransmitted, IInv
    <3> QED
      BY <3>2, <3>3
  <2> QED
    BY <1>7, <2>1, <2>2
<1>10. OwnConnection' /\ connection' # None
  BY <1>5, <1>7, <1>8, OptionOf DEF OwnConnection
<1> QED
  BY <1>2, <1>7, <1>8, <1>9, <1>10, ContentsKeep

\* ReceivePackets keeps the invariant.
LEMMA NextReceivePackets ==
  ASSUME IInv, ReceivePackets
  PROVE  IInv'
<1> DEFINE conn == connection[1]
           data(c) == <<[channel_index |-> c, messages |-> <<session>>]>>
<1>1. client # None /\ connection # None
  BY OptionOf DEF ReceivePackets, IInv, StateIsTrue, AllOrNothing
<1>2. conn \in Connections({session})
  BY <1>1, TheConnection
<1>3. PICK c \in ChannelIndexes : connection' = Some(ProcessPacket(conn, 0, data(c)).connection)
  BY <1>1 DEF ReceivePackets
<1>4. data(c) \in DataOf({session})
  BY DEF DataOf
<1>5. ProcessPacket(conn, 0, data(c)).connection \in Connections({session})
  BY <1>2, <1>4, ProcessPacketKeeps
<1>6. /\ transmitted' = {} /\ UNCHANGED <<client_state, resources>>
      /\ network_simulator' = network_simulator /\ clock' = clock /\ panicked' = panicked
  BY <1>1 DEF ReceivePackets
<1>7. session' = session /\ clock' \in {0, 1} /\ panicked' \in BOOLEAN
  BY <1>6 DEF resources, IInv, Shapes
<1>8. OwnConnection' /\ connection' # None
  BY <1>3, <1>5, <1>7, OptionOf DEF OwnConnection
<1>9. OwnSimulator' /\ OwnTransmitted'
  BY <1>6, <1>7 DEF OwnSimulator, OwnTransmitted, IInv
<1> QED
  BY <1>1, <1>6, <1>7, <1>8, <1>9, ContentsKeep

-----------------------------------------------------------------------------
(* advance_time.                                                             *)

\* The simulator is advanced before packets are taken from it, so the assertion of
\* receive_packets holds.
LEMMA FlushKeeps ==
  ASSUME IInv, Flush(Advanced(network_simulator))
  PROVE  /\ network_simulator' \in Options(Simulators(EntriesOf(session)))
         /\ network_simulator' = None <=> network_simulator = None
         /\ transmitted' \in SUBSET PacketsOf(session)
         /\ panicked' = panicked
<1> DEFINE sim == AdvanceSimulator(network_simulator[1])
           E == EntriesOf(session)
<1>1. CASE network_simulator = None
  <2>1. Advanced(network_simulator) = None
    BY <1>1 DEF Advanced
  <2> QED
    BY <1>1, <2>1, OptionOf DEF Flush
<1>2. CASE network_simulator # None
  <2>1. Queueable(E)
    BY EntriesQueueable
  <2>2. Advanced(network_simulator) = Some(sim)
    BY <1>2 DEF Advanced
  <2>3. sim \in Simulators(E) /\ ~ReceiveAsserts(sim)
    BY <1>2, <2>1, TheSimulator, AdvanceSimulatorGood
  <2> HIDE DEF E, sim
  <2>4. CASE sim.active
    <3>1. PICK due \in SUBSET DOMAIN sim.entries :
             /\ network_simulator' = Some(SimulatorReceive(sim, due))
             /\ transmitted' = {sim.entries[k].packet : k \in due}
             /\ UNCHANGED panicked
      BY <2>2, <2>3, <2>4, OptionOf DEF Flush
    <3>2. SimulatorReceive(sim, due) \in Simulators(E)
      BY <2>1, <2>3, SimulatorReceiveGood
    <3>3. \A k \in due : sim.entries[k] \in E
      BY <2>3, SimulatorFields
    <3>4. \A e \in E : e.packet \in PacketsOf(session)
      BY DEF E, EntriesOf
    <3> QED
      BY <1>2, <3>1, <3>2, <3>3, <3>4, OptionOf DEF E
  <2>5. CASE ~sim.active
    <3>1. network_simulator' = Some(sim) /\ transmitted' = {} /\ panicked' = panicked
      BY <2>2, <2>5, OptionOf DEF Flush
    <3> QED
      BY <1>2, <2>3, <3>1, OptionOf DEF E
  <2> QED
    BY <2>4, <2>5
<1> QED
  BY <1>1, <1>2

\* What netcode says, and what the client says it is, when the session goes on.
LEMMA NetcodeKeeps ==
  ASSUME NEW k \in NetcodeStates, NEW n \in NetcodeUpdate(k)
  PROVE  /\ n \in NetcodeStates
         /\ StateFromNetcode(n) \in ClientStates
         /\ StateFromNetcode(n) = "Connected" => n = 3
         /\ StateFromNetcode(n) \notin Ended => StateFromNetcode(n) # "Disconnected"
<1>1. n \in NetcodeStates /\ n \in Int
  BY DEF NetcodeUpdate, NetcodeStates, Handshake
<1>2. n < 0 \/ n = 0 \/ n \in Handshake \/ n = 3
  BY <1>1 DEF NetcodeStates, Handshake
<1> QED
  BY <1>1, <1>2, States DEF StateFromNetcode, Handshake, Ended

\* The netcode part of advance_time keeps the invariant, with a disconnect
\* inside it or without.
LEMMA AdvanceNetcodeKeeps ==
  ASSUME IInv, NEW conn \in Options(Connections({session})),
         conn = None <=> connection = None,
         AdvanceNetcode(conn), clock' \in {0, 1}
  PROVE  IInv'
<1>1. CASE client = None
  <2>1. /\ connection' = conn /\ network_simulator' = Advanced(network_simulator)
        /\ transmitted' = {} /\ UNCHANGED <<client_state, resources>>
        /\ panicked' = panicked
    BY <1>1 DEF AdvanceNetcode
  <2>2. network_simulator = None
    BY <1>1 DEF IInv, AllOrNothing
  <2>3. network_simulator' = None
    BY <2>1, <2>2 DEF Advanced
  <2>4. session' = session /\ panicked' \in BOOLEAN
    BY <2>1 DEF resources, IInv, Shapes
  <2>5. OwnConnection' /\ OwnSimulator' /\ OwnTransmitted'
    BY <2>1, <2>3, <2>4, OptionOf DEF OwnConnection, OwnSimulator, OwnTransmitted
  <2> QED
    BY <2>1, <2>2, <2>3, <2>4, <2>5, ContentsKeep
<1>2. CASE client # None
  <2>1. client = Some(client[1]) /\ client[1] \in NetcodeStates
    BY <1>2, OptionCases DEF IInv, Shapes
  <2>2. PICK n \in NetcodeUpdate(client[1]) :
           IF StateFromNetcode(n) \in Ended
           THEN DisconnectFrom(StateFromNetcode(n))
           ELSE /\ client_state' = StateFromNetcode(n)
                /\ client' = Some(n)
                /\ connection' = conn
                /\ Flush(Advanced(network_simulator))
                /\ UNCHANGED <<endpoint, allocated, session>>
    BY <1>2 DEF AdvanceNetcode
  <2> DEFINE state == StateFromNetcode(n)
  <2>3. /\ n \in NetcodeStates /\ state \in ClientStates
        /\ state = "Connected" => n = 3
        /\ state \notin Ended => state # "Disconnected"
    BY <2>1, NetcodeKeeps
  <2>4. CASE state \in Ended
    BY <2>2, <2>3, <2>4, DisconnectKeeps
  <2>5. CASE state \notin Ended
    <3>1. /\ client_state' = state /\ client' = Some(n) /\ connection' = conn
          /\ Flush(Advanced(network_simulator))
          /\ endpoint' = endpoint /\ allocated' = allocated /\ session' = session
      BY <2>2, <2>5
    <3>2. /\ network_simulator' \in Options(Simulators(EntriesOf(session)))
          /\ network_simulator' = None <=> network_simulator = None
          /\ transmitted' \in SUBSET PacketsOf(session)
          /\ panicked' = panicked
      BY <3>1, FlushKeeps
    <3> HIDE DEF state
    <3>3. Shapes'
      BY <2>3, <3>1, <3>2, OptionOf DEF Shapes, IInv
    <3>4. AllOrNothing'
      BY <1>2, <3>1, <3>2, OptionOf DEF AllOrNothing, IInv
    <3>5. NothingLeaks'
      <4>1. Len(client') = Len(client)
        BY <2>1, <3>1 DEF Some
      <4> QED
        BY <3>1, <4>1 DEF NothingLeaks, IInv
    <3>6. StateIsTrue'
      BY <2>3, <2>5, <3>1 DEF StateIsTrue, IsConnected
    <3>7. OwnConnection' /\ OwnSimulator' /\ OwnTransmitted'
      BY <3>1, <3>2 DEF OwnConnection, OwnSimulator, OwnTransmitted
    <3> QED
      BY <3>3, <3>4, <3>5, <3>6, <3>7 DEF IInv
  <2> QED
    BY <2>4, <2>5
<1> QED
  BY <1>1, <1>2

\* AdvanceTime keeps the invariant.
LEMMA NextAdvance ==
  ASSUME IInv, AdvanceTime
  PROVE  IInv'
<1> DEFINE conn == AdvanceConnection(connection[1])
<1>1. clock' \in {0, 1}
  BY DEF AdvanceTime, IInv, Shapes
<1>2. CASE endpoint /\ connection # None
  <2>1. conn \in Connections({session})
    BY <1>2, TheConnection, AdvanceConnectionKeeps
  <2>2. IF conn.error_level # "None" THEN DisconnectFrom(client_state)
                                     ELSE AdvanceNetcode(Some(conn))
    BY <1>2 DEF AdvanceTime
  <2>3. client_state \in ClientStates
    BY DEF IInv, Shapes
  <2> HIDE DEF conn
  <2>4. Some(conn) \in Options(Connections({session})) /\ Some(conn) # None
    BY <2>1, OptionOf
  <2>5. CASE conn.error_level # "None"
    BY <1>1, <2>2, <2>3, <2>5, DisconnectKeeps
  <2>6. CASE conn.error_level = "None"
    <3>1. AdvanceNetcode(Some(conn))
      BY <2>2, <2>6
    <3> QED
      BY <1>1, <1>2, <2>4, <3>1, AdvanceNetcodeKeeps
  <2> QED
    BY <2>5, <2>6
<1>3. CASE ~(endpoint /\ connection # None)
  <2>1. AdvanceNetcode(connection)
    BY <1>3 DEF AdvanceTime
  <2>2. connection \in Options(Connections({session}))
    BY DEF IInv, OwnConnection
  <2> QED
    BY <1>1, <2>1, <2>2, AdvanceNetcodeKeeps
<1> QED
  BY <1>2, <1>3

-----------------------------------------------------------------------------
(* The theorems.                                                             *)

\* The invariant holds initially.
LEMMA InitGood == Init => IInv
<1> SUFFICES ASSUME Init PROVE IInv
  OBVIOUS
<1>1. Shapes
  <2>1. None \in Options(NetcodeStates)
    BY OptionOf
  <2>2. 0 \in 0 .. SessionNumbers - 1
    BY ClientAssumption
  <2> QED
    BY <2>1, <2>2, States DEF Init, Shapes
<1>2. AllOrNothing
  BY DEF Init, AllOrNothing
<1>3. NothingLeaks
  <2>1. Len(client) = 0
    BY DEF Init, None
  <2> QED
    BY <2>1 DEF Init, NothingLeaks
<1>4. StateIsTrue
  BY States DEF Init, StateIsTrue, IsConnected
<1>5. OwnConnection /\ OwnSimulator /\ OwnTransmitted
  BY OptionOf DEF Init, OwnConnection, OwnSimulator, OwnTransmitted
<1> QED
  BY <1>1, <1>2, <1>3, <1>4, <1>5 DEF IInv

\* A stuttering step keeps the invariant.
LEMMA NothingKeeps ==
  ASSUME IInv, UNCHANGED vars
  PROVE  IInv'
<1>1. /\ UNCHANGED <<client_state, resources>> /\ connection' = connection
      /\ network_simulator' = network_simulator /\ transmitted' = transmitted
      /\ clock' = clock /\ panicked' = panicked
  BY DEF vars
<1>2. session' = session /\ clock' \in {0, 1} /\ panicked' \in BOOLEAN
  BY <1>1 DEF resources, IInv, Shapes
<1>3. OwnConnection' /\ OwnSimulator' /\ OwnTransmitted'
  BY <1>1, <1>2 DEF OwnConnection, OwnSimulator, OwnTransmitted, IInv
<1> QED
  BY <1>1, <1>2, <1>3, ContentsKeep

\* Every step keeps the invariant.
LEMMA NextKeeps ==
  ASSUME IInv, Next
  PROVE  IInv'
<1>1. CASE Connect
  <2>1. PICK n \in {1, -5} : Becomes([Create(Some(0)) EXCEPT !.client = Some(n)])
    BY <1>1 DEF Connect
  <2>2. n \in NetcodeStates
    BY DEF NetcodeStates
  <2>3. client_state' = "Connecting" /\ clock' = clock
    BY <1>1 DEF Connect
  <2> QED
    BY <2>1, <2>2, <2>3, ConnectKeeps
<1>2. CASE FailToken
  <2>1. 0 \in NetcodeStates
    BY DEF NetcodeStates
  <2>2. Create(Some(0)) = [Create(Some(0)) EXCEPT !.client = Some(0)]
    BY AllMade DEF Made
  <2>3. /\ Becomes(Create(Some(0))) /\ client_state' = "Error" /\ clock' = clock
    BY <1>2 DEF FailToken
  <2> QED
    BY <2>1, <2>2, <2>3, ConnectKeeps
<1>3. CASE FailCreate
  <2> DEFINE s == (session + 1) % SessionNumbers
  <2>1. s \in 0 .. SessionNumbers - 1
    BY NextSessionNumber
  <2>2. client_state' \in ClientStates \ {"Connected"} /\ clock' \in {0, 1}
    BY <1>3, States DEF StateDisconnected, FailCreate, IInv, Shapes
  <2>3. DestroyAll(Create(None)) = AllGone(s)
    BY AllMade, MadeDestroyed
  <2>4. Becomes(DestroyAll(Create(None)))
    BY <1>3 DEF FailCreate
  <2> HIDE DEF s
  <2> QED
    BY <2>1, <2>2, <2>3, <2>4, ClearedKeeps
<1>4. CASE Disconnect
  <2>1. client_state \in ClientStates /\ clock' \in {0, 1}
    BY <1>4 DEF Disconnect, IInv, Shapes
  <2> QED
    BY <1>4, <2>1, DisconnectKeeps DEF Disconnect
<1>5. CASE \E c \in ChannelIndexes : SendMessage(c)
  BY <1>5, NextSend
<1>6. CASE \E c \in ChannelIndexes : ReceiveMessage(c)
  BY <1>6, NextReceive
<1>7. CASE Configure
  BY <1>7, NextConfigure
<1>8. CASE SendPackets
  BY <1>8, NextSendPackets
<1>9. CASE ReceivePackets
  BY <1>9, NextReceivePackets
<1>10. CASE AdvanceTime
  BY <1>10, NextAdvance
<1> QED
  BY <1>1, <1>2, <1>3, <1>4, <1>5, <1>6, <1>7, <1>8, <1>9, <1>10 DEF Next

\* The parts of the invariant hold in every reachable state.
THEOREM ClientInvariant == Spec => []IInv
<1>1. Init => IInv
  BY InitGood
<1>2. IInv /\ [Next]_vars => IInv'
  BY NextKeeps, NothingKeeps
<1> QED
  BY <1>1, <1>2, PTL DEF Spec

\* Every reachable state has the shapes of TypeOK.
THEOREM ClientTypeOK == Spec => []TypeOK
<1>1. ASSUME IInv PROVE TypeOK
  <2>1. client \in {None} \cup {Some(n) : n \in NetcodeStates}
    BY <1>1 DEF IInv, Shapes, Options
  <2>2. connection # None => DOMAIN connection[1].channels = ChannelIndexes
    BY <1>1, TheConnection, ConnectionFields
  <2>3. network_simulator # None => Len(network_simulator[1].entries) <= SimulatorCapacity
    BY <1>1, TheSimulator, SimulatorFields
  <2> QED
    BY <1>1, <2>1, <2>2, <2>3 DEF TypeOK, IInv, Shapes, ClientStates
<1> QED
  BY <1>1, ClientInvariant, PTL

\* The netcode client, the endpoint, the connection and the simulator exist together,
\* whatever fails on the way of a connect.
THEOREM ClientAllOrNothing == Spec => []AllOrNothing
<1>1. IInv => AllOrNothing
  BY DEF IInv
<1> QED
  BY <1>1, ClientInvariant, PTL

\* The C libraries hold what the client knows of.
THEOREM ClientNothingLeaks == Spec => []NothingLeaks
<1>1. IInv => NothingLeaks
  BY DEF IInv
<1> QED
  BY <1>1, ClientInvariant, PTL

\* is_connected and is_disconnected say what netcode says.
THEOREM ClientStateIsTrue == Spec => []StateIsTrue
<1>1. IInv => StateIsTrue
  BY DEF IInv
<1> QED
  BY <1>1, ClientInvariant, PTL

\* No message or packet of an earlier session is in the queues of this one.
THEOREM ClientNothingOfEarlierSessions == Spec => []NothingOfEarlierSessions
<1>1. ASSUME IInv PROVE NothingOfEarlierSessions
  <2> DEFINE own(messages) == ToSet(messages) \subseteq {session}
             current(packet) == /\ packet.session = session
                                /\ \A d \in DOMAIN packet.data : own(packet.data[d].messages)
  <2>1. ASSUME NEW V, NEW messages \in Seq(V)
        PROVE  ToSet(messages) \subseteq V
    BY DEF ToSet
  <2>2. ASSUME NEW packet \in PacketsOf(session)
        PROVE  current(packet)
    <3>1. packet.session = session /\ packet.data \in DataOf({session})
      BY DEF PacketsOf
    <3>2. \A d \in DOMAIN packet.data : packet.data[d].messages \in Seq({session})
      <4> DEFINE S == Seq({session})
      <4> HIDE DEF S
      <4>1. packet.data \in Seq([channel_index : ChannelIndexes, messages : S])
        BY <3>1 DEF DataOf, S
      <4> DEFINE data == packet.data
      <4> HIDE DEF data
      <4> DEFINE R == [channel_index : ChannelIndexes, messages : S]
      <4>2. data \in Seq(R) /\ \A r \in R : r.messages \in S
        BY <4>1 DEF data
      <4> HIDE DEF R
      <4>3. \A d \in DOMAIN data : data[d].messages \in S
        BY <4>2
      <4> QED
        BY <4>3 DEF S, data
    <3> QED
      BY <2>1, <3>1, <3>2
  <2>3. \A packet \in transmitted : current(packet)
    <3>1. transmitted \subseteq PacketsOf(session)
      BY <1>1 DEF IInv, OwnTransmitted
    <3> HIDE DEF current
    <3> QED
      BY <2>2, <3>1
  <2>4. ASSUME network_simulator # None, NEW k \in DOMAIN network_simulator[1].entries
        PROVE  current(network_simulator[1].entries[k].packet)
    <3> DEFINE entry == network_simulator[1].entries[k]
    <3>1. entry \in EntriesOf(session)
      BY <1>1, <2>4, TheSimulator, SimulatorFields
    <3> HIDE DEF current, entry
    <3>2. entry.packet \in PacketsOf(session)
      BY <3>1 DEF EntriesOf
    <3>3. current(entry.packet)
      BY <2>2, <3>2
    <3> QED
      BY <3>3 DEF entry
  <2>5. ASSUME connection # None, NEW c \in ChannelIndexes
        PROVE  LET u == connection[1].channels[c].processor
               IN  /\ own(u.message_send_queue)
                   /\ \A k \in DOMAIN u.message_receive_queue :
                         u.message_receive_queue[k].message = session
    <3> DEFINE u == connection[1].channels[c].processor
    <3>1. connection[1] \in Connections({session})
      BY <1>1, <2>5, TheConnection
    <3>2. connection[1].channels[c] \in UnreliableChannels({session})
      BY <3>1, ConnectionFields
    <3>3. /\ u.message_send_queue \in Seq({session})
          /\ u.message_receive_queue \in Seq([id : Nat, message : {session}])
      BY <3>2, ChannelFields
    <3> HIDE DEF u
    <3>4. own(u.message_send_queue)
      BY <2>1, <3>3
    <3>5. \A k \in DOMAIN u.message_receive_queue : u.message_receive_queue[k].message = session
      <4> DEFINE q == u.message_receive_queue
                 E == [id : Nat, message : {session}]
      <4>1. q \in Seq(E) /\ \A e \in E : e.message = session
        BY <3>3
      <4> HIDE DEF q, E
      <4>2. \A k \in DOMAIN q : q[k].message = session
        BY <4>1
      <4> QED
        BY <4>2 DEF q
    <3> QED
      BY <3>4, <3>5 DEF u
  <2> QED
    BY <2>3, <2>4, <2>5 DEF NothingOfEarlierSessions
<1> QED
  BY <1>1, ClientInvariant, PTL

-----------------------------------------------------------------------------
(* No assertion fails and nothing overflows.                                 *)

\* The configuration that has no panic in it: a buffer with room for the budgets of
\* all channels, whose bits a usize counts, and messages without the check values
\* nobody counts.
PacketFits ==
    /\ CheckBits = 0
    /\ Room(BufferBits)
    /\ UsizeModulus > BufferBits

\* disconnect does not panic.
LEMMA DisconnectIsCalm ==
  ASSUME ~panicked, NEW state, DisconnectFrom(state)
  PROVE  ~panicked'
BY DEF DisconnectFrom, Becomes

\* Neither does send_packets: a connected client has a netcode client, and the
\* budgets leave room for every channel.
LEMMA SendPacketsIsCalm ==
  ASSUME PacketFits, IInv, SendPackets
  PROVE  ~panicked'
<1> DEFINE conn == connection[1]
           generated == GeneratePacket(conn, 0, BufferBits)
<1>1. client # None
  BY OptionOf DEF SendPackets, IInv, StateIsTrue
<1>2. connection # None /\ SendGenerated(generated)
  BY <1>1 DEF SendPackets
<1>3. conn \in Connections({session})
  BY <1>2, TheConnection
<1>4. MeasuredMessages({session}) /\ BufferBits \in Nat
  BY SessionsMeasured, ClientAssumption DEF IInv, Shapes
<1>5. generated.panic = NoPanic
  BY <1>3, <1>4, ClientChannels, GeneratePacketCalm DEF PacketFits
<1> HIDE DEF generated
<1> QED
  BY <1>2, <1>5 DEF SendGenerated

\* Nor does receive_packets.
LEMMA ReceivePacketsIsCalm ==
  ASSUME IInv, ReceivePackets
  PROVE  ~panicked'
<1>1. client # None /\ connection # None
  BY OptionOf DEF ReceivePackets, IInv, StateIsTrue, AllOrNothing
<1> QED
  BY <1>1 DEF ReceivePackets

\* Nor advance_time, which advances the simulator before it takes packets from it.
LEMMA AdvanceTimeIsCalm ==
  ASSUME IInv, AdvanceTime
  PROVE  ~panicked'
<1> DEFINE conn == AdvanceConnection(connection[1])
<1>1. ~panicked
  BY DEF AdvanceTime
<1>2. ASSUME NEW c, AdvanceNetcode(c) PROVE ~panicked'
  <2>1. CASE client = None
    BY <1>1, <1>2, <2>1 DEF AdvanceNetcode
  <2>2. CASE client # None
    <3>1. \/ \E state : DisconnectFrom(state)
          \/ Flush(Advanced(network_simulator))
      BY <1>2, <2>2 DEF AdvanceNetcode
    <3>2. Flush(Advanced(network_simulator)) => panicked' = panicked
      BY FlushKeeps
    <3> QED
      BY <1>1, <3>1, <3>2, DisconnectIsCalm
  <2> QED
    BY <2>1, <2>2
<1>3. CASE endpoint /\ connection # None
  <2>1. \/ DisconnectFrom(client_state)
        \/ AdvanceNetcode(Some(conn))
    BY <1>3 DEF AdvanceTime
  <2> HIDE DEF conn
  <2> QED
    BY <1>1, <1>2, <2>1, DisconnectIsCalm
<1>4. CASE ~(endpoint /\ connection # None)
  BY <1>2, <1>4 DEF AdvanceTime
<1> QED
  BY <1>3, <1>4

\* The client never panics: the assertions of send_packets, receive_packets and of
\* the simulator hold, and no packet overflows its buffer.
THEOREM ClientNothingPanics ==
  ASSUME PacketFits
  PROVE  Spec => []NothingPanics
<1>1. Init => NothingPanics
  BY DEF Init, NothingPanics
<1>2. ASSUME IInv, NothingPanics, [Next]_vars
      PROVE  NothingPanics'
  <2>1. CASE UNCHANGED vars
    BY <1>2, <2>1 DEF vars, NothingPanics
  <2>2. CASE SendPackets
    BY <1>2, <2>2, SendPacketsIsCalm DEF NothingPanics
  <2>3. CASE ReceivePackets
    BY <1>2, <2>3, ReceivePacketsIsCalm DEF NothingPanics
  <2>4. CASE AdvanceTime
    BY <1>2, <2>4, AdvanceTimeIsCalm DEF NothingPanics
  <2>5. CASE \/ Connect \/ FailToken
    BY <1>2, <2>5 DEF Connect, FailToken, Becomes, NothingPanics
  <2>6. CASE \/ FailCreate \/ Disconnect
    BY <1>2, <2>6, DisconnectIsCalm DEF FailCreate, Disconnect, Becomes, NothingPanics
  <2>7. CASE \/ \E c \in ChannelIndexes : SendMessage(c)
             \/ \E c \in ChannelIndexes : ReceiveMessage(c)
             \/ Configure
    BY <1>2, <2>7 DEF SendMessage, ReceiveMessage, Configure, NothingPanics
  <2> QED
    BY <1>2, <2>1, <2>2, <2>3, <2>4, <2>5, <2>6, <2>7 DEF Next
<1> QED
  BY <1>1, <1>2, ClientInvariant, PTL DEF Spec
==============================================================================
