----------------------------- MODULE NetworkSimulator -----------------------------
(***************************************************************************)
(* NetworkSimulator (src/src/network_simulator.rs): a queue that holds the  *)
(* packets a client or a server sends back for a while, to simulate a bad   *)
(* network.  A simulator is a record and every method an operator.          *)
(*                                                                          *)
(* Latency, jitter, loss and duplicates are numbers that only choose how    *)
(* many copies of a packet are queued and when each is due: these choices   *)
(* are arguments (copies, due), of which the module that uses the simulator *)
(* takes any.                                                               *)
(***************************************************************************)
EXTENDS Naturals, SequencesExt

CONSTANT MaxSimulatorPackets   \* max_simulator_packets

ASSUME SimulatorAssumption == MaxSimulatorPackets \in Nat

\* The capacity of the VecDeque: one without any grows to 4 at the first push.
SimulatorCapacity == IF MaxSimulatorPackets = 0 THEN 4 ELSE MaxSimulatorPackets

NewSimulator == [active |-> FALSE, entries |-> <<>>]

DiscardPackets(sim) == [sim EXCEPT !.entries = <<>>]

KeepOthers(client_index, kept, entry) ==
    IF entry.client_index = client_index THEN kept ELSE Append(kept, entry)

DiscardClientPackets(sim, client_index) ==
    LET keep(kept, entry) == KeepOthers(client_index, kept, entry)
    IN  [sim EXCEPT !.entries = FoldLeft(keep, <<>>, @)]

\* The setters of latency, jitter, loss and duplicates with update_active: a
\* simulator that becomes inactive drops what it holds.
SetActive(sim, active) ==
    IF sim.active /\ ~active
    THEN [DiscardPackets(sim) EXCEPT !.active = FALSE]
    ELSE [sim EXCEPT !.active = active]

KeepWaiting(kept, entry) == IF entry.consumed THEN kept ELSE Append(kept, entry)

\* advance_time: entries already received are removed.
AdvanceSimulator(sim) == [sim EXCEPT !.entries = FoldLeft(KeepWaiting, <<>>, @)]

\* Bug: the queue grows.
PushUnbounded(sim, entry) == [sim EXCEPT !.entries = Append(@, entry)]

\* push_packet: the oldest entry makes room, received or not.
PushPacket(sim, entry) ==
    LET room == IF Len(sim.entries) = SimulatorCapacity THEN Tail(sim.entries)
                                                        ELSE sim.entries
    IN  [sim EXCEPT !.entries = Append(room, entry)]

\* send_packet: a packet is lost, queued, or queued twice.
Copies == 0 .. 2

SimulatorSend(sim, client_index, packet, copies) ==
    LET entry == [client_index |-> client_index, packet |-> packet, consumed |-> FALSE]
    IN  FoldLeft(PushPacket, sim, [n \in 1 .. copies |-> entry])

\* receive_packets asserts that no entry has been received before.
ReceiveAsserts(sim) == \E k \in DOMAIN sim.entries : sim.entries[k].consumed

\* receive_packets: the entries that are due are marked; they are what it returns.
SimulatorReceive(sim, due) ==
    [sim EXCEPT !.entries = [k \in DOMAIN @ |->
                                IF k \in due THEN [@[k] EXCEPT !.consumed = TRUE] ELSE @[k]]]
==============================================================================
