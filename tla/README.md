# A TLA+ model of yojimbo-rs

yojimbo-rs (`src/`) is a Rust port of yojimbo, a client/server message library
for games on top of the C libraries netcode (connections over UDP) and reliable
(packet sequences and acknowledgements). These modules model the part of it
that yojimbo-rs implements itself: sequence buffers, channels, connections, and
how a client and a server drive them. TLC checks the modules on small
instances; TLAPS checks proofs about the sequence buffer, the reliable channel, the
connections, the packets, the client and the server for every instance.

## 1. The system

| Part | Source | State | Operations |
|---|---|---|---|
| SequenceBuffer | `src/channel/sequence_buffer.rs` | a ring of numbered entries, a pointer one past the newest | insert_with, take, get, available, exists, reset |
| Reliable | `src/channel/reliable.rs` | send queue, receive queue, sent packets (three sequence buffers), three message ids, the time | send_message, receive_message, packet_data, process_packet_data, process_ack, advance_time, reset |
| Unreliable | `src/channel/unreliable.rs` | send queue, receive queue (VecDeques) | the same |
| Channel | `src/channel.rs` | a processor, an error level, counters | the same, guarded by the error level |
| Connection | `src/connection.rs` | the channels, an error level | generate_packet, process_packet, process_acks, advance_time, reset |
| Packets | `src/channel/channel_packet_data.rs`, `src/connection.rs` | none | serialize, deserialize, measure |
| Client | `src/client.rs` | a state, and for a session a connection, an endpoint, a netcode client, a simulator | insecure_connect, disconnect, send_packets, receive_packets, advance_time, messages |
| Server | `src/server.rs` | the same for every slot, a netcode server | start, stop, send_packets, receive_packets, advance_time, disconnect_client |
| NetworkSimulator | `src/network_simulator.rs` | a queue of delayed packets | send_packet, receive_packets, advance_time, discard, setters |
| Config, message, network_info, bindings, lib | `src/*.rs` | none | values passed on to the others |
| netcode, reliable | `src/lib` (submodules, empty) | external | |

(Sources are relative to `src/src`, except `src/lib`.)

**Interaction.** Everything runs in one thread, the caller's. The program loops
over `advance_time`, `receive_packets`, its own messages, and `send_packets`
(repository README, "Architecture & Usage"). `send_packets` asks every channel
of a connection, in order, for messages that fit in what is left of the packet;
the endpoint gives the packet a 16 bit sequence and writes in it the sequences
of the packets it has received. `receive_packets` hands every packet to the
endpoint, which calls back `process_packet`; only if that returns true does the
endpoint count the packet as received and read the acknowledgements in it.
`advance_time` first looks for channels in an error state and disconnects, then
takes the acknowledged sequences from the endpoint to every channel.

**What is hard.** There are no threads and nothing is stored, so the hard part
is the two peers and the network between them: packets and acks lost, repeated
and reordered; message ids and packet sequences that wrap, each used for both a
slot in a ring and a distance; a message acked by any of several packets; one
packet shared by channels of which some are idle, full or in an error state; a
slot of the server used by one client after the other; a client whose connect can
fail half way, with objects of two C libraries to be freed by hand; and a budget of
bits that is counted down by hand. `PROJECT.json` lists these hazards at their lines.

**What makes each part correct.** A sequence buffer is a map of the newest
entries. A reliable channel is a FIFO that loses nothing and, as long as acks
come, gets everything through. An unreliable channel delivers nothing but what
was sent in the session. A connection takes a packet in wholly or does not
acknowledge it, ends when one of its channels fails, and starts anew for the
next client. A packet never holds more than its buffer, and is read as it was
written. A client has all that a session needs or nothing, tells its user which,
and keeps sessions apart.

## 2. Modules

    SequenceNumbers -- u16 arithmetic and comparison
      SequenceBuffer -- the ring                      WindowMap -- its abstract specification
        SequenceBufferMachine                         implements WindowMap
        ChannelConfig
          Reliable -- one end                         FifoChannel -- abstract specification
            ReliableChannel -- two ends, a network    implements FifoChannel
          Unreliable -- one end
            Channel -- an error level around either
              Connection -- several channels
                ConnectionPair -- client, server, endpoints, network
                PacketFormat -- the stream of a packet
                  PacketBudget -- how channels share a packet
                Server -- the slots of a server
                Client -- a client's states and sessions
        NetworkSimulator -- delayed packets, of a Server or a Client
    FoldTheory -- the proof rules for loops
    OperatorLemmas -- what the operators of the modules without variables do
    SequenceBufferProofs, ReliableChannelProofs, ConnectionPairProofs,
      PacketBudgetProofs, ClientProofs, ServerProofs -- theorems

`SequenceBuffer`, `Reliable`, `Unreliable`, `Channel`, `Connection`, `PacketFormat`
and `NetworkSimulator` have no variables: a buffer, a channel, a connection is a record, and each method of the
source is an operator of nearly its name that takes the record and returns the
record afterwards. The modules with variables, `SequenceBufferMachine`,
`ReliableChannel`, `ConnectionPair`, `PacketBudget`, `Server` and `Client`, have one
action per call an application or the library makes.

**SequenceBuffer.** A slot holds a number and a value, or nothing. The source
keeps two vectors, of numbers and of entries; `reset` and `remove_entries` clear
only the first, and no method reads an entry whose number is cleared, so one
function of slots is enough. `RemoveEntries` keeps the source's peculiarity: a
range that wraps is extended by `u16::MAX` (65535, not 65536), so the last slot
of the range is not cleared. `insert_with` overwrites that slot at once, which
is why nothing stale survives; the proofs and `NothingStale` establish it.

**Reliable.** `time_last_sent` is the time waited since, in ticks up to
`message_resend_time`; that of a new message, -1.0, is `FirstWait` ticks: all of them,
or fewer if `message_resend_time` is more than a second longer than the clock has run. The ids of a sent packet are kept in its entry instead
of in the shared vector `sent_packet_message_ids`. A panic of the source is a
value: the desync panics of `process_packet_data` and the failed assertions of
`send_message` (`SendFails`), `process_ack` (`AckFails`) and
`update_oldest_unacked_message_id` (`OldestPasses`) are results the composing modules
put in `panicked`, after which the program does nothing. `give_up_counter` is left out: it would have to pass
the queue's capacity in a loop that is no longer than that.

**Channel, Connection.** The error level of a channel is `None` or
`SendQueueFull`, the only error the source ever sets. `process_packet` is a fold
over the packet's entries that stops at a channel in an error state; data for a channel
that does not exist are skipped, and the first such index, which the source's test lets
pass, panics. `advance_time` stops at the first errored channel. `generate_packet` starts
with what the header leaves of the buffer (`StartPacket`, which panics for an empty or,
with `OverflowChecks`, a tiny one) and is a fold over the channels with the bits left, as integers that go below zero where the source's
`usize` would: the result is a panic with `OverflowChecks` (debug builds) and
wraps at `UsizeModulus` otherwise.

**ReliableChannel.** One direction of one reliable channel; the other direction
appears as acknowledgements. A packet carries the data of all channels, so
packets without data of this one go out, up to `MaxIdle` in a row.

**ConnectionPair.** Both directions, all channels, real acknowledgements: a
packet carries the sequences its sender has received. It models what is in
`client.rs` and `server.rs` between connect and disconnect: `SendPackets`
(`send_packets`), `DeliverPacket` (`receive_packets` and the `process_packet`
callback), `AdvanceTime` (`advance_time`: an error ends the session *before*
acks are processed), `Disconnected` (netcode notices that the other is gone;
`handle_connect_disconnect` resets the slot, the client drops its connection),
`Reconnect`. The client makes a new `Connection`; the server resets the one it
has. `SendPackets` is bounded by `MaxPackets`, and by `AcksInTime`: acks may wait for
`advance_time` while one packet is sent, as in the loop of the examples (advance_time,
receive_packets, send_packets), not while `Lifetime` more are.

**PacketFormat.** What `serialize` writes and `deserialize` reads, as a stream of
tokens: two-byte and one-byte numbers, messages, check values. A token read as
another type than it was written as is a misread. The count of messages is
written less one, in a byte that holds `CountModulus` (256) values. With
`check = 32` the stream is that of the feature `serialize_check`.

**PacketBudget.** The sending connection alone, with messages of different
sizes, acks and the clock (`AdvanceTime`), which says what is due. It compares what the channels *count* with what `serialize` *writes*, and
reads every packet back.

**Client.** The client as its application sees it. `client_state` is what
`is_connected` and `connection_failed` read; the netcode client, the endpoint, the
connection and the simulator each exist or do not; `allocated` counts what the C
libraries hold. `insecure_connect` is three actions by its outcome: `Connect`
(netcode may still find the token invalid), `FailToken`, `FailCreate`. What the methods
it calls do is an operator each, on a record of what is held (`Now`): `Create` is
`disconnect` (`DestroyClient`, `DestroyInternal`), `connect_internal` and `create_client`,
which begins with `destroy_client`, one after the other; `FailCreate` adds the second
`disconnect`. `AdvanceTime` follows the code: the connection first, whose error
disconnects; the simulator; `netcode_client_update`, which moves its state within a
handshake, to connected, or to an end; the assignment of the state and
`disconnect`; the packets the simulator hands over. A session is numbered
(`session`, a history variable, modulo `SessionNumbers`) and so are its messages and
packets. The client is boxed and stays where it is, as the repository's README asks:
the C libraries keep pointers to it. Dropping a client without `disconnect` leaks what it holds, there
being no `Drop` for it; the model has no action for that.

**Server.** The slots of a server with the network simulator they share: `Start`
and `Stop`, the application's calls for slots with and without a client,
`SendPackets` and `ReceivePackets` over all slots, `DisconnectClient`, and
`AdvanceTime` in the order of the code: netcode first, which may disconnect and
connect clients; then every slot, of which one in an error state is disconnected and
does not advance the simulator; then an active simulator hands its packets over.
`HandleDisconnect` is the callback. A slot's clients are numbered (`client`, a
history variable, modulo `ClientNumbers`), and so is what is meant for each.
Channels are unreliable, since acks are `ConnectionPair`'s subject.

**NetworkSimulator.** The queue with its overwriting at capacity, the `consumed`
marks and the assertion on them. Latency, jitter, loss and duplicates are
replaced by any number of copies and any choice of what is due. Two remarks on
the source: a full queue drops its *oldest* packet though
`NetworkSimulatorConfig` says that "additional packets are dropped", and a queue
made for 0 packets grows to 4 (`SimulatorCapacity`).

**Endpoints and network** are external (`src/lib` is empty here) and modelled
from the use `src/` makes of them. A packet stays in `network` and can be
delivered any number of times, in any order, or never, until it is stale: older
than the last `Lifetime` packets of its sender. An endpoint reports a sequence
as acked once.

## 3. Runs

| Run | Question | Distinct states |
|---|---|---|
| `seq_window` | Is a sequence buffer a map of the newest entries, whatever is inserted? | 2,653 |
| `reliable_safety` | Is one direction of a reliable channel a FIFO that loses nothing? | 1.1 million |
| `reliable_live` | Does every message get through, and make room for others, with one too large behind them? | 135 thousand |
| `connection` | The same for whole connections, with errors, packets that overtake each other or are partly processed, and a reused slot | 1.1 million |
| `connection_live` | Does an error end the session at both ends, do the peers' packets ack each other? | 24 thousand |
| `packet_budget` | Do channels stay within their budget and the packet, does the oldest message go first, is the packet read as it was written? | 576 thousand |
| `server` | Does a slot keep its clients apart, and the simulator's assertion hold, whoever comes, goes and fails? | 21 thousand |
| `client` | Are a client's resources made and destroyed together, sessions kept apart, attempts ended? | 3 thousand |

Four more runs end in a violation, each of one statement the repository makes
and the code does not keep:

| Run | Statement | What happens |
|---|---|---|
| `seq_capacity` | "the buffer remembers everything within range of `size`" (test) | a capacity that does not divide 65536 is accepted and forgets entries when the numbers wrap |
| `idle_channel` | an ack "on *any channel* [...] is enough [to] remove some messages from the send queue" (`channel.rs`) | after 32768 packets without data of a channel, its next packets are not entered in `sent_packets` and their acks free nothing |
| `packet_soak` | `packet_data_bits + CONSERVATIVE_CHANNEL_HEADER_BITS < available_bits` (`connection.rs`) | a channel without a budget may fill the packet; `available_bits` goes below zero |
| `client_error` | "do not overwrite the state if it is `Error`" (`client.rs`) | after a connect for which no token could be made, the next `advance_time` assigns netcode's state, Disconnected, before it calls `disconnect` |

Two consequences are met on the way. An idle channel's entries of sent packets also
stay for a whole round: after 65536 packets of other channels an ack finds one of the
round before and `assert!(!entry.acked)` of `process_ack` fails (`AckFails`); the
passing runs stay below with `MaxIdle` and `MaxPackets`. And a receive queue that is not drained makes
the program panic, where the repository's README says that overfull queues "force a
disconnect": `PanicsOnlyIfUndrained` shows that this is the only panic of
`ReliableChannel` and of `ConnectionPair`, whose client sends more messages than the
server's receive queue holds.

**Bounds.** `Modulus` (65536 in the code) is 8 or 4: small enough that message ids and
packet sequences wrap within a behaviour, which is the case of interest; nothing in the
source depends on the width except that half of it separates "greater" from "less".
Capacities are 1 to 4, so queues fill. `MaxMessages` is above `Modulus` in
`reliable_safety`, so ids are used again while packets with the old ones may still be on
their way, as far as `Lifetime` allows. `Lifetime` is at most a quarter of `Modulus`; an
endpoint remembers far fewer than a quarter of 65536 packets. It is 2 in the `reliable`
runs and in `connection`, where packets of one peer overtake each other, and 1 in
`connection_live`. In `connection` the client sends three messages on the reliable
channel, one more than a queue holds, and one on the other, in up to three packets; the
server sends one in up to two (`MaxPackets`); with `ResendTicks` 1 a message is sent again
only after an `advance_time`, so two packets on their way can have different messages, and
the later may arrive first. Ids and packet sequences do not wrap in this run: they do in
`reliable_safety`, and the sequences in `connection_live`, where a session sends any
number of packets. `MaxIdle` keeps the passing runs on the near side of what happens to an
idle channel. `AcksInTime` of `ConnectionPair` bounds how long an ack waits for
`advance_time`. In `packet_budget` the unreliable channel comes first, so the reliable one
gets what it left; two messages of 32 bits fill the reliable channel's budget exactly, one
of 32 and one of 96 the unreliable one's, and one of 96 is too large for the reliable
channel. The packet holds both budgets exactly. A message that was sent waits for
`advance_time` until it is due again.

In `server` two slots are enough for one to fail, or be free, while the other is
in use, and for both to fail at once, the only case in which `advance_time` leaves
the simulator alone; three client numbers tell a client from the two before it.

In `client` three sessions tell one from the two before it; queues of two and a simulator
of three fill and overflow. In `packet_budget` `CountModulus` equals `MaxPerPacket`, as
256 does by default: the largest count is the largest the byte can hold. In
`reliable_live` `FirstWait` is 0, the worst case; the fourth message exceeds every budget;
it is never sent, and nothing after it could be, so liveness is claimed of the messages
before it (`Sendable`).

**Fairness.** The README asks the application to call `advance_time`,
`send_packets`, `receive_packets` and `receive_message` continuously, hence weak
fairness of those steps; of the network it is assumed that if packets are sent
for ever some arrive, and if they arrive for ever some acks come back before the
packet is stale (strong fairness). Since sending new data is not required of
anyone, the runs show that what has been accepted gets through, not that an
application sends. The conditions are stated on the one variable each step alone
changes (`WF_ended(...)`, `SF_received(...)`): the same requirement as on the
whole action, and one TLC can evaluate quickly. Acks travel only with data:
`OneGetsThrough` is what remains true when both have something to say, and the
repository's README warns of the rest ("make sure any recievers are sending
something back").

In `client` the application keeps calling `advance_time`, and netcode, which times
out, does not leave a handshake as it is for ever; `AttemptEnds` is about one session,
since an application may connect anew before any attempt has ended.

**Deadlock** is checked in `seq_window`, `seq_capacity` and the `packet` runs; in
the others a panic, or the bound on messages, ends the program.

**Mutants.** Every property of a passing run has a bug of its own, an operator
marked "Bug:" next to the definition it replaces, that the run then detects.

## 4. Proofs

All theorems hold for every value of the constants the assumptions allow, however
long a behaviour is. Each is proved from an inductive invariant, with one lemma per
action; `PROJECT.json` lists the theorems.

**The rules for loops.** The source's loops are folds, and the fold of the community
modules recurs over sets of indexes. `FoldTheory` proves once, for any operator `Op`,
that what every round keeps the fold keeps (`FoldKeeps`; `FoldFollows` where the state
after each round is known, `FoldVisits` where the states are in no known set, `FoldAppend`
for one element more), by the least
counterexample instead of an induction theorem; a proof about a loop is an instance
(`Receiving == INSTANCE FoldTheory WITH Op <- ReceiveOneIn`).

**SequenceBuffer** (`OperatorLemmas`, `SequenceBufferProofs`). `TypeCorrect`,
`NoStaleEntries`, `SlotAtPointer` and `BufferImplementsMap`, a step simulation: a `Take`
maps to a `Take`, an `Insert` that moves the pointer to `StoreNewer`, one that does not
to `StoreInWindow` or `Refuse`. All but the first assume `GoodCapacity`: the capacity
divides `Modulus`, is at least 2 and at most half of it. `new` does not require this;
run `seq_capacity` shows that it is needed (1024, the default, satisfies it). The
inductive invariant is `buf \in GoodBuffers`: every entry is in the slot of its number,
and its number is among the `Capacity` numbers just below the pointer. Typing alone is
not inductive: a slot with a number from another round would survive an insert. The
heart of the proof is that `remove_entries` over `pointer .. s`, without the last slot
when the range wraps, followed by the write to the slot of `s`, leaves exactly the
entries that are still in the window.

**Reliable channel** (`ReliableChannelProofs`). All five invariants and
action properties of run `reliable_safety` and the refinement: `ReliableChannelTypeOK`,
`NoMessageLost`, `OldestIsFirst`, `Panics`, `AckFrees`, `ImplementsFifo`. Ids and packet
sequences wrap, so what they mean depends on how far the others are. The proof follows
the *numbers* messages have in the history of the session: the invariant says which
number each id stands for, and that numbers whose ids are still around are less than
half a round apart.

- `SendQueueGood`, `ReceiveQueueGood`: every entry of a queue is a message of the
  queue's window under its own id, and the oldest unacked message, if any, is there.
- `FreedArrived`, `ReceivedArrived`: what left the send queue, and what was in a packet
  the other end took in, is delivered or in the receive queue. This is `NoMessageLost`.
- `PacketMessages`, `PacketsOvertaken`: a packet under way has messages not further
  ahead than the receive queue is long, and of the messages too late to share the send
  queue with one of its own no more have been packed than the later packets hold.
  Without the second part a delayed packet could carry an id that has come round to mean
  another message.
- `SentPacketsGood`, `SentPacketsKept`: the entry `sent_packets` has for a packet that
  can still be acked has the ids of that packet.

The theorems assume `Configured`. Its parts are what the code relies on and does not
check: sizes that divide 65536; `SendQueueSize + (Lifetime - 1) * MaxPerPacket < Half`, so
that no delayed packet's id comes round; a receive queue of at most a quarter of the
ids; and a channel that sends something in every half round of packets (`MaxIdle`; run
`idle_channel` shows what happens otherwise). With the default sizes of 1024 and packets
taken in up to 256 late, the second part holds for at most 124 messages per packet; the
default of `max_messages_per_packet` is 256. So for the defaults as they are nothing is
claimed of a packet that 255 later ones, all full, have overtaken. `AckFrees` also needs
`Lifetime <= SentPacketsSize`.

**Connections** (`ConnectionPairProofs`). `PairTypeOK` and `PairNothingInvented` hold for
channels of any kinds in any order, with no assumption beyond those of the modules. The
invariant, `PairHolds`, follows a message of an unreliable channel all the way: accepted
(`SentBy`), in the send queue (`QueuesHold`), in a packet among the entries of other
channels (`PacketsHold`), in the other's receive queue. It stays true when an entry of a
reliable channel ends `process_packet` half way or generating ends in a panic, because
nothing is asked of reliable channels but their kind and error level. Sessions
follow each other under the same numbers; that nothing passes from one to the next rests
on `p \in over => ... NoMessages`: a peer at which the session is over has empty queues,
after `new` at the client and after `reset` at the server, and takes nothing in until both
are through. The bound on the network needs the sequences: a peer's packets
have different ones (`OnePerSequence`), all among the last `Lifetime` (`RecentPackets`), and
`Lifetime` is at most half a round, so the sequence used next is not among them.

**Client** (`OperatorLemmas`, `ClientProofs`). The invariant types what a session holds
by the session's number: the connection has messages of `{session}` only, the simulator
and netcode packets of it only. `OperatorLemmas` shows for each method of `Connection`
and `NetworkSimulator` that it keeps the messages within any set `V` they are from; a
`connect` that begins a new session must then reset everything for `OwnConnection` and
`OwnSimulator` to hold again, which is what is to be shown. `AllOrNothing`, `NothingLeaks`
and `StateIsTrue` are inductive together with it. `ClientNothingPanics` and
`ServerNothingPanics` assume `PacketFits`: a packet has room for the budgets of all
channels and a header each. The code does not check that either; run `packet_soak`
shows a configuration it accepts in which `available_bits` goes below zero.

**Server** (`OperatorLemmas`, `ServerProofs`). In the same way everything is typed by the
number of the client in its slot: `OwnConnections`, `OwnPackets`, `OwnTransmitted`.
`AdvanceTime` is the long case: netcode replaces clients, slots fail, the simulator is
advanced or not, and only then hands packets over. `ServerFailedAreDropped` holds for any
number of slots that fail together.

**Packets** (`OperatorLemmas`, `PacketBudgetProofs`). `generate_packet` is proved about
once, for any channels that answer as channels do (`Answering`): each returns an entry
of its own, with messages, within its budget and within what it was offered.
`GeneratePacketBudget` follows the loop with the bits left, the entries so far and the
bits they take; both kinds of channels are then shown to answer like that, for the
reliable one through the loop of `get_messages_to_send`.

- `BudgetRespected` needs in addition that the sum of the tokens `serialize` writes is the
  sum `generate_packet` counted (`WrittenAsCounted`), and that a subtraction below zero is
  noticed or cannot happen: `OverflowChecks \/ Reserved`. In a build without overflow
  checks, `available_bits` wraps to almost 2^64 and the channels after that are offered
  more than there is.
- `ReservedNeverPanics` needs `PacketBudget >= MessageHeaderBits`, below which
  `available_bits - used_bits` of `get_messages_to_send` underflows in its first turn.
- `OldestGoesFirst`: the first turn of the loop takes the oldest message if it is due and
  fits, and no later turn puts another before it.
- `RoundTrip`: `Serialize` puts every token where `Deserialize` looks for it (`LaidOut`), so
  an entry is read wherever it begins (`DeserializeReads`), and the next begins where it
  ends; by `FoldFollows` the reader has the first `k` entries after `k` turns. This holds
  with check values in the stream and without.

All of them assume `Configured`: no check values while the packet is made (`CheckBits = 0`,
the default; `generate_packet` does not count them), a `UsizeModulus` above the size of a
packet, and messages that have a size.

**Only model-checked.** Liveness (`EventuallyDelivered`, `EventuallyAcked`, `OneGetsThrough`,
`ErrorEndsSession`, `AttemptEnds`): TLAPS has no proofs under fairness.
`PanicsOnlyIfUndrained` of `ConnectionPair`: it does not hold in every configuration. A
reliable channel can idle for half a round of packets while others go on, and then an ack
finds no entry (run `idle_channel`) or, after a round, an old one, for which the code panics.
`NothingLost` and `NextInOrder` of `ConnectionPair`: they take the invariant of
`ReliableChannel` for each channel in both directions, and there is nothing like `MaxIdle`
in `ConnectionPair` to have it. For a single direction, with `MaxIdle`,
`ReliableChannelProofs` has these properties.

## 5. Not modelled

- The bytes of messages, which the user's `NetworkMessage` writes and reads.
  Malformed packets, on which the source panics, are not sent.
- `packet_budget` in bytes is a number of bits here; message sizes are bits.
- The counters of channels, statistics, logging.
- Config: the values passed on to the C libraries. `ClientServerConfig::new` computes
  `max_packet_fragments` from the default `max_packet_size`; who changes the size must
  change both.
- The examples and the integration test, programs that use the library.
- Simulated time: a delayed packet may stay in the simulator for any number of ticks.
- netcode and reliable beyond the above: tokens, timeouts, fragmentation.

## 6. Plan

1. `ConnectionPair`: a bound on how long a channel idles, and under it `NothingLost` and
   `NextInOrder` from the invariant of `ReliableChannel` for each channel and direction.
2. `Server` with reliable channels and endpoints in its slots.
