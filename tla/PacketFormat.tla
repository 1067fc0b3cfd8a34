------------------------------- MODULE PacketFormat -------------------------------
(***************************************************************************)
(* What ConnectionPacket (src/src/connection.rs) and ChannelPacketData      *)
(* (src/src/channel/channel_packet_data.rs) write into a packet, and how    *)
(* they read it back: the stream has no lengths and no names, so the reader *)
(* must know from the configuration and the counts what comes next.          *)
(*                                                                          *)
(* A stream is a sequence of tokens, each with the type it was written as;  *)
(* reading one as another type, or past the end, is a misread: in the code   *)
(* garbage, or a panic.  The bytes of a message are the user's business, and  *)
(* the ids of unreliable messages are not written.                          *)
(***************************************************************************)
EXTENDS Connection

CONSTANT CountModulus   \* 256: how many values the byte for a count has

ASSUME FormatAssumption ==
    /\ CountModulus \in Nat \ {0, 1}          \* has_messages has a byte as well
    /\ MaxPerPacket - 1 < CountModulus      \* a debug_assert of both directions

U16(n) == [type |-> "u16", value |-> n]
U8(n) == [type |-> "u8", value |-> n % CountModulus]
Body(m) == [type |-> "message", value |-> m]

\* serialize_check: nothing, or a check value (check = 32).
Check(check) == IF check = 0 THEN <<>> ELSE <<[type |-> "check", value |-> 0]>>

BitsOf(token) ==
    CASE token.type = "u16"     -> 16
      [] token.type = "u8"      -> 8
      [] token.type = "check"   -> 32
      [] token.type = "message" -> MeasuredBits(token.value)

StreamBits(stream) == FoldLeft(LAMBDA bits, token : bits + BitsOf(token), 0, stream)

-----------------------------------------------------------------------------
(* Writing.                                                                  *)

\* serialize_unordered, and the last part of serialize_ordered.
SerializeMessages(bodies, check) ==
    FlattenSeq([k \in DOMAIN bodies |-> <<Body(bodies[k])>> \o Check(check)])

\* serialize_ordered: all ids before all messages.
SerializeOrdered(messages, check) ==
    [k \in DOMAIN messages |-> U16(messages[k].id)] \o Check(check)
        \o SerializeMessages([k \in DOMAIN messages |-> messages[k].message], check)

\* Bug: the count of messages is not made to fit its byte.
SerializeFullCount(entry, check) ==
    <<U16(entry.channel_index), U8(1), U8(Len(entry.messages))>>
        \o IF Kinds[entry.channel_index] = ReliableOrdered
           THEN SerializeOrdered(entry.messages, check)
           ELSE SerializeMessages(entry.messages, check)

\* ChannelPacketData::serialize; generate_packet makes no entry without messages.
Serialize(entry, check) ==
    IF entry.messages = <<>>
    THEN <<U16(entry.channel_index), U8(0)>>
    ELSE <<U16(entry.channel_index), U8(1), U8(Len(entry.messages) - 1)>>
             \o IF Kinds[entry.channel_index] = ReliableOrdered
                THEN SerializeOrdered(entry.messages, check)
                ELSE SerializeMessages(entry.messages, check)

\* ConnectionPacket::serialize
SerializeConnectionPacket(data, check) ==
    <<U16(Len(data))>> \o FlattenSeq([k \in DOMAIN data |-> Serialize(data[k], check)])

-----------------------------------------------------------------------------
(* Reading.                                                                  *)

Misread == -1

Read(stream, at, type) ==
    IF at \in DOMAIN stream /\ stream[at].type = type THEN stream[at].value ELSE Misread

\* deserialize_unordered: the bodies that follow the first tokens, and where they end.
DeserializeMessages(stream, from, count, check) ==
    LET stride == Len(<<Misread>> \o Check(check))
    IN  [messages |-> [k \in 1 .. count |->
                          Read(stream, from + (k - 1) * stride + 1, "message")],
         end      |-> from + count * stride]

\* Bug: ids and messages are expected in turns.
DeserializeInTurns(stream, from, count, check) ==
    LET stride == Len(<<Misread, Misread>> \o Check(check))
    IN  [messages |-> [k \in 1 .. count |->
                          [id      |-> Read(stream, from + (k - 1) * stride + 1, "u16"),
                           message |-> Read(stream, from + (k - 1) * stride + 2, "message")]],
         end      |-> from + count * stride]

\* deserialize_ordered
DeserializeOrdered(stream, from, count, check) ==
    LET bodies == DeserializeMessages(stream, from + count + Len(Check(check)), count, check)
    IN  [bodies EXCEPT !.messages = [k \in 1 .. count |->
                           [id |-> Read(stream, from + k, "u16"), message |-> @[k]]]]

\* The index of ChannelPacketData::empty, usize::MAX, which process_packet skips.
NoChannel == UsizeModulus - 1

\* ChannelPacketData::deserialize of what begins after so many tokens.
Deserialize(stream, from, check) ==
    LET index == Read(stream, from + 1, "u16")
        count == 1 + Read(stream, from + 3, "u8")
    IN  CASE index \notin ChannelIndexes ->
                 [messages |-> <<>>, end |-> from, channel_index |-> Misread]
          [] index \in ChannelIndexes /\ Read(stream, from + 2, "u8") # 1 ->
                 [messages |-> <<>>, end |-> from + 2, channel_index |-> NoChannel]
          [] OTHER ->
                 LET read == IF Kinds[index] = ReliableOrdered
                             THEN DeserializeOrdered(stream, from + 3, count, check)
                             ELSE DeserializeMessages(stream, from + 3, count, check)
                 IN  [messages |-> read.messages, end |-> read.end, channel_index |-> index]

\* ConnectionPacket::deserialize: the data of the channels, and where they end.
DeserializeConnectionPacket(stream, check) ==
    LET one(read, n) ==
            LET entry == Deserialize(stream, read.end, check)
            IN  [end  |-> entry.end,
                 data |-> Append(read.data, [channel_index |-> entry.channel_index,
                                             messages      |-> entry.messages])]
    IN  FoldLeft(one, [end |-> 1, data |-> <<>>], [n \in 1 .. stream[1].value |-> n])
==============================================================================
