---------------------------- MODULE SendMessages ----------------------------
(***************************************************************************)
(* The SendMessages command of the iggy SDK                               *)
(* (src/sdk/src/messages/send_messages.rs): the Partitioning and Message   *)
(* primitives, their builders, the batch validator and the binary codec.   *)
(* Every operator is a pure function of its arguments, like the Rust code; *)
(* CommandPipeline puts them into a client -> transport -> server loop.    *)
(*                                                                         *)
(* A Partitioning is [kind, length, value], a Message                     *)
(* [id, length, payload, headers] with headers None or a header map, and   *)
(* a SendMessages [stream_id, topic_id, partitioning, messages].           *)
(***************************************************************************)
EXTENDS WirePrimitives

CONSTANTS
    MAX_HEADERS_SIZE,   \* crate::messages::MAX_HEADERS_SIZE
    MAX_PAYLOAD_SIZE    \* crate::messages::MAX_PAYLOAD_SIZE

ASSUME MAX_HEADERS_SIZE \in Nat /\ MAX_PAYLOAD_SIZE \in Nat \ {0}

PartitioningKinds == {"Balanced", "PartitionId", "MessagesKey"}

\* The rule of spec.md 3: Balanced has an empty value, PartitionId a 4-byte
\* value, MessagesKey 1..255 bytes.
SpecPartitioning(p) ==
    CASE p.kind = "Balanced"    -> p.value = <<>>
      [] p.kind = "PartitionId" -> Len(p.value) = 4
      [] OTHER                  -> Len(p.value) \in 1..255

----------------------------------------------------------------------------
(* Partitioning builders. *)

Balanced == [kind |-> "Balanced", length |-> 0, value |-> <<>>]

PartitionIdP(partition_id) ==
    [kind |-> "PartitionId", length |-> 4, value |-> LE(partition_id, 4)]

\* messages_key (and messages_key_str, which passes the string's bytes).
MessagesKey(value) ==
    IF Len(value) = 0 \/ Len(value) > 255
    THEN Err("InvalidCommand")
    ELSE Ok([kind |-> "MessagesKey", length |-> Len(value), value |-> value])

\* Mutant: every messages_key_uN copies messages_key_u32's length of 4.
MessagesKeyUintLength4(value, width) ==
    [kind |-> "MessagesKey", length |-> 4, value |-> LE(value, width)]

\* messages_key_u32 / _u64 / _u128: the key is the width-byte LE integer.
MessagesKeyUint(value, width) ==
    [kind |-> "MessagesKey", length |-> width, value |-> LE(value, width)]

\* Mutant: the size counts the length byte but not the kind byte.
PartitioningSizeBytesNoKindByte(p) == 1 + p.length

PartitioningSizeBytes(p) == 2 + p.length

KindCode == [Balanced |-> 1, PartitionId |-> 2, MessagesKey |-> 3]

KindFromCode(code) ==
    CASE code = 1 -> Ok("Balanced")
      [] code = 2 -> Ok("PartitionId")
      [] code = 3 -> Ok("MessagesKey")
      [] OTHER    -> Err("InvalidCommand")

PartitioningAsBytes(p) == <<KindCode[p.kind], p.length>> \o p.value

\* Mutant: a PartitionId value is always read as 4 bytes, whatever the
\* length byte says.
PartitioningFromBytesFixedWidth(b) ==
    IF Len(b) < 3 THEN Err("InvalidCommand")
    ELSE LET kind == KindFromCode(b[1])
             w == IF IsOk(kind) /\ kind.val = "PartitionId" THEN 4 ELSE b[2]
         IN  IF ~IsOk(kind) THEN kind
             ELSE IF ~InBounds(b, 2, 2 + w) THEN Panic
             ELSE Ok([kind |-> kind.val, length |-> b[2], value |-> RSlice(b, 2, 2 + w)])

\* The check value.len() != length after the slice is unreachable: the
\* slice bytes[2..2 + length] already panics when it runs past the buffer.
PartitioningFromBytes(b) ==
    IF Len(b) < 3 THEN Err("InvalidCommand")
    ELSE LET kind == KindFromCode(b[1]) IN
         IF ~IsOk(kind) THEN kind
         ELSE IF ~InBounds(b, 2, 2 + b[2]) THEN Panic
         ELSE Ok([kind |-> kind.val, length |-> b[2], value |-> RSlice(b, 2, 2 + b[2])])

----------------------------------------------------------------------------
(* Message. *)

MessageNew(id, payload, headers) ==
    [id |-> IF id = None THEN 0 ELSE id, length |-> Len(payload),
     payload |-> payload, headers |-> headers]

\* Message::from_str: id 0, the string's bytes, no headers.
MessageFromStr(input) ==
    IF Len(input) = 0 THEN Err("EmptyMessagePayload")
    ELSE Ok([id |-> 0, length |-> Len(input), payload |-> input, headers |-> None])

\* Mutant: the size leaves out the u32 headers length field.
MessageGetSizeBytesNoHeadersField(m) ==
    16 + 4 + Len(m.payload) + HeadersSizeBytes(m.headers) - 4

\* ID + Length + Payload + Headers; note it uses payload.len(), not length.
MessageGetSizeBytes(m) == 16 + 4 + Len(m.payload) + HeadersSizeBytes(m.headers)

\* Some(headers) writes the map's byte length and bytes (0 and nothing for
\* an empty map), None writes 0; then the length field and the payload.
MessageAsBytes(m) ==
    LET hb == IF m.headers = None THEN <<>> ELSE HeadersAsBytes(m.headers)
    IN  LE(m.id, 16) \o LE(Len(hb), 4) \o hb \o LE(m.length, 4) \o m.payload

\* Mutant: a lenient parser that takes whatever payload bytes are present.
MessageFromBytesLenient(b) ==
    IF Len(b) < 24 THEN Err("InvalidCommand")
    ELSE LET hl == U32At(b, 16)
             headers == IF hl = 0 THEN Ok(None)
                        ELSE IF ~InBounds(b, 20, 20 + hl) THEN Panic
                        ELSE HeadersFromBytes(RSlice(b, 20, 20 + hl), <<>>)
         IN  IF ~IsOk(headers) THEN headers
             ELSE IF ~InBounds(b, 20 + hl, 24 + hl) THEN Panic
             ELSE LET pl == U32At(b, 20 + hl) IN
                  IF pl = 0 THEN Err("EmptyMessagePayload")
                  ELSE LET payload == SubSeq(b, 25 + hl, IF 24 + hl + pl > Len(b) THEN Len(b) ELSE 24 + hl + pl)
                       IN Ok([id |-> U128FromLE(RSlice(b, 0, 16)), length |-> pl,
                              payload |-> payload, headers |-> headers.val])

\* The check payload.len() != payload_length is unreachable: the payload
\* slice panics first.  Every out-of-range slice is a Panic.
MessageFromBytes(b) ==
    IF Len(b) < 24 THEN Err("InvalidCommand")
    ELSE LET id == U128FromLE(RSlice(b, 0, 16))
             hl == U32At(b, 16)
             headers ==
                 IF hl = 0 THEN Ok(None)
                 ELSE IF ~InBounds(b, 20, 20 + hl) THEN Panic
                 ELSE HeadersFromBytes(RSlice(b, 20, 20 + hl), <<>>)
         IN  IF ~IsOk(headers) THEN headers
             ELSE IF ~InBounds(b, 20 + hl, 24 + hl) THEN Panic
             ELSE LET pl == U32At(b, 20 + hl) IN
                  IF pl = 0 THEN Err("EmptyMessagePayload")
                  ELSE IF ~InBounds(b, 24 + hl, 24 + hl + pl) THEN Panic
                  ELSE Ok([id |-> id, length |-> pl,
                           payload |-> RSlice(b, 24 + hl, 24 + hl + pl),
                           headers |-> headers.val])

----------------------------------------------------------------------------
(* SendMessages: validate. *)

\* Sum of the header value lengths of one message.
HeaderValuesLen(headers) ==
    IF headers = None THEN 0
    ELSE FoldFunction(LAMBDA v, acc : acc + Len(v.value), 0, headers)

\* Mutant: the payload limit is checked before the headers limit.
RECURSIVE ValidateMessagesPayloadFirst(_, _, _, _)
ValidateMessagesPayloadFirst(ms, i, headers_size, payload_size) ==
    IF i > Len(ms)
    THEN IF payload_size = 0 THEN Err("EmptyMessagePayload") ELSE Ok("()")
    ELSE LET hs == headers_size + HeaderValuesLen(ms[i].headers)
             ps == payload_size + Len(ms[i].payload)
         IN  IF ps > MAX_PAYLOAD_SIZE THEN Err("TooBigMessagePayload")
             ELSE IF hs > MAX_HEADERS_SIZE THEN Err("TooBigHeadersPayload")
             ELSE ValidateMessagesPayloadFirst(ms, i + 1, hs, ps)

\* The loop over messages with its two running totals and early returns.
\* The inner loop over header values returns as soon as headers_size
\* exceeds the limit; as the total only grows, checking it once after the
\* message's values have been added returns the same error.
RECURSIVE ValidateMessages(_, _, _, _)
ValidateMessages(ms, i, headers_size, payload_size) ==
    IF i > Len(ms)
    THEN IF payload_size = 0 THEN Err("EmptyMessagePayload") ELSE Ok("()")
    ELSE LET hs == headers_size + HeaderValuesLen(ms[i].headers)
             ps == payload_size + Len(ms[i].payload)
         IN  IF hs > MAX_HEADERS_SIZE THEN Err("TooBigHeadersPayload")
             ELSE IF ps > MAX_PAYLOAD_SIZE THEN Err("TooBigMessagePayload")
             ELSE ValidateMessages(ms, i + 1, hs, ps)

Validate(c) ==
    IF Len(c.messages) = 0 THEN Err("InvalidMessagesCount")
    ELSE IF Len(c.partitioning.value) > 255
            \/ (c.partitioning.kind # "Balanced" /\ Len(c.partitioning.value) = 0)
         THEN Err("InvalidKeyValueLength")
    ELSE ValidateMessages(c.messages, 1, 0, 0)

----------------------------------------------------------------------------
(* SendMessages: codec. *)

SendMessagesAsBytes(c) ==
    IdentifierAsBytes(c.stream_id) \o IdentifierAsBytes(c.topic_id)
      \o PartitioningAsBytes(c.partitioning)
      \o FoldLeft(LAMBDA acc, m : acc \o MessageAsBytes(m), <<>>, c.messages)

\* while position < messages_payloads.len(): parse one message at position
\* and advance by its get_size_bytes().
RECURSIVE ParseMessages(_, _, _)
ParseMessages(b, position, messages) ==
    IF position >= Len(b) THEN Ok(messages)
    ELSE LET m == MessageFromBytes(RestFrom(b, position)) IN
         IF ~IsOk(m) THEN m
         ELSE ParseMessages(b, position + MessageGetSizeBytes(m.val), Append(messages, m.val))

SendMessagesFromBytes(b) ==
    IF Len(b) < 11 THEN Err("InvalidCommand")
    ELSE LET stream_id == IdentifierFromBytes(b) IN
         IF ~IsOk(stream_id) THEN stream_id
         ELSE LET p1 == IdentifierSizeBytes(stream_id.val)
                  topic_id == IdentifierFromBytes(RestFrom(b, p1))
              IN IF ~IsOk(topic_id) THEN topic_id
              ELSE LET p2 == p1 + IdentifierSizeBytes(topic_id.val)
                       key == PartitioningFromBytes(RestFrom(b, p2))
                   IN IF ~IsOk(key) THEN key
                   ELSE LET msgs == ParseMessages(RestFrom(b, p2 + PartitioningSizeBytes(key.val)), 0, <<>>)
                        IN IF ~IsOk(msgs) THEN msgs
                        ELSE LET command == [stream_id |-> stream_id.val, topic_id |-> topic_id.val,
                                             partitioning |-> key.val, messages |-> msgs.val]
                                 valid == Validate(command)
                             IN IF ~IsOk(valid) THEN valid ELSE Ok(command)

----------------------------------------------------------------------------
(* Display.  The text is diagnostic; the model keeps what decides whether  *)
(* it can be produced: PartitionId reads value[..4], which panics on a      *)
(* shorter value.  A successful rendering is Ok of its leading field.       *)

PartitioningKindDisplay ==
    [Balanced |-> "balanced", PartitionId |-> "partition_id", MessagesKey |-> "messages_key"]

\* Balanced prints a constant 0, whatever its value holds.
PartitioningDisplay(p) ==
    IF p.kind = "PartitionId" /\ Len(p.value) < 4 THEN Panic
    ELSE Ok(PartitioningKindDisplay[p.kind])

\* id|<payload as UTF-8, lossy>: total.  The model's bytes are below 128,
\* valid UTF-8, on which from_utf8_lossy replaces nothing.
MessageDisplay(m) == Ok(<<m.id, m.payload>>)

\* stream|topic|partitioning|messages joined by "|", in field order; the
\* first field that panics ends it.
SendMessagesDisplay(c) ==
    LET p == PartitioningDisplay(c.partitioning) IN
    IF ~IsOk(p) THEN p
    ELSE Ok(<<c.stream_id, c.topic_id, p.val, [i \in 1..Len(c.messages) |-> MessageDisplay(c.messages[i]).val]>>)

=============================================================================
