--------------------------- MODULE CommandPipeline ---------------------------
(***************************************************************************)
(* One command's trip through the iggy command layer (spec.md 2, 4.1):    *)
(* the client builds a SendMessages record with the SDK builders (or       *)
(* takes a LogoutUser), validates and serializes it; the transport hands   *)
(* the server a frame; the server parses the frame with the command's      *)
(* from_bytes, which revalidates.  Then the next command starts.           *)
(*                                                                         *)
(* The frame the server gets is either the bytes the client serialized or  *)
(* a damaged copy of them (cut short, or with a trailing byte): the        *)
(* server parses bytes from any peer, and spec.md 8 asks parse to return   *)
(* an error, never to panic, on any input.                                 *)
(***************************************************************************)
EXTENDS SendMessages, LogoutUser

CONSTANTS
    StreamIds,      \* identifiers the client addresses streams with
    TopicIds,       \* identifiers the client addresses topics with
    PartitionIds,   \* arguments of Partitioning::partition_id
    MessageKeys,    \* byte strings passed to Partitioning::messages_key
    KeyInts,        \* integers passed to messages_key_u32 / _u64 / _u128
    MessageIds,     \* Option<u128> ids passed to Message::new (None allowed)
    Payloads,       \* payload byte strings (Message::new, Message::from_str)
    HeaderMaps,     \* Option<header map> passed to Message::new
    DefaultPayload, \* the payload of Message::default() ("hello world")
    MaxMessages,    \* bound on the number of messages in one batch
    GarbageBytes,   \* bytes a damaged frame may carry after the command
    Faults,         \* the frame damage the transport may do: a subset of
                    \* {"truncated", "trailing"}
    JsonClients     \* whether clients may take records through serde JSON

ASSUME MaxMessages \in Nat \ {0}
ASSUME Faults \subseteq {"truncated", "trailing"} /\ JsonClients \in BOOLEAN

VARIABLES
    phase,          \* "Building", "Sent", "Delivered" or "Done"
    code,           \* the command framed for the server
    command,        \* the SendMessages record the client is building / sent
    clientResult,   \* outcome of the client's last fallible call
    wire,           \* bytes the client serialized
    delivery,       \* "intact", "truncated" or "trailing"
    received,       \* bytes the server parses
    serverResult    \* outcome of the server's from_bytes

vars == <<phase, code, command, clientResult, wire, delivery, received, serverResult>>

Commands == {"SendMessages", "LogoutUser"}

----------------------------------------------------------------------------
(* Client: building the SendMessages record. *)

\* A SendMessages record the client starts from: its target stream and
\* topic, the default (balanced) partitioning and no messages yet.
FreshCommands == [stream_id : StreamIds, topic_id : TopicIds,
                  partitioning : {Balanced}, messages : {<<>>}]

Init ==
    /\ phase = "Building"
    /\ code = "SendMessages"
    /\ command \in FreshCommands
    /\ clientResult = NoResult
    /\ wire = <<>>
    /\ delivery = "intact"
    /\ received = <<>>
    /\ serverResult = NoResult

Building == phase = "Building"

SetPartitioning(p) ==
    /\ command' = [command EXCEPT !.partitioning = p]
    /\ clientResult' = NoResult

SetBalanced ==
    /\ Building
    /\ SetPartitioning(Balanced)
    /\ UNCHANGED <<phase, code, wire, delivery, received, serverResult>>

SetPartitionId(n) ==
    /\ Building
    /\ SetPartitioning(PartitionIdP(n))
    /\ UNCHANGED <<phase, code, wire, delivery, received, serverResult>>

\* messages_key / messages_key_str: on Err the client keeps its record.
SetMessagesKey(k) ==
    /\ Building
    /\ LET r == MessagesKey(k) IN
         IF IsOk(r) THEN SetPartitioning(r.val)
         ELSE /\ clientResult' = r
              /\ UNCHANGED command
    /\ UNCHANGED <<phase, code, wire, delivery, received, serverResult>>

SetMessagesKeyUint(v, width) ==
    /\ Building
    /\ SetPartitioning(MessagesKeyUint(v, width))
    /\ UNCHANGED <<phase, code, wire, delivery, received, serverResult>>

AddMessage(m) ==
    /\ command' = [command EXCEPT !.messages = Append(@, m)]
    /\ clientResult' = NoResult

AddNewMessage(id, payload, headers) ==
    /\ Building
    /\ Len(command.messages) < MaxMessages
    /\ AddMessage(MessageNew(id, payload, headers))
    /\ UNCHANGED <<phase, code, wire, delivery, received, serverResult>>

\* Message::from_str: on Err the client keeps its record.
AddMessageFromStr(input) ==
    /\ Building
    /\ Len(command.messages) < MaxMessages
    /\ LET r == MessageFromStr(input) IN
         IF IsOk(r) THEN AddMessage(r.val)
         ELSE /\ clientResult' = r
              /\ UNCHANGED command
    /\ UNCHANGED <<phase, code, wire, delivery, received, serverResult>>

\* Message::default(): id 0, the placeholder payload, no headers.
AddDefaultMessage ==
    /\ Building
    /\ Len(command.messages) < MaxMessages
    /\ AddMessage([id |-> 0, length |-> Len(DefaultPayload), payload |-> DefaultPayload, headers |-> None])
    /\ UNCHANGED <<phase, code, wire, delivery, received, serverResult>>

\* The record after a serde JSON round trip (Serialize, then Deserialize):
\* Partitioning.length and Message.length are #[serde(skip)] and come back
\* as their Default, 0; every other field survives (the payload and the
\* key value through Base64 and back).  The caller supplies the stream and
\* topic ids, which are skipped too.
JsonRoundTrip ==
    /\ JsonClients /\ Building
    /\ command' = [command EXCEPT !.partitioning.length = 0,
                                  !.messages = [i \in DOMAIN @ |-> [@[i] EXCEPT !.length = 0]]]
    /\ clientResult' = NoResult
    /\ UNCHANGED <<phase, code, wire, delivery, received, serverResult>>

----------------------------------------------------------------------------
(* Client: validate, then serialize and hand the bytes to the transport. *)

SendSendMessages ==
    /\ Building
    /\ LET r == Validate(command) IN
         /\ clientResult' = r
         /\ IF IsOk(r)
            THEN /\ phase' = "Sent"
                 /\ wire' = SendMessagesAsBytes(command)
            ELSE UNCHANGED <<phase, wire>>
    /\ UNCHANGED <<code, command, delivery, received, serverResult>>

SendLogoutUser ==
    /\ Building
    /\ clientResult' = LogoutUserValidate
    /\ phase' = "Sent"
    /\ code' = "LogoutUser"
    /\ wire' = LogoutUserAsBytes
    /\ UNCHANGED <<command, delivery, received, serverResult>>

----------------------------------------------------------------------------
(* Transport: the frame the server gets. *)

Deliver(bytes, how) ==
    /\ phase = "Sent"
    /\ phase' = "Delivered"
    /\ received' = bytes
    /\ delivery' = how
    /\ UNCHANGED <<code, command, clientResult, wire, serverResult>>

DeliverIntact == Deliver(wire, "intact")

DeliverTruncated(n) == "truncated" \in Faults /\ Deliver(SubSeq(wire, 1, n), "truncated")

DeliverWithTrailing(g) == "trailing" \in Faults /\ Deliver(wire \o <<g>>, "trailing")

----------------------------------------------------------------------------
(* Server: parse the frame with the command's from_bytes. *)

ServerParse ==
    /\ phase = "Delivered"
    /\ phase' = "Done"
    /\ serverResult' = IF code = "SendMessages"
                       THEN SendMessagesFromBytes(received)
                       ELSE LogoutUserFromBytes(received)
    /\ UNCHANGED <<code, command, clientResult, wire, delivery, received>>

\* The client starts over with a fresh record.
NextCommand ==
    /\ phase = "Done"
    /\ phase' = "Building"
    /\ code' = "SendMessages"
    /\ command' \in FreshCommands
    /\ clientResult' = NoResult
    /\ wire' = <<>>
    /\ delivery' = "intact"
    /\ received' = <<>>
    /\ serverResult' = NoResult

Next ==
    \/ SetBalanced
    \/ \E n \in PartitionIds : SetPartitionId(n)
    \/ \E k \in MessageKeys : SetMessagesKey(k)
    \/ \E v \in KeyInts, width \in {4, 8, 16} : SetMessagesKeyUint(v, width)
    \/ \E id \in MessageIds, p \in Payloads, h \in HeaderMaps : AddNewMessage(id, p, h)
    \/ \E p \in Payloads : AddMessageFromStr(p)
    \/ AddDefaultMessage
    \/ JsonRoundTrip
    \/ SendSendMessages
    \/ SendLogoutUser
    \/ DeliverIntact
    \/ \E n \in 0..(Len(wire) - 1) : DeliverTruncated(n)
    \/ \E g \in GarbageBytes : DeliverWithTrailing(g)
    \/ ServerParse
    \/ NextCommand

Spec == Init /\ [][Next]_vars

----------------------------------------------------------------------------
(* Properties. *)

TypeOK ==
    /\ phase \in {"Building", "Sent", "Delivered", "Done"}
    /\ code \in Commands
    /\ command.stream_id \in StreamIds /\ command.topic_id \in TopicIds
    /\ command.partitioning.kind \in PartitioningKinds
    /\ command.partitioning.length \in {0, Len(command.partitioning.value)}
    /\ Len(command.messages) <= MaxMessages
    /\ clientResult.tag \in {"none", "ok", "err"}
    /\ delivery \in {"intact", "truncated", "trailing"}
    /\ serverResult.tag \in {"none", "ok", "err", "panic"}

\* Two messages with the same wire form (headers None and Some(empty map)
\* both serialize as a zero header length).
WireEquivalent(m1, m2) == MessageAsBytes(m1) = MessageAsBytes(m2)

\* A command as the wire expresses it: an empty header map is no headers.
Canon(c) ==
    IF c = LogoutUserCmd THEN c
    ELSE [c EXCEPT !.messages = [i \in DOMAIN @ |->
            IF @[i].headers # None /\ DOMAIN @[i].headers = {} THEN [@[i] EXCEPT !.headers = None]
            ELSE @[i]]]

\* A batch the builders made and within the limits the server enforces on
\* each message: the length fields agree with the data and every payload
\* is non-empty.
WellFormed(c) ==
    /\ c.partitioning.length = Len(c.partitioning.value)
    /\ \A i \in 1..Len(c.messages) :
        /\ c.messages[i].length = Len(c.messages[i].payload)
        /\ Len(c.messages[i].payload) > 0

ParsedSendMessages == phase = "Done" /\ code = "SendMessages"

\* Round trip (spec.md 8, law 1): a validated, well-formed SendMessages
\* whose bytes reach the server intact is parsed by from_bytes into the
\* record the client serialized (as_bytes, Message::get_size_bytes and
\* the message loop of from_bytes agree on every offset), except that
\* Some(empty) headers come back as None (as_bytes writes a zero header
\* length for both, and from_bytes reads zero as None): that is the only
\* difference.
RoundTrip ==
    ParsedSendMessages /\ delivery = "intact" /\ WellFormed(command)
        => IsOk(serverResult) /\ serverResult.val = Canon(command)

\* A damaged frame is never accepted as something the client did not send:
\* if from_bytes returns Ok on the frame it got, the parsed command has
\* the sent stream, topic and partitioning and its messages are, on the
\* wire, a prefix of the sent batch.
AcceptedIsSentPrefix ==
    ParsedSendMessages /\ IsOk(serverResult) =>
        LET p == serverResult.val IN
        /\ p.stream_id = command.stream_id
        /\ p.topic_id = command.topic_id
        /\ p.partitioning = command.partitioning
        /\ Len(p.messages) <= Len(command.messages)
        /\ \A i \in 1..Len(p.messages) : WireEquivalent(p.messages[i], command.messages[i])

\* The batch validation order of spec.md 4.6, stated over prefix sums of
\* the header value and payload sizes.
SpecValidate(c) ==
    LET n == Len(c.messages)
        H(i) == FoldLeft(LAMBDA a, m : a + HeaderValuesLen(m.headers), 0, SubSeq(c.messages, 1, i))
        P(i) == FoldLeft(LAMBDA a, m : a + Len(m.payload), 0, SubSeq(c.messages, 1, i))
        over == {i \in 1..n : H(i) > MAX_HEADERS_SIZE \/ P(i) > MAX_PAYLOAD_SIZE}
        first == CHOOSE i \in over : \A j \in over : i <= j
    IN  CASE n = 0 -> Err("InvalidMessagesCount")
          [] Len(c.partitioning.value) > 255
             \/ (c.partitioning.kind # "Balanced" /\ Len(c.partitioning.value) = 0)
             -> Err("InvalidKeyValueLength")
          [] over # {} -> IF H(first) > MAX_HEADERS_SIZE THEN Err("TooBigHeadersPayload")
                                                         ELSE Err("TooBigMessagePayload")
          [] P(n) = 0 -> Err("EmptyMessagePayload")
          [] OTHER -> Ok("()")

\* SendMessages::validate returns the error spec.md 4.6 names for the
\* first rule the batch breaks, walking messages in order.
ValidateFollowsSpec == [][SendSendMessages => clientResult' = SpecValidate(command)]_vars

\* Fuzz robustness (spec.md 8, law 4): from_bytes never panics, whatever
\* frame the server gets.
NoPanic == phase = "Done" => serverResult.tag # "panic"

\* What SendMessages::validate accepts, SendMessages::from_bytes accepts:
\* an intact frame of a validated command is never rejected by the server.
ValidatedIsAccepted ==
    ParsedSendMessages /\ delivery = "intact" => IsOk(serverResult)

----------------------------------------------------------------------------
(* Refinement of CommandChannel. *)

\* A valid command in the sense of spec.md 3 and 4: the length fields are
\* the data's lengths, the partitioning meets its kind's rule, every
\* message has a payload, and the batch passes the rules of 4.6.
SpecValid(c) ==
    c = LogoutUserCmd \/
    /\ c.partitioning.length = Len(c.partitioning.value)
    /\ SpecPartitioning(c.partitioning)
    /\ \A i \in 1..Len(c.messages) :
          Len(c.messages[i].payload) > 0 /\ c.messages[i].length = Len(c.messages[i].payload)
    /\ SpecValidate(c) = Ok("()")

\* The command in flight: from the client's send until it starts over.
ChannelPending ==
    IF phase = "Building" THEN None
    ELSE IF code = "LogoutUser" THEN LogoutUserCmd ELSE command

ChannelAnswer == IF phase = "Done" THEN serverResult ELSE None

Channel == INSTANCE CommandChannel WITH
    pending <- ChannelPending, answer <- ChannelAnswer, Valid <- SpecValid, Canon <- Canon

\* The client, transport and server implement the command layer's promise:
\* the server answers every command the client sends with the command
\* itself when it is valid, and with an error otherwise (never with another
\* command, never with a panic).
ImplementsChannel == Channel!Spec

=============================================================================
