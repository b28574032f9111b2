-------------------------- MODULE PartitioningFuzz --------------------------
(***************************************************************************)
(* The Partitioning field of SendMessages against arbitrary bytes.         *)
(*                                                                         *)
(* The server runs SendMessages::from_bytes on frames from any peer.  Here *)
(* the frame is a fixed stream id, topic id and message batch around a    *)
(* partitioning section that is any byte string of at most MaxFuzzLen      *)
(* bytes over FuzzBytes; the server may then render an accepted command    *)
(* with its Display impl.  Separately, a client serializes a partitioning  *)
(* made by a builder and parses it back with Partitioning::from_bytes.     *)
(***************************************************************************)
EXTENDS SendMessages

CONSTANTS
    FuzzBytes,      \* byte values the partitioning section is made of
    MaxFuzzLen,     \* longest partitioning section tried
    StreamId,       \* the frame's stream identifier
    TopicId,        \* the frame's topic identifier
    Batch,          \* the frame's messages (a sequence of Message records)
    PartitionIds,   \* arguments of Partitioning::partition_id
    MessageKeys,    \* non-empty arguments of Partitioning::messages_key
    KeyInts         \* arguments of messages_key_u32 / _u64 / _u128

VARIABLES
    frame,          \* the bytes the server parses
    parsed,         \* SendMessages::from_bytes(frame)
    shown,          \* the server's Display of the parsed command
    built,          \* the partitioning the client made
    reparsed        \* Partitioning::from_bytes(built.as_bytes())

vars == <<frame, parsed, shown, built, reparsed>>

\* The SendMessages frame with partitioning section f.
Frame(f) ==
    IdentifierAsBytes(StreamId) \o IdentifierAsBytes(TopicId) \o f
      \o FoldLeft(LAMBDA acc, m : acc \o MessageAsBytes(m), <<>>, Batch)

\* What the builders can produce.
Built ==
    {Balanced} \cup {PartitionIdP(n) : n \in PartitionIds}
      \cup {MessagesKey(k).val : k \in MessageKeys}
      \cup {MessagesKeyUint(v, w) : v \in KeyInts, w \in {4, 8, 16}}

\* Every run starts from one frame and one built partitioning, neither
\* parsed yet.
Init ==
    /\ frame \in {Frame(f) : f \in BoundedSeq(FuzzBytes, MaxFuzzLen)}
    /\ parsed = NoResult
    /\ shown = NoResult
    /\ built \in Built
    /\ reparsed = NoResult

\* The server parses the frame (SendMessages::from_bytes, validate included).
FromBytes ==
    /\ parsed = NoResult
    /\ parsed' = SendMessagesFromBytes(frame)
    /\ UNCHANGED <<frame, shown, built, reparsed>>

\* The server formats the command it accepted.
Display ==
    /\ IsOk(parsed) /\ shown = NoResult
    /\ shown' = SendMessagesDisplay(parsed.val)
    /\ UNCHANGED <<frame, parsed, built, reparsed>>

\* The client serializes the built partitioning and parses it back.
PrimitiveRoundTrip ==
    /\ reparsed = NoResult
    /\ reparsed' = PartitioningFromBytes(PartitioningAsBytes(built))
    /\ UNCHANGED <<frame, parsed, shown, built>>

Next == FromBytes \/ Display \/ PrimitiveRoundTrip

Spec == Init /\ [][Next]_vars

----------------------------------------------------------------------------
(* Properties. *)

\* Parsing is canonical: a frame SendMessages::from_bytes accepts is
\* exactly the serialization of the command it returns, so the lengths
\* the parser reads (partitioning length byte, get_size_bytes of each
\* message) and the bytes it slices agree with what as_bytes writes.
AcceptedReencodes ==
    IsOk(parsed) => SendMessagesAsBytes(parsed.val) = frame

\* spec.md 3 and 8 (law 4): what the parser accepts is a valid command,
\* whose partitioning meets spec.md 3 (SpecPartitioning).
AcceptedMeetsSpec == IsOk(parsed) => SpecPartitioning(parsed.val.partitioning)

\* spec.md 7: errors never abort the process; rendering a command the
\* server accepted (Display for SendMessages and Partitioning) never panics.
DisplayNeverPanics == shown.tag # "panic"

\* spec.md 4.1 and 8 (law 1): Partitioning::from_bytes gives back every
\* partitioning a builder made, once serialized with as_bytes; a buffer is
\* too short only when it is shorter than the value needs.
PrimitiveRoundTrips == reparsed # NoResult => reparsed = Ok(built)

=============================================================================
