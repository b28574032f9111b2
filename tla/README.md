# TLA+ models of the iggy command layer

This directory holds TLA+ models of the parts of the iggy SDK found in
`src/`. The main part is the wire-protocol command `SendMessages`, with its
`Partitioning` and `Message` primitives. The models are checked with TLC.

## 1. Inventory

### Components

| Component | Source | State kept | Operations |
|---|---|---|---|
| Partitioning | `src/sdk/src/messages/send_messages.rs` 39-191, 233-252, 295-325, 473-498 | `kind`, `length: u8`, `value` (immutable record) | `balanced`, `partition_id`, `messages_key(_str/_u32/_u64/_u128)`, `get_size_bytes`, `as_bytes`, `from_bytes`, `as_code`/`from_code`, `Display` |
| Message | same file 57-76, 254-293, 327-398 | `id: u128`, `length: u32`, `payload`, `headers: Option<HashMap>` | `new`, `from_str`, `get_size_bytes`, `as_bytes`, `from_bytes`, `Default`, `Display` |
| SendMessages | same file 19-37, 95-104, 195-231, 400-471 | `stream_id`, `topic_id`, `partitioning`, `messages` | `validate`, `as_bytes`, `from_bytes`, `Default`, `Display` |
| LogoutUser | `src/sdk/src/users/logout_user.rs` | none | `validate`, `as_bytes` (no bytes), `from_bytes` (empty buffer only) |
| Identifier, header map | not in `src/` (spec.md 3, 4.2, 4.3) | tagged values | codec, embedded by SendMessages |
| Client API / transport | not in `src/` (spec.md 4.8, 5, 6) | connection | one call per command: validate, serialize, send, await the response |
| Server store | not in `src/` (spec.md 3, 4.7, 6) | streams, topics, consumer groups | create, delete (cascading), list; identifier resolution by id or name |
| CLI `topic list` | `src/sdk/src/cli/topics/get_topics.rs` | `GetTopics`, output mode | `execute_cmd`: one awaited `client.get_topics` call, then table/list output |
| CLI integration test | `src/integration/tests/cli/consumer_group/test_consumer_group_delete_command.rs` | test ids and names | 8 rounds of: create stream/topic/group, CLI `consumer-group delete`, verify none left, delete topic and stream |

### How the parts interact

A client builds a command record with the builders. It validates the record,
serializes it with `as_bytes` and hands the bytes to the transport. The server
reads the command code from the transport frame and calls that command's
`from_bytes`. `from_bytes` parses the fields and calls `validate` again.
`SendMessages` embeds two `Identifier`s, a `Partitioning` and messages back to
back, with no message count. The parser walks the messages and moves forward
by `Message::get_size_bytes`. That value must match the bytes
`Message::from_bytes` actually consumed. The command layer itself is pure and
single-threaded. What makes it hard is agreement:

* the client's `validate` must accept only what the server's `from_bytes`
  accepts;
* `as_bytes`, `get_size_bytes` and `from_bytes` must agree on every offset;
* the parser must not panic on any input. The server parses bytes from any
  peer, and spec.md 8 (law 4) requires this.

### What makes each component correct

* **Partitioning.** Builders give a `length` equal to `value.len()`. The
  codec round-trips. `from_bytes` rejects (and never panics on) short or
  inconsistent input. Validation rejects a non-Balanced kind with an empty
  value, and, per the spec, a Balanced kind with a value.
* **Message.** `get_size_bytes` equals the length of `as_bytes`. `from_bytes`
  reverses `as_bytes`. An empty payload is rejected.
* **SendMessages.** `validate` reports the first broken rule in the order of
  spec.md 4.6. Every validated batch round-trips. A damaged frame never turns
  into a command the client did not send. `from_bytes` never panics.
* **LogoutUser.** It serializes to no bytes. It parses only the empty buffer.

The CLI command and the integration test talk to a server. Its store is
modelled from spec.md in `ServerStore`. Other clients may change that store
between the CLI's steps.

The hazards, each at its source line, are listed in `PROJECT.json`
(`hazards`).

## 2. Modules

| Module | Models | Kind |
|---|---|---|
| `WirePrimitives` | Rust slices (out of range means `Panic`), little-endian integers, `Result` values; `Identifier` and the header map, modelled from spec.md (their code is not in `src/`) | operators |
| `SendMessages` | Partitioning, Message and SendMessages: builders, `validate`, `as_bytes`, `from_bytes`, `Display` | operators (RECURSIVE for the loops) |
| `LogoutUser` | the LogoutUser command | operators |
| `CommandChannel` | abstract: the server answers exactly the command that was submitted, or an error if it is invalid | state machine |
| `CommandPipeline` | one command at a time going client to transport to server: builder calls, JSON round trip, validate and send, delivery (intact, truncated, with trailing bytes), server parse; refines `CommandChannel` | state machine |
| `PartitioningFuzz` | `SendMessages::from_bytes` on every partitioning field of up to 6 bytes, then `Display`; the primitive codec on every builder output | state machine (one-shot) |
| `SendMessagesTests` | the unit tests of `send_messages.rs` and `logout_user.rs`, each run over sets of inputs instead of its one hard-coded value | state machine (one verdict per test) |
| `TopicListing` | abstract: `topic list` prints the stream's topics as they were at one instant of the call, or fails and prints nothing | state machine |
| `ServerStore` | the server's streams, topics and consumer groups (spec.md) and the CLI's parse of an id argument | operators |
| `ConsumerGroupDeleteTest` | the integration test's eight rounds against `ServerStore` | state machine |
| `GetTopicsCli` | `topic list`: `GetTopicsCmd::new`, `execute_cmd`, table and list output, while other clients change the store; refines `TopicListing` | state machine |
| `MC*` | constants for TLC | MC modules |

### CommandPipeline

* `command` is the `SendMessages` record the client is building.
* `clientResult` is the `Result` of the client's last fallible call: a
  builder, `Message::from_str` or `validate`.
* `wire` is the output of `as_bytes`.
* `received` and `delivery` are the frame the server gets and how it was
  produced.
* `serverResult` is the `Result` of `from_bytes`; it may be `Panic`.

Each builder is one action, and so is `Message::default()`. The action
stores the builder's `Err` in `clientResult` and leaves the record unchanged,
as a caller would. `JsonRoundTrip` takes the record through serde. The
`length` fields are `#[serde(skip)]`, so they come back as 0. It is enabled by
the constant `JsonClients`. `SendSendMessages` calls `validate` and, only on
`Ok`, calls `as_bytes`. The constant `Faults` decides which frame damage the
transport may do. `ServerParse` dispatches on the command code.

`Validate` keeps the code's early returns and its two running totals. The
inner loop over header values returns as soon as the header total is over the
limit. The total only grows, so checking it once per message gives the same
error. `from_bytes` follows the code step by step. Every slice the code takes
without a bounds check is a `Panic` when it runs past the buffer.

### Refinement

`CommandChannel` has two variables:

* `pending` is the command submitted;
* `answer` is the server's reply.

`CommandPipeline` maps onto it:

* `pending` is `None` while the client builds a command. After that it is the
  command being sent: `LogoutUserCmd` for a logout, else `command`.
* `answer` is `serverResult` once the server has parsed, and `None` before.

`Valid` is spec.md's notion of a valid command: lengths equal the data's,
each partitioning kind meets its rule, payloads are non-empty, and the 4.6
rules hold. `Canon` identifies `Some(empty)` headers with `None`. The run
`channel_refinement` checks `ImplementsChannel == Channel!Spec` with intact
frames and no JSON clients. Without `Canon` it fails. Its passing with
`Canon` shows that the protocol loses exactly that distinction (see the
hazard at send_messages.rs:331).

### GetTopicsCli

* `store` and `adminOps` are the server and the number of changes other
  clients have made. Those changes are bounded by `MaxAdminOps`.
* `phase` moves through `idle`, `created`, `awaiting`, `answered` and
  `done`.
* `cmd` is the `GetTopicsCmd` built by `new`.
* `answer` is the reply to the call. It is either the server's answer
  (`Serve`) or, when `TransportFaults` is TRUE, a transport error
  (`CallFails`), which is how spec.md 5 says a timed-out call is reported.
* `outcome` and `printed` hold the Result of `execute_cmd` and the lines it
  logged.

Rows are sequences of cell texts. A list line is the cells joined with a `"|"`
token.

`TopicListing` makes the call atomic. It has four variables:

* `store`;
* `call`: the stream identifier and output mode;
* `snapshot`: the reply, taken at one instant;
* `result`: whether the call succeeded, and the lines printed.

`GetTopicsCli` maps onto it:

* the call starts when `get_topics` is sent (`Request`);
* the snapshot is the server's answer (`Serve`);
* the result is the outcome and the printed lines (`Resume`).

A transport error is the abstract `Lost`. Other clients' calls are the
abstract `Change` and may come between any two
of these steps. `ImplementsListing` therefore says the printed listing is
linearizable: it is all of the stream's topics at the instant the server
answered.

### SendMessagesTests

Each `#[test]` is an action. It runs the test's body on one input from the
sets and records the verdict. A failed assert, or an `unwrap()` of an `Err`,
fails the test for good. The inputs are:

* both identifier kinds;
* every partitioning builder;
* messages with no headers, one header and an empty header map;
* batches of one to three messages;
* keys of 1 and of 255 bytes, and keys of 256 and 300 bytes.

`should_be_deserialized_from_bytes` compares each of `command.messages` with
itself, so the model of it checks no message field, as the test does not.

## 3. Runs

`MCCommandPipeline` bounds:

* `MAX_HEADERS_SIZE = 1`, `MAX_PAYLOAD_SIZE = 2`, at most 2 messages;
* payloads `<<>>`, `<<5>>`, `<<5,6>>`, and a default payload `<<9>>`;
* headers `None`, `Some(empty)` and `Some({k: raw <<1>>})`;
* stream ids numeric 1 and named `<<3>>`, topic id numeric 2;
* partitionings: balanced, `partition_id(4)`, `messages_key` of `<<>>` and
  `<<2>>`, `messages_key_u32/u64/u128(1)`.

With these bounds every validation error is reachable, including two errors on
the same message, which decides the check order. A frame can be cut at every
byte position.

`MCPartitioningFuzz` takes every partitioning field of 0 to 6 bytes over
`{0..4}`. That covers:

* every kind code;
* too-short and too-long lengths;
* empty values;
* a well-formed PartitionId, which takes 6 bytes.

`MCConsumerGroupDeleteTest` runs the test's own 8 parameter triples with ids
`{1}`, `{1,2}` and `{1,3}` and the test's names.

`MCGetTopicsCli` uses:

* stream arguments `1`, `events` and `2`;
* two topic ids;
* topic names `orders` and `a|b`;
* max topic size unlimited or 7;
* up to 3 changes by other clients.

| Run | Expect | Checks |
|---|---|---|
| `pipeline` | pass (1,588,840 states) | `TypeOK`; `RoundTrip`: a well-formed validated batch parses back to itself, except that `Some(empty)` headers come back as `None`; `AcceptedIsSentPrefix`: an accepted damaged frame carries the sent ids and partitioning and a wire prefix of the sent messages; `ValidateFollowsSpec`: `validate` returns the spec.md 4.6 error of the first broken rule |
| `channel_refinement` | pass (32,352) | `ImplementsChannel` |
| `no_panic` | violation | `from_bytes` panics on a frame cut one byte short (send_messages.rs:365) |
| `validated_is_accepted` | violation | `[empty, "5"]` passes `validate`; the server rejects it |
| `json_validated_is_accepted` | violation | with non-empty payloads only: a record from JSON has zero lengths, passes `validate`, and the server rejects its frame |
| `partitioning_fuzz` | pass (496,836) | `AcceptedReencodes`: every accepted frame re-serializes to exactly the bytes parsed |
| `accepted_meets_spec` | violation | a Balanced partitioning with a value is accepted |
| `display_never_panics` | violation | a PartitionId with a 1-byte value is accepted, and `Display` panics on it |
| `primitive_round_trips` | violation | `Partitioning::from_bytes` rejects the 2 bytes `[1, 0]` of `balanced()`, because it needs 3 (send_messages.rs:308; spec.md 4.1, S1 and 8 law 1) |
| `cg_delete_test` | pass (328) | `TestPasses`: in every round the CLI call succeeds, prints the text `verify_command` builds on its own, and leaves no group |
| `unit_tests` | pass (1,024) | `AllTestsPass`: every unit test passes on every input of the sets |
| `topic_list` | pass (6,227) | `TypeOK` (every table line has as many cells as the header); `ImplementsListing`: the refinement of `TopicListing`, so the command prints the whole reply in the chosen mode, or fails and prints nothing; `TableAndListAgree`: table rows and list lines carry the same fields in the same order |

Each property of a passing run has a mutant in `PROJECT.json`. A mutant is a
plausible bug, for example:

* a u64 key keeping length 4;
* a PartitionId parsed as 4 bytes whatever its length byte says;
* swapped test arguments;
* a list line with two fields swapped;
* only the first topic of a reply printed.

TLC finds each one.

### Fairness

No run checks a liveness property, so no module assumes fairness. The
integration test walks a `Vec` with `for ... in`, which ends by construction,
and `execute_cmd` ends only because the transport returns (spec.md 5); a
liveness property about either would restate that assumption, not the code.

### Other observations

A `from_bytes` that zeroes every message id still passes every unit test
(`AllTestsPass`), because of the self-comparison above. `RoundTrip` fails
on it.

`GetTopicsCli` does not check the listing against concurrent changes
in the CLI: `execute_cmd` keeps nothing across its one await, and the
snapshot being taken at one instant is the server's (`Serve` is atomic and
spec-modelled), so it is assumed, not checked.

List lines join fields with `"|"` without escaping, so a topic named `a|b`
gives nine fields. No document promises a fixed field count, so no
property states one.

## 4. What is not modelled, and why

* `explain()` and `Display` of `GetTopicsOutput` and `LogoutUser` are log
  text only.
* Timestamps are kept as the value they render.
* Identifier and header-map code are not in `src/`. Their codecs come from
  spec.md, with raw header values only and one serialization order for a
  `HashMap`.
* The server is not in `src/`. `ServerStore` keeps only what the CLI and the
  test observe.
* Sizes of 2^32 bytes and more (u32 truncation in `validate` and
  `Message::new`) are out of TLC's reach.
* Correlation ids, cancellation and timeouts (spec.md 5) have no code here.
* The help-text tests in the integration test file compare fixed strings.
* `SendMessages::default()` builds its ids with `Identifier::default()`,
  whose code is neither in `src/` nor described in spec.md.
* `default_message_id` only matters for JSON written without an `id`. The
  JSON round trip always writes one.
* The u32 truncation in `validate` (send_messages.rs:219) needs payloads of
  2^32 bytes. That is past TLC's integers, and a narrower width would no
  longer match the 4-byte length fields.

## 5. Plan

1. Two CLI processes listing at once, each linearizable on its own.
2. Larger `MCCommandPipeline` instances (3 messages), if a coarser payload
   abstraction makes them fit in TLC's time budget.

The parts still marked `partly` are the identifier and header-map codecs,
the client/transport and the server store. Their code is not in `src/`.
They are modelled from spec.md only as far as the code in `src/` uses them,
and they cannot be modelled further from this repository.
