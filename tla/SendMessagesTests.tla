------------------------- MODULE SendMessagesTests -------------------------
(***************************************************************************)
(* The unit tests of src/sdk/src/messages/send_messages.rs and             *)
(* src/sdk/src/users/logout_user.rs, each run over small sets of inputs    *)
(* instead of the one value the test hard-codes.  An action runs one test  *)
(* on one input and records its verdict; a failed assert, or an unwrap()   *)
(* of an Err, fails the test for good, as cargo test reports it.           *)
(***************************************************************************)
EXTENDS SendMessages, LogoutUser

CONSTANTS
    StreamIds,      \* Identifier::numeric(1) in the tests, and more
    TopicIds,       \* Identifier::numeric(2) in the tests, and more
    Partitionings,  \* Partitioning::partition_id(4) in the tests, and more
    Messages,       \* messages the tests build with from_str / new
    MaxMessages,    \* the tests send three messages
    PartitionIds,   \* partition_id(1234) in the test
    Keys,           \* messages_key_str("hello world") in the test
    LongKeyLens,    \* "a".repeat(256) in the test
    NonEmptyFrames  \* &[0] in the logout test

ASSUME MaxMessages \in Nat \ {0} /\ \A n \in LongKeyLens : n > 255

Tests == {"should_be_serialized_as_bytes", "should_be_deserialized_from_bytes",
          "key_of_type_balanced_should_have_empty_value",
          "key_of_type_partition_should_have_value_of_const_length_4",
          "key_of_type_messages_key_should_have_value_of_dynamic_length",
          "key_of_type_messages_key_that_has_length_0_should_fail",
          "key_of_type_messages_key_that_has_length_greater_than_255_should_fail",
          "should_be_serialized_as_empty_bytes", "should_be_deserialized_from_empty_bytes",
          "should_not_be_deserialized_from_empty_bytes"}

VARIABLE verdict    \* per test: "not_run", "pass" or "fail"

Init == verdict = [t \in Tests |-> "not_run"]

\* The outcome of one run of test t: a failure is final.
Record(t, passed) ==
    verdict' = [verdict EXCEPT ![t] = IF @ = "fail" \/ ~passed THEN "fail" ELSE "pass"]

Batches == {ms \in BoundedSeq(Messages, MaxMessages) : ms # <<>>}

\* The messages' bytes back to back (the fold over message.as_bytes()).
Concat(ms) == FoldLeft(LAMBDA acc, m : acc \o MessageAsBytes(m), <<>>, ms)

\* bytes.slice(position..) of Bytes: panics when position is past the end.
SliceFrom(b, position) == IF position <= Len(b) THEN Ok(RestFrom(b, position)) ELSE Panic

----------------------------------------------------------------------------
(* send_messages.rs tests. *)

\* should_be_serialized_as_bytes: serialize, then walk the bytes with the
\* primitives' from_bytes and get_size_bytes, unwrapping each.
SerializedAsBytes(c) ==
    LET bytes == SendMessagesAsBytes(c)
        stream_id == IdentifierFromBytes(bytes)
        p1 == IdentifierSizeBytes(stream_id.val)
        rest1 == SliceFrom(bytes, p1)
        topic_id == IdentifierFromBytes(rest1.val)
        p2 == p1 + IdentifierSizeBytes(topic_id.val)
        rest2 == SliceFrom(bytes, p2)
        key == PartitioningFromBytes(rest2.val)
        messages == SliceFrom(bytes, p2 + PartitioningSizeBytes(key.val))
    IN  /\ IsOk(stream_id) /\ IsOk(rest1) /\ IsOk(topic_id)
        /\ IsOk(rest2) /\ IsOk(key) /\ IsOk(messages)
        /\ bytes # <<>>
        /\ stream_id.val = c.stream_id
        /\ topic_id.val = c.topic_id
        /\ key.val = c.partitioning
        /\ messages.val = Concat(c.messages)

\* The test's own loop: Message::from_bytes(..).unwrap() at each position.
RECURSIVE UnwrapAll(_, _)
UnwrapAll(b, position) ==
    position >= Len(b) \/
    LET m == MessageFromBytes(RestFrom(b, position))
    IN  IsOk(m) /\ UnwrapAll(b, position + MessageGetSizeBytes(m.val))

\* should_be_deserialized_from_bytes: the frame is put together from the
\* parts' as_bytes, SendMessages::from_bytes must accept it and return the
\* ids and key.  The loop that compares messages compares each of
\* command.messages with itself, so no message field is checked.
DeserializedFromBytes(stream_id, topic_id, key, ms) ==
    LET bytes == IdentifierAsBytes(stream_id) \o IdentifierAsBytes(topic_id)
                   \o PartitioningAsBytes(key) \o Concat(ms)
        command == SendMessagesFromBytes(bytes)
        current_position == Len(bytes) - Len(Concat(ms))
    IN  /\ IsOk(command)
        /\ UnwrapAll(RestFrom(bytes, current_position), 0)
        /\ command.val.stream_id = stream_id
        /\ command.val.topic_id = topic_id
        /\ command.val.partitioning = key

RunSerializedAsBytes ==
    \E s \in StreamIds, t \in TopicIds, p \in Partitionings, ms \in Batches :
        Record("should_be_serialized_as_bytes",
               SerializedAsBytes([stream_id |-> s, topic_id |-> t, partitioning |-> p, messages |-> ms]))

RunDeserializedFromBytes ==
    \E s \in StreamIds, t \in TopicIds, p \in Partitionings, ms \in Batches :
        Record("should_be_deserialized_from_bytes", DeserializedFromBytes(s, t, p, ms))

RunBalancedKey ==
    Record("key_of_type_balanced_should_have_empty_value",
           /\ Balanced.kind = "Balanced" /\ Balanced.length = 0 /\ Balanced.value = <<>>
           /\ KindFromCode(1) = Ok("Balanced"))

RunPartitionIdKey ==
    \E n \in PartitionIds :
        LET key == PartitionIdP(n) IN
        Record("key_of_type_partition_should_have_value_of_const_length_4",
               /\ key.kind = "PartitionId" /\ key.length = 4 /\ key.value = LE(n, 4)
               /\ KindFromCode(2) = Ok("PartitionId"))

\* key.length is compared with messages_key.len() as u8.
RunMessagesKey ==
    \E k \in Keys :
        LET key == MessagesKey(k) IN
        Record("key_of_type_messages_key_should_have_value_of_dynamic_length",
               /\ IsOk(key)
               /\ key.val.kind = "MessagesKey" /\ key.val.length = Len(k) % 256
               /\ key.val.value = k
               /\ KindFromCode(3) = Ok("MessagesKey"))

RunEmptyKey ==
    Record("key_of_type_messages_key_that_has_length_0_should_fail", ~IsOk(MessagesKey(<<>>)))

RunLongKey ==
    \E n \in LongKeyLens :
        Record("key_of_type_messages_key_that_has_length_greater_than_255_should_fail",
               ~IsOk(MessagesKey([i \in 1..n |-> 97])))

----------------------------------------------------------------------------
(* logout_user.rs tests. *)

RunLogoutAsBytes == Record("should_be_serialized_as_empty_bytes", LogoutUserAsBytes = <<>>)

RunLogoutFromEmpty ==
    Record("should_be_deserialized_from_empty_bytes", IsOk(LogoutUserFromBytes(<<>>)))

RunLogoutFromNonEmpty ==
    \E b \in NonEmptyFrames :
        Record("should_not_be_deserialized_from_empty_bytes", ~IsOk(LogoutUserFromBytes(b)))

Next ==
    \/ RunSerializedAsBytes \/ RunDeserializedFromBytes
    \/ RunBalancedKey \/ RunPartitionIdKey \/ RunMessagesKey \/ RunEmptyKey \/ RunLongKey
    \/ RunLogoutAsBytes \/ RunLogoutFromEmpty \/ RunLogoutFromNonEmpty

Spec == Init /\ [][Next]_verdict

----------------------------------------------------------------------------
(* Properties. *)

\* Every unit test passes on every input of the sets, not only on the value
\* it hard-codes: the primitives' get_size_bytes, as_bytes and from_bytes
\* agree on offsets for every identifier, partitioning and batch shape.
AllTestsPass == \A t \in Tests : verdict[t] # "fail"

=============================================================================
