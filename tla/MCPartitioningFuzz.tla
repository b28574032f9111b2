------------------------- MODULE MCPartitioningFuzz -------------------------
EXTENDS PartitioningFuzz

MCStreamId == IdentifierNumeric(1)
MCTopicId == IdentifierNumeric(2)
\* One message, Message::from_str("5").
MCBatch == <<MessageFromStr(<<5>>).val>>
MCPartitionIds == {4}
MCMessageKeys == {<<2>>}
MCKeyInts == {1}
=============================================================================
