CONSTANTS
    None = None
    MAX_HEADERS_SIZE = 1
    MAX_PAYLOAD_SIZE = 2
    FuzzBytes = {0, 1, 2, 3, 4}
    MaxFuzzLen = 6
    StreamId <- MCStreamId
    TopicId <- MCTopicId
    Batch <- MCBatch
    PartitionIds <- MCPartitionIds
    MessageKeys <- MCMessageKeys
    KeyInts <- MCKeyInts
SPECIFICATION Spec
INVARIANT AcceptedMeetsSpec
CHECK_DEADLOCK FALSE
