CONSTANTS
    None = None
    MAX_HEADERS_SIZE = 100
    MAX_PAYLOAD_SIZE = 100
    MaxMessages = 3
    StreamIds <- MCStreamIds
    TopicIds <- MCTopicIds
    Partitionings <- MCPartitionings
    Messages <- MCMessages
    PartitionIds <- MCPartitionIds
    Keys <- MCKeys
    LongKeyLens <- MCLongKeyLens
    NonEmptyFrames <- MCNonEmptyFrames
SPECIFICATION Spec
INVARIANT AllTestsPass
