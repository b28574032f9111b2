CONSTANTS
    None = None
    MAX_HEADERS_SIZE = 1
    MAX_PAYLOAD_SIZE = 2
    MaxMessages = 2
    StreamIds <- MCStreamIds
    TopicIds <- MCTopicIds
    PartitionIds <- MCPartitionIds
    MessageKeys <- MCMessageKeys
    KeyInts <- MCKeyInts
    MessageIds <- MCMessageIds
    Payloads <- MCPayloads
    HeaderMaps <- MCHeaderMaps
    GarbageBytes <- MCGarbageBytes
    DefaultPayload <- MCDefaultPayload
    Faults = {"truncated", "trailing"}
    JsonClients = TRUE
SPECIFICATION Spec
INVARIANT ValidatedIsAccepted
