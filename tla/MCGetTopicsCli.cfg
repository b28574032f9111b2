CONSTANTS
    None = None
    StreamId = 1
    StreamTexts <- MCStreamTexts
    StreamName <- MCStreamName
    TopicIds <- MCTopicIds
    TopicNames <- MCTopicNames
    Limits <- MCLimits
    MaxAdminOps = 3
    TransportFaults = TRUE
SPECIFICATION Spec
INVARIANT TypeOK
INVARIANT TableAndListAgree
PROPERTY ImplementsListing
