CONSTANTS
    None = None
    StreamIds <- MCStreamIds
    StreamNames <- MCStreamNames
    TopicIds <- MCTopicIds
    TopicNames <- MCTopicNames
    GroupIds <- MCGroupIds
    GroupNames <- MCGroupNames
SPECIFICATION Spec
INVARIANT TestPasses
CHECK_DEADLOCK FALSE
