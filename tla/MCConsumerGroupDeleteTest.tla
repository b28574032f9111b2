--------------------- MODULE MCConsumerGroupDeleteTest ---------------------
EXTENDS ConsumerGroupDeleteTest

\* The test's own values (1 "stream", 2 "topic", 3 "consumer-group") and
\* others: a topic and a group that share the stream's id, and a topic
\* named like the stream.
MCStreamIds == {1}
MCStreamNames == {Word("stream")}
MCTopicIds == {1, 2}
MCTopicNames == {Word("topic"), Word("stream")}
MCGroupIds == {1, 3}
MCGroupNames == {Word("consumer-group")}
=============================================================================
