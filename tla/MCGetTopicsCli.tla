----------------------------- MODULE MCGetTopicsCli -----------------------------
EXTENDS GetTopicsCli

\* The user names stream 1 by id, by name, or names stream 2, which never
\* exists.
MCStreamTexts == {Decimal(1), Word("events"), Decimal(2)}
MCStreamName == Word("events")
MCTopicIds == {1, 2}
\* A plain name and a name with "|" in it.
MCTopicNames == {<<"orders">>, <<"a", "|", "b">>}
MCLimits == {None, 7}
=============================================================================
