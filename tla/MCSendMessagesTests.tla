------------------------ MODULE MCSendMessagesTests ------------------------
(***************************************************************************)
(* Inputs for the generalized unit tests: both identifier kinds, every     *)
(* partitioning builder, messages with and without headers (an empty map  *)
(* included), batches of one to three messages, keys of 1 and of 255      *)
(* bytes (the upper bound), and over-long keys.  The limits are the        *)
(* server's, far above what these batches carry.                           *)
(***************************************************************************)
EXTENDS SendMessagesTests

MCStreamIds == {IdentifierNumeric(1), IdentifierNamed(<<3>>)}
MCTopicIds  == {IdentifierNumeric(2), IdentifierNamed(<<3, 4>>)}
MCPartitionings ==
    {Balanced, PartitionIdP(4), MessagesKey(<<2>>).val, MessagesKeyUint(1, 8)}
MCMessages ==
    {MessageFromStr(<<5>>).val, MessageNew(2, <<5, 6>>, None),
     MessageNew(3, <<7>>, <<7>> :> [kind |-> "raw", value |-> <<1>>]),
     MessageNew(None, <<8>>, <<>>)}
MCPartitionIds == {1234, 70000}
MCKeys == {<<104>>, [i \in 1..255 |-> 97]}
MCLongKeyLens == {256, 300}
MCNonEmptyFrames == {<<0>>, <<0, 0>>}
=============================================================================
