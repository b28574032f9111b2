------------------------- MODULE MCCommandPipeline -------------------------
(***************************************************************************)
(* Small instance of CommandPipeline.  Content bytes are small numbers     *)
(* (so every u32 the parser can read fits TLC's integers); the limits are  *)
(* scaled down so that two messages can exceed each of them.               *)
(***************************************************************************)
EXTENDS CommandPipeline

MCStreamIds == {IdentifierNumeric(1), IdentifierNamed(<<3>>)}
MCTopicIds  == {IdentifierNumeric(2)}
MCPartitionIds == {4}
MCMessageKeys  == {<<>>, <<2>>}
MCKeyInts      == {1}
MCMessageIds   == {None, 2}
MCPayloads     == {<<>>, <<5>>, <<5, 6>>}
MCHeaderMaps   == {None, <<>>, <<7>> :> [kind |-> "raw", value |-> <<1>>]}
MCGarbageBytes == {0}
\* Stands for b"hello world": one byte, as the payload limit is scaled
\* down from 10 MB to 2 bytes.
MCDefaultPayload == <<9>>
MCPayloadsNonEmpty == {<<5>>, <<5, 6>>}
=============================================================================
