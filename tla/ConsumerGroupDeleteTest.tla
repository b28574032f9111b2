----------------------- MODULE ConsumerGroupDeleteTest -----------------------
(***************************************************************************)
(* The CLI integration test should_be_successful                           *)
(* (src/integration/tests/cli/consumer_group/                              *)
(*  test_consumer_group_delete_command.rs) against one test server.        *)
(*                                                                         *)
(* Eight rounds run in order, one per combination of addressing the        *)
(* stream, topic and consumer group by id or by name.  Each round, through *)
(* IggyCmdTest::execute_test, prepares the server (stream, topic, group),  *)
(* runs `iggy consumer-group delete <stream> <topic> <group>`, checks the  *)
(* CLI's exit status and output, then checks that no group is left and     *)
(* deletes the topic and the stream.  A failing assert ends the test.  The *)
(* test case's ids and names are constants, so other values than the ones  *)
(* the test passes can be tried.                                           *)
(***************************************************************************)
EXTENDS ServerStore

CONSTANTS
    StreamIds, StreamNames,     \* TestConsumerGroupDeleteCmd::new arguments
    TopicIds, TopicNames,
    GroupIds, GroupNames

VARIABLES
    tc,         \* the test case's ids and names (the same in every round)
    round,      \* index into test_parameters
    step,       \* "prepare", "command", "verify_command", "verify_server",
                \* "next", "finished" or "failed"
    store,      \* the test server's streams, topics and groups
    cli         \* exit status and output of the CLI run

vars == <<tc, round, step, store, cli>>

\* test_parameters: how the stream, topic and group are addressed.
TestParameters ==
    << <<"Numeric", "Numeric", "Numeric">>, <<"Numeric", "Numeric", "Named">>,
       <<"Numeric", "Named", "Numeric">>,   <<"Numeric", "Named", "Named">>,
       <<"Named", "Numeric", "Numeric">>,   <<"Named", "Numeric", "Named">>,
       <<"Named", "Named", "Numeric">>,     <<"Named", "Named", "Named">> >>

Cases ==
    [stream_id : StreamIds, stream_name : StreamNames, topic_id : TopicIds,
     topic_name : TopicNames, consumer_group_id : GroupIds, consumer_group_name : GroupNames]

\* The text for one entity: its id formatted, or its name.
IdText(using, id, name) == IF using = "Numeric" THEN Decimal(id) ELSE name

\* Mutant: the group's text is pushed before the topic's.
ToArgsSwapped(c, using) ==
    << IdText(using[1], c.stream_id, c.stream_name),
       IdText(using[3], c.consumer_group_id, c.consumer_group_name),
       IdText(using[2], c.topic_id, c.topic_name) >>

\* to_args: stream, topic and group texts of this round.
ToArgs(c, using) ==
    << IdText(using[1], c.stream_id, c.stream_name),
       IdText(using[2], c.topic_id, c.topic_name),
       IdText(using[3], c.consumer_group_id, c.consumer_group_name) >>

Using == TestParameters[round]

\* IggyCmdTest::setup: a fresh server.
Init ==
    /\ tc \in Cases
    /\ round = 1
    /\ step = "prepare"
    /\ store = EmptyStore
    /\ cli = NoResult

\* A failed assert panics the test.
Fail == step' = "failed"

\* prepare_server_state: create the stream, topic and group by numeric id,
\* asserting each call succeeds.
PrepareServerState ==
    /\ step = "prepare"
    /\ LET s == Numeric(tc.stream_id)
           r1 == CreateStream(store, tc.stream_id, tc.stream_name)
           r2 == CreateTopic(r1.store, s, tc.topic_id, tc.topic_name, 0, None, None, 0)
           r3 == CreateConsumerGroup(r2.store, s, Numeric(tc.topic_id),
                                     tc.consumer_group_id, tc.consumer_group_name)
       IN  CASE ~IsOk(r1.res) -> Fail /\ store' = r1.store
             [] ~IsOk(r2.res) -> Fail /\ store' = r2.store
             [] ~IsOk(r3.res) -> Fail /\ store' = r3.store
             [] OTHER -> step' = "command" /\ store' = r3.store
    /\ UNCHANGED <<tc, round, cli>>

\* get_command, run by the harness: `iggy consumer-group delete` with
\* to_args.  The CLI parses each text to an Identifier, calls
\* delete_consumer_group and, on success, echoes the three texts and exits
\* 0; on failure it exits non-zero.  Its two lines name the group, the
\* topic and the stream, in that order, by the texts it was given.
RunCommand ==
    /\ step = "command"
    /\ LET args == ToArgs(tc, Using)
           r == DeleteConsumerGroup(store, ParseIdArg(args[1]), ParseIdArg(args[2]),
                                    ParseIdArg(args[3]))
       IN  /\ store' = r.store
           /\ cli' = IF IsOk(r.res)
                     THEN [exit |-> 0, stdout |-> <<args[3], args[2], args[1]>>]
                     ELSE [exit |-> 1, stdout |-> <<>>]
    /\ step' = "verify_command"
    /\ UNCHANGED <<tc, round>>

\* verify_command: its own match builds the expected texts of the stream,
\* topic and group, and the message names them group, topic, stream; the
\* CLI must succeed and print exactly that.
ExpectedStdout(c, using) ==
    << IdText(using[3], c.consumer_group_id, c.consumer_group_name),
       IdText(using[2], c.topic_id, c.topic_name),
       IdText(using[1], c.stream_id, c.stream_name) >>

VerifyCommand ==
    /\ step = "verify_command"
    /\ IF cli.exit = 0 /\ cli.stdout = ExpectedStdout(tc, Using)
       THEN step' = "verify_server" ELSE Fail
    /\ UNCHANGED <<tc, round, store, cli>>

\* verify_server_state: no group is left; delete the topic, then the stream.
VerifyServerState ==
    /\ step = "verify_server"
    /\ LET s == Numeric(tc.stream_id)
           t == Numeric(tc.topic_id)
           g == GetConsumerGroups(store, s, t)
           r1 == DeleteTopic(store, s, t)
           r2 == DeleteStream(r1.store, s)
       IN  CASE ~IsOk(g.res) \/ g.res.val # {} -> Fail /\ UNCHANGED store
             [] ~IsOk(r1.res) -> Fail /\ store' = r1.store
             [] ~IsOk(r2.res) -> Fail /\ store' = r2.store
             [] OTHER -> step' = "next" /\ store' = r2.store
    /\ UNCHANGED <<tc, round, cli>>

\* The for loop moves to the next test parameters, or ends.
NextRound ==
    /\ step = "next"
    /\ round' = round + 1
    /\ step' = IF round < Len(TestParameters) THEN "prepare" ELSE "finished"
    /\ cli' = NoResult
    /\ UNCHANGED <<tc, store>>

Next == PrepareServerState \/ RunCommand \/ VerifyCommand \/ VerifyServerState \/ NextRound

Spec == Init /\ [][Next]_vars

----------------------------------------------------------------------------
(* Properties. *)

\* No assert of the test fails, in any round: the CLI deletes the group
\* however it is addressed, and each round leaves the server as empty as
\* it found it, so the next round's creates succeed.
TestPasses == step # "failed"

=============================================================================
