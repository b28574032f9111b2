---------------------------- MODULE GetTopicsCli ----------------------------
(***************************************************************************)
(* The CLI command `iggy topic list <stream> [--list-mode table|list]`     *)
(* (src/sdk/src/cli/topics/get_topics.rs) run again and again against a     *)
(* server that other clients change at the same time.                       *)
(*                                                                         *)
(* execute_cmd makes one awaited client.get_topics call.  The server answers *)
(* from the store as it is when it handles the request; other clients may  *)
(* create and delete streams and topics before and after that.  Then        *)
(* execute_cmd returns the error with context, or prints the topics as a   *)
(* table (one header line, one row per topic) or as list lines            *)
(* ("|"-separated fields).                                                  *)
(*                                                                         *)
(* A printed text is a sequence of tokens; the separator "|" is a token of *)
(* its own, and a name is a sequence of tokens, so a name may contain "|".  *)
(***************************************************************************)
EXTENDS ServerStore

CONSTANTS
    StreamTexts,    \* texts the user passes as the stream id
    StreamId,       \* the id and name of the stream other clients create
    StreamName,
    TopicIds,       \* ids and names of the topics other clients create
    TopicNames,
    Limits,         \* max_topic_size / message_expiry values (None allowed)
    MaxAdminOps,    \* bound on the other clients' calls
    TransportFaults \* whether the call may end in a transport error

ASSUME TransportFaults \in BOOLEAN

VARIABLES
    store,          \* the server's streams and topics
    adminOps,       \* calls the other clients have made
    phase,          \* "idle", "created", "awaiting", "answered" or "done"
    cmd,            \* the GetTopicsCmd
    answer,         \* the server's reply to get_topics
    outcome,        \* execute_cmd's result
    printed         \* the lines execute_cmd printed

vars == <<store, adminOps, phase, cmd, answer, outcome, printed>>
cliVars == <<phase, cmd, answer, outcome, printed>>

Outputs == {"table", "list"}

Init ==
    /\ store = EmptyStore
    /\ adminOps = 0
    /\ phase = "idle"
    /\ cmd = None
    /\ answer = NoResult
    /\ outcome = NoResult
    /\ printed = <<>>

----------------------------------------------------------------------------
(* Other clients. *)

Admin(r) ==
    /\ adminOps < MaxAdminOps
    /\ adminOps' = adminOps + 1
    /\ store' = r.store
    /\ UNCHANGED cliVars

AdminStep ==
    \/ Admin(CreateStream(store, StreamId, StreamName))
    \/ Admin(DeleteStream(store, Numeric(StreamId)))
    \/ \E id \in TopicIds, name \in TopicNames, size \in Limits, expiry \in Limits :
          Admin(CreateTopic(store, Numeric(StreamId), id, name, 1, expiry, size, 0))
    \/ \E id \in TopicIds : Admin(DeleteTopic(store, Numeric(StreamId), Numeric(id)))

----------------------------------------------------------------------------
(* The CLI. *)

\* GetTopicsCmd::new, with the stream id parsed from the argument.
New(text, output) ==
    /\ phase = "idle"
    /\ phase' = "created"
    /\ cmd' = [get_topics |-> [stream_id |-> ParseIdArg(text)], output |-> output]
    /\ answer' = NoResult /\ outcome' = NoResult /\ printed' = <<>>
    /\ UNCHANGED <<store, adminOps>>

\* execute_cmd sends get_topics and awaits the reply.
Request ==
    /\ phase = "created"
    /\ phase' = "awaiting"
    /\ UNCHANGED <<store, adminOps, cmd, answer, outcome, printed>>

\* The server handles the request.
Serve ==
    /\ phase = "awaiting"
    /\ phase' = "answered"
    /\ answer' = GetTopics(store, cmd.get_topics.stream_id).res
    /\ UNCHANGED <<store, adminOps, cmd, outcome, printed>>

\* The call ends in a transport error instead (spec.md 5: a timed-out
\* call is reported as a transport error); the server's answer, if it
\* comes later, is dropped.
CallFails ==
    /\ TransportFaults
    /\ phase = "awaiting"
    /\ phase' = "answered"
    /\ answer' = Err("TransportError")
    /\ UNCHANGED <<store, adminOps, cmd, outcome, printed>>

\* Cell texts: a number prints as its digits, an Option as its value or
\* "unlimited"; the timestamp's "%Y-%m-%d %H:%M:%S" text stands as <<"at", t>>.
Num(n) == <<ToString(n)>>
LimitText(v) == IF v = None THEN <<"unlimited">> ELSE Num(v)
Created(t) == <<"at", ToString(t.created_at)>>

\* Mutant: the header leaves out "Partitions Count".
TableHeaderSevenColumns ==
    << <<"ID">>, <<"Created">>, <<"Name">>, <<"Size (B)">>, <<"Max Topic Size (B)">>,
       <<"Message Expiry (s)">>, <<"Messages Count">> >>

TableHeader ==
    << <<"ID">>, <<"Created">>, <<"Name">>, <<"Size (B)">>, <<"Max Topic Size (B)">>,
       <<"Message Expiry (s)">>, <<"Messages Count">>, <<"Partitions Count">> >>

\* Mutant: the list line swaps max topic size and message expiry.
ListLineSwapped(t) ==
    LET cells == <<Num(t.id), Created(t), t.name, Num(t.size), LimitText(t.message_expiry),
                   LimitText(t.max_topic_size), Num(t.messages_count), Num(t.partitions_count)>>
    IN  FoldLeft(LAMBDA acc, c : acc \o <<"|">> \o c, Head(cells), Tail(cells))

\* One table row: its eight cells.
TableRow(t) ==
    <<Num(t.id), Created(t), t.name, Num(t.size), LimitText(t.max_topic_size),
      LimitText(t.message_expiry), Num(t.messages_count), Num(t.partitions_count)>>

\* One list line: the same eight fields joined with "|".
ListLine(t) ==
    LET cells == <<Num(t.id), Created(t), t.name, Num(t.size), LimitText(t.max_topic_size),
                   LimitText(t.message_expiry), Num(t.messages_count), Num(t.partitions_count)>>
    IN  FoldLeft(LAMBDA acc, c : acc \o <<"|">> \o c, Head(cells), Tail(cells))

\* What execute_cmd prints for the topics in the given output mode.
Render(output, topics) ==
    IF output = "table"
    THEN <<TableHeader>> \o [i \in 1..Len(topics) |-> TableRow(topics[i])]
    ELSE [i \in 1..Len(topics) |-> ListLine(topics[i])]

\* Mutant: only the first topic of the reply is printed.
ResumeFirstOnly ==
    /\ phase = "answered"
    /\ phase' = "done"
    /\ IF IsOk(answer)
       THEN outcome' = Ok("()") /\ printed' = Render(cmd.output, IF answer.val = <<>> THEN <<>> ELSE <<Head(answer.val)>>)
       ELSE outcome' = Err(<<"Problem getting topics from stream", cmd.get_topics.stream_id>>)
            /\ printed' = <<>>
    /\ UNCHANGED <<store, adminOps, cmd, answer>>

\* execute_cmd after the await: on Err, return it with the context
\* "Problem getting topics from stream <id>" before printing anything;
\* on Ok, print the topics in the command's mode.
Resume ==
    /\ phase = "answered"
    /\ phase' = "done"
    /\ IF IsOk(answer)
       THEN outcome' = Ok("()") /\ printed' = Render(cmd.output, answer.val)
       ELSE outcome' = Err(<<"Problem getting topics from stream", cmd.get_topics.stream_id>>)
            /\ printed' = <<>>
    /\ UNCHANGED <<store, adminOps, cmd, answer>>

\* The user runs the CLI again.
Again ==
    /\ phase = "done"
    /\ phase' = "idle"
    /\ UNCHANGED <<store, adminOps, cmd, answer, outcome, printed>>

Next ==
    \/ AdminStep
    \/ \E text \in StreamTexts, output \in Outputs : New(text, output)
    \/ Request
    \/ Serve
    \/ CallFails
    \/ Resume
    \/ Again

Spec == Init /\ [][Next]_vars

----------------------------------------------------------------------------
(* Properties. *)

\* Every table line, header included, has the eight columns.
TypeOK ==
    /\ phase \in {"idle", "created", "awaiting", "answered", "done"}
    /\ adminOps \in 0..MaxAdminOps
    /\ outcome.tag \in {"none", "ok", "err"}
    /\ phase = "done" /\ cmd.output = "table" =>
          \A i \in 1..Len(printed) : Len(printed[i]) = Len(TableHeader)

\* A table row's cells joined with "|".
Joined(row) == FoldLeft(LAMBDA acc, c : acc \o <<"|">> \o c, Head(row), Tail(row))

\* The table mode and the list mode of execute_cmd (two copies of the
\* per-topic formatting) show the same fields, in the same order, for
\* every topic of a reply.
TableAndListAgree ==
    IsOk(answer) =>
        LET table == Render("table", answer.val)
            list  == Render("list", answer.val)
        IN  /\ Len(table) = Len(list) + 1
            /\ \A i \in 1..Len(list) : Joined(table[i + 1]) = list[i]

\* The call as TopicListing sees it: it starts when get_topics is sent and
\* takes its snapshot when the server answers.
ListingCall ==
    IF phase \in {"awaiting", "answered", "done"}
    THEN [stream |-> cmd.get_topics.stream_id, output |-> cmd.output] ELSE None

ListingSnapshot == IF phase \in {"answered", "done"} THEN answer ELSE None

ListingResult == IF phase = "done" THEN [ok |-> IsOk(outcome), lines |-> printed] ELSE None

Listing == INSTANCE TopicListing WITH
    call <- ListingCall, snapshot <- ListingSnapshot, result <- ListingResult, Show <- Render

\* execute_cmd implements TopicListing: what it prints (or its failure) is
\* the reply to the one get_topics call, taken at one instant of the call,
\* all of it, in the mode the user chose, however the other clients' calls
\* interleave with the CLI's steps.
ImplementsListing == Listing!Spec

=============================================================================
