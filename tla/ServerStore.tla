---------------------------- MODULE ServerStore ----------------------------
(***************************************************************************)
(* The server side of the stream / topic / consumer-group commands, as     *)
(* the CLI and its integration tests see it through the Client API.  The   *)
(* storage engine is outside the sources (spec.md 1, "out of scope"); this *)
(* module states the behaviour the CLI code relies on: an Identifier names *)
(* an entity by numeric id or by name, ids and names are unique among      *)
(* siblings, and deleting an entity deletes what it contains.              *)
(*                                                                         *)
(* A store is [streams, topics, groups], sets of records; a topic records  *)
(* its stream's id, a group its stream's and topic's ids.  Every operation *)
(* returns [store |-> the new store, res |-> Ok(..) or Err(..)].           *)
(***************************************************************************)
EXTENDS WirePrimitives, FiniteSets

EmptyStore == [streams |-> {}, topics |-> {}, groups |-> {}]

\* Identifier::numeric / Identifier::named, at the level of the command
\* record.
Numeric(n) == [kind |-> "numeric", value |-> n]
Named(s)   == [kind |-> "named", value |-> s]

\* An identifier names an entity by its id or by its name.
Matches(e, ident) ==
    IF ident.kind = "numeric" THEN e.id = ident.value ELSE e.name = ident.value

\* The one entity of a set that an identifier names, or None.
Find(set, ident) ==
    LET m == {e \in set : Matches(e, ident)} IN
    IF m = {} THEN None ELSE CHOOSE e \in m : TRUE

----------------------------------------------------------------------------
(* CLI identifier arguments (spec.md 6).  What decides the parse of a      *)
(* text is whether it is all digits, and what it spells: Decimal(n) is the  *)
(* text of the number n (format!("{}", n)), Word(w) any other text.  A      *)
(* name is a text too, so a name made of digits is a Decimal.               *)

Decimal(n) == <<"digits", n>>
Word(w)    == <<"word", w>>

\* digits-only -> numeric, else named.
ParseIdArg(text) == IF text[1] = "digits" THEN Numeric(text[2]) ELSE Named(text)

----------------------------------------------------------------------------
Reply(st, r) == [store |-> st, res |-> r]

\* Entities are unique by id and by name among their siblings.
Clashes(siblings, id, name) ==
    \E e \in siblings : e.id = id \/ e.name = name

CreateStream(st, id, name) ==
    IF Clashes(st.streams, id, name) THEN Reply(st, Err("StreamAlreadyExists"))
    ELSE Reply([st EXCEPT !.streams = @ \cup {[id |-> id, name |-> name]}], Ok("()"))

TopicsOf(st, sid) == {t \in st.topics : t.stream = sid}

CreateTopic(st, s, id, name, partitions_count, message_expiry, max_topic_size, now) ==
    LET stream == Find(st.streams, s) IN
    IF stream = None THEN Reply(st, Err("StreamNotFound"))
    ELSE IF Clashes(TopicsOf(st, stream.id), id, name) THEN Reply(st, Err("TopicAlreadyExists"))
    ELSE Reply([st EXCEPT !.topics = @ \cup
                  {[stream |-> stream.id, id |-> id, name |-> name, created_at |-> now,
                    size |-> 0, max_topic_size |-> max_topic_size,
                    message_expiry |-> message_expiry, messages_count |-> 0,
                    partitions_count |-> partitions_count]}], Ok("()"))

\* The topic that s and t name, or None.
FindTopic(st, s, t) ==
    LET stream == Find(st.streams, s) IN
    IF stream = None THEN None ELSE Find(TopicsOf(st, stream.id), t)

GroupsOf(st, topic) == {g \in st.groups : g.stream = topic.stream /\ g.topic = topic.id}

CreateConsumerGroup(st, s, t, id, name) ==
    LET topic == FindTopic(st, s, t) IN
    IF topic = None THEN Reply(st, Err("TopicNotFound"))
    ELSE IF Clashes(GroupsOf(st, topic), id, name) THEN Reply(st, Err("ConsumerGroupAlreadyExists"))
    ELSE Reply([st EXCEPT !.groups = @ \cup
                  {[stream |-> topic.stream, topic |-> topic.id, id |-> id, name |-> name]}], Ok("()"))

DeleteConsumerGroup(st, s, t, g) ==
    LET topic == FindTopic(st, s, t)
        group == IF topic = None THEN None ELSE Find(GroupsOf(st, topic), g)
    IN  IF group = None THEN Reply(st, Err("ConsumerGroupNotFound"))
        ELSE Reply([st EXCEPT !.groups = @ \ {group}], Ok("()"))

GetConsumerGroups(st, s, t) ==
    LET topic == FindTopic(st, s, t) IN
    IF topic = None THEN Reply(st, Err("TopicNotFound"))
    ELSE Reply(st, Ok(GroupsOf(st, topic)))

DeleteTopic(st, s, t) ==
    LET topic == FindTopic(st, s, t) IN
    IF topic = None THEN Reply(st, Err("TopicNotFound"))
    ELSE Reply([st EXCEPT !.topics = @ \ {topic}, !.groups = @ \ GroupsOf(st, topic)], Ok("()"))

DeleteStream(st, s) ==
    LET stream == Find(st.streams, s) IN
    IF stream = None THEN Reply(st, Err("StreamNotFound"))
    ELSE Reply([st EXCEPT !.streams = @ \ {stream},
                          !.topics = {x \in @ : x.stream # stream.id},
                          !.groups = {x \in @ : x.stream # stream.id}], Ok("()"))

\* The stream's topics in id order.
GetTopics(st, s) ==
    LET stream == Find(st.streams, s) IN
    IF stream = None THEN Reply(st, Err("StreamNotFound"))
    ELSE Reply(st, Ok(SetToSortSeq(TopicsOf(st, stream.id), LAMBDA a, b : a.id < b.id)))

=============================================================================
