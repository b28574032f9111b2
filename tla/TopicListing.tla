---------------------------- MODULE TopicListing ----------------------------
(***************************************************************************)
(* What `topic list` promises, with the steps of the call made atomic:     *)
(* the listing it prints is the named stream's topics as they were at one  *)
(* instant between the call's start and its end, however other clients    *)
(* change the store around that instant; when the stream did not exist at  *)
(* that instant, or the call ends in a transport error, the call fails    *)
(* and prints nothing.                                                     *)
(***************************************************************************)
EXTENDS ServerStore

CONSTANT Show(_, _)     \* the printed lines of a listing in an output mode

VARIABLES
    store,      \* the server's streams and topics
    call,       \* None, or the stream identifier and output mode of a call
    snapshot,   \* None, or the server's reply, taken at one instant
    result      \* None, or [ok, lines] of a finished call

Init == store = EmptyStore /\ call = None /\ snapshot = None /\ result = None

\* Other clients change the store at any time.
Change == store' # store /\ UNCHANGED <<call, snapshot, result>>

Invoke ==
    /\ call = None /\ call' # None
    /\ UNCHANGED <<store, snapshot, result>>

\* The one instant the listing reflects.
Answer ==
    /\ call # None /\ snapshot = None
    /\ snapshot' = GetTopics(store, call.stream).res
    /\ UNCHANGED <<store, call, result>>

\* The call ends in a transport error; nothing was read.
Lost ==
    /\ call # None /\ snapshot = None
    /\ snapshot' = Err("TransportError")
    /\ UNCHANGED <<store, call, result>>

PrintListing ==
    /\ snapshot # None /\ result = None
    /\ result' = IF IsOk(snapshot) THEN [ok |-> TRUE, lines |-> Show(call.output, snapshot.val)]
                 ELSE [ok |-> FALSE, lines |-> <<>>]
    /\ UNCHANGED <<store, call, snapshot>>

Finish ==
    /\ result # None
    /\ call' = None /\ snapshot' = None /\ result' = None
    /\ UNCHANGED store

Spec == Init /\ [][Change \/ Invoke \/ Answer \/ Lost \/ PrintListing \/ Finish]_<<store, call, snapshot, result>>

=============================================================================
