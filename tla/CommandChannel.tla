--------------------------- MODULE CommandChannel ---------------------------
(***************************************************************************)
(* What the command layer promises a client (spec.md 4.1, 8 law 1),       *)
(* with no bytes: the client submits one command at a time, and the server *)
(* answers it with the command itself, in canonical form, when the command *)
(* is valid, and with an error otherwise.  It never answers anything else  *)
(* and never aborts.  Valid and Canon are parameters: which commands are    *)
(* valid, and the form in which a command survives the wire.               *)
(***************************************************************************)
CONSTANTS
    None,       \* no command in flight / no answer yet
    Valid(_),   \* the command is valid (spec.md 3 and 4)
    Canon(_)    \* the command as the wire can express it

VARIABLES
    pending,    \* the command in flight, or None
    answer      \* the server's answer to it, or None

Init == pending = None /\ answer = None

\* The client submits a command.
Submit == pending = None /\ pending' # None /\ answer' = None

\* The server answers: the canonical command when it is valid, an error
\* otherwise.
Respond ==
    /\ pending # None /\ answer = None
    /\ IF Valid(pending) THEN answer' = [tag |-> "ok", val |-> Canon(pending)]
                        ELSE answer' \in [tag : {"err"}, err : STRING]
    /\ UNCHANGED pending

\* The client takes the answer and is ready for its next command.
Complete == answer # None /\ pending' = None /\ answer' = None

Spec == Init /\ [][Submit \/ Respond \/ Complete]_<<pending, answer>>

=============================================================================
