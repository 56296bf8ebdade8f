------------------------------ MODULE MCServer -------------------------------
(* Small instances of Server for TLC. *)
EXTENDS Server

HandlerResponse(status, err, payload) ==
    [cause |-> "handler", status |-> status, err |-> err, payload |-> payload]

\* A method that answers with a result or an error the marshaller accepts.
SoundReplies ==
    {HandlerResponse(200, FALSE, "sound"), HandlerResponse(500, TRUE, "sound")}

\* A method that answers with a result of each kind, or an error text that is
\* not UTF-8.
AnyReplies ==
    {HandlerResponse(200, FALSE, p) : p \in Payload}
    \union {HandlerResponse(500, TRUE, "broken")}
=============================================================================
