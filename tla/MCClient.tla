------------------------------ MODULE MCClient -------------------------------
(* Small instances of Client for TLC. *)
EXTENDS Client, TLC

CONSTANTS c1, c2

\* A pooled codec: either call may succeed; what is left in the codec may also
\* be an error, or a response that did not decode.
LiveAnswers == c1 :> {"ok", "error"} @@ c2 :> {"ok", "garbled"}

\* A codec of its own: everything a response can be.
JsonAnswers == c1 :> {"ok", "garbled"} @@ c2 :> {"error", "unfit"}

\* Every call succeeds.
PlainAnswers == [c \in Calls |-> {"ok"}]
=============================================================================
