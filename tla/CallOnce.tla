------------------------------ MODULE CallOnce -------------------------------
(***************************************************************************)
(* What a client promises for each call: a request is sent, at most one    *)
(* response to it arrives, and the call returns once.  It returns the      *)
(* result or the error that arrived, or that what arrived could not be     *)
(* decoded; the error of a context that may end; or that its request could *)
(* not be encoded, and then it sends nothing.  It returns nothing else: in *)
(* particular no result of another call and no error of its connection.    *)
(***************************************************************************)
CONSTANTS
    Calls,
    Deadlines   \* the calls whose context may end

VARIABLES
    sent,       \* the calls whose request was sent
    arrived,    \* what arrived for a call: "none", a result "ok", an "error",
                \* or a response that cannot be decoded, "bad"
    outcome     \* what a call returned, "none" before

vars == <<sent, arrived, outcome>>

Init ==
    /\ sent = {}
    /\ arrived = [c \in Calls |-> "none"]
    /\ outcome = [c \in Calls |-> "none"]

Send(c) ==
    /\ c \notin sent
    /\ outcome[c] = "none"
    /\ sent' = sent \union {c}
    /\ UNCHANGED <<arrived, outcome>>

\* Also after the call has returned.
Arrive(c, a) ==
    /\ c \in sent
    /\ arrived[c] = "none"
    /\ arrived' = [arrived EXCEPT ![c] = a]
    /\ UNCHANGED <<sent, outcome>>

ReturnAs(c, o) ==
    /\ outcome[c] = "none"
    /\ outcome' = [outcome EXCEPT ![c] = o]
    /\ UNCHANGED <<sent, arrived>>

Return(c) ==
    \/ arrived[c] = "ok" /\ ReturnAs(c, c)
    \/ arrived[c] = "error" /\ ReturnAs(c, "error")
    \/ arrived[c] = "bad" /\ ReturnAs(c, "decode")
    \/ c \in Deadlines /\ ReturnAs(c, "ctx")
    \/ c \notin sent /\ ReturnAs(c, "encode")

Next ==
    \E c \in Calls :
        \/ Send(c)
        \/ \E a \in {"ok", "error", "bad"} : Arrive(c, a)
        \/ Return(c)

Spec == Init /\ [][Next]_vars
=============================================================================
