------------------------------ MODULE ReplyOnce ------------------------------
(***************************************************************************)
(* What the server promises for each request, whoever races to answer it:  *)
(* one response is decided, never changed, published at most once and only *)
(* as it was decided, and the one AfterResponseEvent of the call reports   *)
(* that very response.  A message that never becomes a request is refused  *)
(* once and nothing is decided for it.                                     *)
(***************************************************************************)
EXTENDS Reply, Sequences

CONSTANT Requests

VARIABLES
    decision,   \* the response decided for a request, NULL while open
    published,  \* the messages published on its reply topic
    reported,   \* the response its AfterResponseEvent carried, NULL before
    refused     \* the requests that were refused as bad messages

vars == <<decision, published, reported, refused>>

Init ==
    /\ decision = [r \in Requests |-> NULL]
    /\ published = [r \in Requests |-> <<>>]
    /\ reported = [r \in Requests |-> NULL]
    /\ refused = {}

Refuse(r) ==
    /\ decision[r] = NULL
    /\ published[r] = <<>>
    /\ reported[r] = NULL
    /\ r \notin refused
    /\ refused' = refused \union {r}
    /\ published' = [published EXCEPT ![r] = <<BadRequest>>]
    /\ UNCHANGED <<decision, reported>>

Decide(r, v) ==
    /\ r \notin refused
    /\ decision[r] = NULL
    /\ decision' = [decision EXCEPT ![r] = v]
    /\ UNCHANGED <<published, reported, refused>>

Publish(r) ==
    /\ r \notin refused
    /\ decision[r] # NULL
    /\ published[r] = <<>>
    /\ published' = [published EXCEPT ![r] = <<Encode(decision[r])>>]
    /\ UNCHANGED <<decision, reported, refused>>

Report(r) ==
    /\ decision[r] # NULL
    /\ reported[r] = NULL
    /\ reported' = [reported EXCEPT ![r] = decision[r]]
    /\ UNCHANGED <<decision, published, refused>>

Next ==
    \E r \in Requests :
        \/ Refuse(r)
        \/ \E v \in Response : Decide(r, v)
        \/ Publish(r)
        \/ Report(r)

Spec == Init /\ [][Next]_vars
=============================================================================
