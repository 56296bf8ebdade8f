--------------------------- MODULE Subscriptions -----------------------------
(***************************************************************************)
(* The adapter's subscribeMap beside the subscriptions that the broker     *)
(* keeps.  Goroutines of the servers, the clients' connections and the     *)
(* application subscribe and unsubscribe at the same time; each sends its  *)
(* packet through paho first and updates the map afterwards, topic by      *)
(* topic and whatever became of the packet.                                *)
(*                                                                         *)
(* paho sends packets in the order of the calls and the broker handles     *)
(* them in that order, so subs is what the broker will have subscribed     *)
(* once it has handled all that was sent.  The session is clean: when the  *)
(* connection is lost, so are the subscriptions and the pending answers.   *)
(***************************************************************************)
EXTENDS Naturals

CONSTANTS
    Ops,       \* goroutines that call one subscribe or unsubscribe method
    Topics,    \* topic filters
    Timed,     \* the operations whose context ends some time
    MaxDrops   \* bound on the connection losses explored

ASSUME SubscriptionsAssumption == Timed \subseteq Ops /\ MaxDrops \in Nat

VARIABLES
    pc,        \* where the operation is
    kind,      \* "sub", "unsub" or "all" (UnsubscribeAll)
    waits,     \* it is the variant that waits for the token
    topics,    \* its topics; for "all" those that Range found so far
    todo,      \* the topics Range has still to visit, the map to be updated with
    token,     \* its paho token
    result,    \* what a waiting variant returns
    link,      \* whether the client is connected
    drops,     \* how often the connection was lost
    subs,      \* the broker's subscriptions, once it handled what was sent
    subscribeMap,
    tangled,   \* topics subscribed while their removal was under way (history)
    owed,      \* what was subscribed and known as UnsubscribeAll began (history)
    again      \* what was subscribed since it began (history)

opVars == <<pc, kind, waits, topics, todo, token, result>>
linkVars == <<link, drops>>
history == <<tangled, owed, again>>
vars == <<opVars, linkVars, subs, subscribeMap, history>>

PC == {"idle", "range", "send", "wait", "update", "done"}
Kinds == {"sub", "unsub", "all"}

\* Whatever came before is over: the map and the broker agree.
Init ==
    /\ pc = [o \in Ops |-> "idle"]
    /\ kind = [o \in Ops |-> "sub"]
    /\ waits = [o \in Ops |-> FALSE]
    /\ topics = [o \in Ops |-> {}]
    /\ todo = [o \in Ops |-> {}]
    /\ token = [o \in Ops |-> "none"]
    /\ result = [o \in Ops |-> "none"]
    /\ link = "up"
    /\ drops = 0
    /\ subs \in SUBSET Topics
    /\ subscribeMap = subs
    /\ tangled = {}
    /\ owed = [o \in Ops |-> {}]
    /\ again = [o \in Ops |-> {}]

Goto(o, label) == pc' = [pc EXCEPT ![o] = label]

-----------------------------------------------------------------------------
(* The calls.                                                              *)

Begin(o, k, wait) ==
    /\ pc[o] = "idle"
    /\ kind' = [kind EXCEPT ![o] = k]
    /\ waits' = [waits EXCEPT ![o] = wait]
    /\ UNCHANGED <<token, result, linkVars, subs, subscribeMap, tangled, again>>

\* Subscribe and SubscribeMultiple, with and without Wait.
Subscribe(o, ts, wait) ==
    /\ Begin(o, "sub", wait)
    /\ topics' = [topics EXCEPT ![o] = ts]
    /\ Goto(o, "send")
    /\ UNCHANGED <<todo, owed>>

Unsubscribe(o, t, wait) ==
    /\ Begin(o, "unsub", wait)
    /\ topics' = [topics EXCEPT ![o] = {t}]
    /\ Goto(o, "send")
    /\ UNCHANGED <<todo, owed>>

UnsubscribeAll(o, wait) ==
    /\ Begin(o, "all", wait)
    /\ todo' = [todo EXCEPT ![o] = Topics]
    /\ owed' = [owed EXCEPT ![o] = subs \intersect subscribeMap]
    /\ Goto(o, "range")
    /\ UNCHANGED topics

\* Mutant: the function that Range calls returns false.
VisitOne(o, t) ==
    /\ pc[o] = "range"
    /\ t \in todo[o]
    /\ topics' = [topics EXCEPT ![o] = @ \union ({t} \intersect subscribeMap)]
    /\ todo' = [todo EXCEPT ![o] = IF t \in subscribeMap THEN {} ELSE @ \ {t}]
    /\ UNCHANGED <<pc, kind, waits, token, result, linkVars, subs,
                   subscribeMap, history>>

\* subscribeMap.Range is no snapshot: each key counts as it is when visited.
Visit(o, t) ==
    /\ pc[o] = "range"
    /\ t \in todo[o]
    /\ topics' = [topics EXCEPT ![o] = @ \union ({t} \intersect subscribeMap)]
    /\ todo' = [todo EXCEPT ![o] = @ \ {t}]
    /\ UNCHANGED <<pc, kind, waits, token, result, linkVars, subs,
                   subscribeMap, history>>

RangeDone(o) ==
    /\ pc[o] = "range"
    /\ todo[o] = {}
    /\ Goto(o, "send")
    /\ UNCHANGED <<kind, waits, topics, todo, token, result, linkVars, subs,
                   subscribeMap, history>>

-----------------------------------------------------------------------------
(* client.Subscribe, client.SubscribeMultiple and client.Unsubscribe.      *)

\* The call returns a token; the variants without Wait drop it.
Sent(o, answer) ==
    /\ token' = [token EXCEPT ![o] = answer]
    /\ todo' = [todo EXCEPT ![o] = topics[o]]
    /\ Goto(o, IF waits[o] THEN "wait" ELSE "update")
    /\ UNCHANGED <<kind, waits, topics, result, linkVars, subscribeMap, owed>>

\* Mutant: the options set ResumeSubs, and paho keeps the packet.
SendQueued(o) ==
    /\ pc[o] = "send"
    /\ link = "down"
    /\ Sent(o, "pending")
    /\ UNCHANGED <<subs, tangled, again>>

SendNothing(o) ==
    /\ pc[o] = "send"
    /\ link = "down"
    /\ Sent(o, "error")
    /\ UNCHANGED <<subs, tangled, again>>

\* A removal of t that was sent and has not yet updated the map.
Removing(t) ==
    \E o \in Ops :
        /\ kind[o] # "sub"
        /\ pc[o] \in {"wait", "update"}
        /\ t \in todo[o]

\* The broker may refuse some of the topics.
SendSubscribe(o) ==
    /\ pc[o] = "send"
    /\ link = "up"
    /\ kind[o] = "sub"
    /\ Sent(o, "pending")
    /\ \E granted \in SUBSET topics[o] : subs' = subs \union granted
    /\ tangled' = (tangled \ topics[o]) \union {t \in topics[o] : Removing(t)}
    /\ again' = [p \in Ops |-> IF pc[p] = "idle" THEN again[p]
                               ELSE again[p] \union topics[o]]

SendUnsubscribe(o) ==
    /\ pc[o] = "send"
    /\ link = "up"
    /\ kind[o] # "sub"
    /\ Sent(o, "pending")
    /\ subs' = subs \ topics[o]
    /\ UNCHANGED <<tangled, again>>

-----------------------------------------------------------------------------
(* The select of the waiting variants, and the deferred map updates.       *)

ReturnWith(o, r) ==
    /\ result' = [result EXCEPT ![o] = r]
    /\ Goto(o, "update")
    /\ UNCHANGED <<kind, waits, topics, todo, token, linkVars, subs,
                   subscribeMap, history>>

TokenDone(o) ==
    /\ pc[o] = "wait"
    /\ token[o] # "pending"
    /\ ReturnWith(o, token[o])

\* Mutant: the select has no case for the context.
ContextIgnored(o) ==
    /\ pc[o] = "wait"
    /\ o \in Timed
    /\ token[o] # "pending"
    /\ ReturnWith(o, "context")

ContextDone(o) ==
    /\ pc[o] = "wait"
    /\ o \in Timed
    /\ ReturnWith(o, "context")

Store(o, t) ==
    /\ pc[o] = "update"
    /\ t \in todo[o]
    /\ kind[o] = "sub"
    /\ subscribeMap' = subscribeMap \union {t}
    /\ todo' = [todo EXCEPT ![o] = @ \ {t}]
    /\ UNCHANGED <<pc, kind, waits, topics, token, result, linkVars, subs,
                   history>>

\* Mutant: UnsubscribeAll clears the map instead of deleting what it sent.
DeleteEverything(o, t) ==
    /\ pc[o] = "update"
    /\ t \in todo[o]
    /\ kind[o] # "sub"
    /\ subscribeMap' = IF kind[o] = "all" THEN {} ELSE subscribeMap \ {t}
    /\ todo' = [todo EXCEPT ![o] = @ \ {t}]
    /\ UNCHANGED <<pc, kind, waits, topics, token, result, linkVars, subs,
                   history>>

Delete(o, t) ==
    /\ pc[o] = "update"
    /\ t \in todo[o]
    /\ kind[o] # "sub"
    /\ subscribeMap' = subscribeMap \ {t}
    /\ todo' = [todo EXCEPT ![o] = @ \ {t}]
    /\ UNCHANGED <<pc, kind, waits, topics, token, result, linkVars, subs,
                   history>>

Return(o) ==
    /\ pc[o] = "update"
    /\ todo[o] = {}
    /\ Goto(o, "done")
    /\ UNCHANGED <<kind, waits, topics, todo, token, result, linkVars, subs,
                   subscribeMap, history>>

-----------------------------------------------------------------------------
(* The broker and the connection.                                          *)

Answer(o) ==
    /\ token[o] = "pending"
    /\ token' = [token EXCEPT ![o] = "ok"]
    /\ UNCHANGED <<pc, kind, waits, topics, todo, result, linkVars, subs,
                   subscribeMap, history>>

Drop ==
    /\ link = "up"
    /\ drops < MaxDrops
    /\ link' = "down"
    /\ drops' = drops + 1
    /\ subs' = {}
    /\ token' = [o \in Ops |-> IF token[o] = "pending" THEN "error" ELSE token[o]]
    /\ UNCHANGED <<pc, kind, waits, topics, todo, result, subscribeMap, history>>

Reconnect ==
    /\ link = "down"
    /\ link' = "up"
    /\ UNCHANGED <<opVars, drops, subs, subscribeMap, history>>

-----------------------------------------------------------------------------
Call(o) ==
    \E wait \in BOOLEAN :
        \/ \E ts \in SUBSET Topics : ts # {} /\ Subscribe(o, ts, wait)
        \/ \E t \in Topics : Unsubscribe(o, t, wait)
        \/ UnsubscribeAll(o, wait)

Step(o) ==
    \/ \E t \in Topics : Visit(o, t) \/ Store(o, t) \/ Delete(o, t)
    \/ RangeDone(o)
    \/ SendNothing(o)
    \/ SendSubscribe(o)
    \/ SendUnsubscribe(o)
    \/ TokenDone(o)
    \/ ContextDone(o)
    \/ Return(o)

Next ==
    \/ \E o \in Ops : Call(o) \/ Step(o) \/ Answer(o)
    \/ Drop
    \/ Reconnect

Spec == Init /\ [][Next]_vars

\* Goroutines that can run do, and contexts with a deadline end.  The broker
\* owes no answer.
Fairness == \A o \in Ops : WF_vars(Step(o))

FairSpec == Spec /\ Fairness

-----------------------------------------------------------------------------
(* Safety                                                                  *)

\* Every variable stays in its type; without a connection there is neither a
\* subscription nor an answer to wait for.
TypeOK ==
    /\ pc \in [Ops -> PC]
    /\ kind \in [Ops -> Kinds]
    /\ waits \in [Ops -> BOOLEAN]
    /\ topics \in [Ops -> SUBSET Topics]
    /\ todo \in [Ops -> SUBSET Topics]
    /\ token \in [Ops -> {"none", "pending", "ok", "error"}]
    /\ result \in [Ops -> {"none", "ok", "error", "context"}]
    /\ link \in {"up", "down"}
    /\ drops \in 0 .. MaxDrops
    /\ subs \subseteq Topics
    /\ subscribeMap \subseteq Topics
    /\ tangled \subseteq Topics
    /\ owed \in [Ops -> SUBSET Topics]
    /\ again \in [Ops -> SUBSET Topics]
    /\ link = "down" => subs = {} /\ \A o \in Ops : token[o] # "pending"

\* What is subscribed at the broker is in subscribeMap, or about to be stored
\* there by the call that subscribed it, however calls overlap and fail.  The
\* exception is a topic that was subscribed again while its removal was
\* between paho's Unsubscribe and the deletion from the map.
Storing(t) ==
    \E o \in Ops :
        /\ kind[o] = "sub"
        /\ pc[o] \in {"wait", "update"}
        /\ t \in todo[o]

Tracked == \A t \in subs : t \in subscribeMap \/ t \in tangled \/ Storing(t)

\* UnsubscribeAll "unsubscribes from all topics that the client is currently
\* subscribed to": of what was subscribed and known when it began, nothing is
\* subscribed once it has sent its packet, however Range meets other calls,
\* unless it was subscribed again since.
UnsubscribedAll ==
    \A o \in Ops :
        (kind[o] = "all" /\ pc[o] \in {"wait", "update", "done"}) =>
            owed[o] \intersect subs \subseteq again[o] \union tangled

\* What the two rest on.  A topic whose removal is under way is subscribed
\* only if it was subscribed again; what Range has not met is not owed.
RemovalsSent ==
    \A o \in Ops : \A t \in subs :
        /\ (kind[o] # "sub" /\ pc[o] \in {"wait", "update"} /\ t \in todo[o]) =>
               t \in tangled
        /\ (kind[o] = "all" /\ pc[o] \in {"range", "send"} /\ t \in owed[o]) =>
               \/ t \in topics[o] \union again[o] \union tangled
               \/ pc[o] = "range" /\ t \in todo[o] \intersect subscribeMap

-----------------------------------------------------------------------------
(* Liveness                                                                *)

\* A call that waits returns when its context ends or its connection is lost,
\* although the broker never answers.
WaitReturns ==
    \A o \in Ops :
        (pc[o] = "wait" /\ (o \in Timed \/ link = "down")) ~> pc[o] = "done"
=============================================================================
