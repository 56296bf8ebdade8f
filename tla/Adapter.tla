------------------------------- MODULE Adapter -------------------------------
(***************************************************************************)
(* The MQTT adapter's connection and its two registries of callbacks.      *)
(*                                                                         *)
(* ConnectAndWaitForSuccess loops, Disconnect, and goroutines that         *)
(* register and unregister callbacks run beside the goroutines in which    *)
(* paho calls the connect and the connection-lost handler.  The handlers   *)
(* range over the registries without the mutex that the writers hold, and  *)
(* start a goroutine for each callback.                                    *)
(*                                                                         *)
(* What a callback does is abstract: ran[c] says that c's callback was run *)
(* since its event last happened.                                          *)
(***************************************************************************)
EXTENDS Naturals, FiniteSets, Functions

CONSTANTS
    Callers,     \* goroutines that register one callback each
    Losts,       \* those that register for the loss of the connection
    Onces,       \* those that register with OnConnectOnce, OnConnectLostOnce
    Leavers,     \* those that unregister again
    Loops,       \* goroutines of EnsureConnected
    MaxDrops,    \* bound on the connection losses explored
    NULL

ASSUME AdapterAssumption ==
    /\ Losts \subseteq Callers
    /\ Onces \subseteq Callers
    /\ Leavers \subseteq Callers \ Onces
    /\ MaxDrops \in Nat
    /\ NULL \notin Nat
    /\ IsFiniteSet(Callers)
    /\ IsFiniteSet(Loops)

VARIABLES
    link,        \* paho's connection status
    drops,       \* how often it was lost
    loop,        \* where each ConnectAndWaitForSuccess is
    stop,        \* stopRetryConnect
    closing,     \* where Disconnect is
    callbaks,    \* onConnectCallbaks, onConnectLostCallbaks: index to caller
    count,       \* onConnectCallbakCount, onConnectLostCallbakCount
    pc,          \* where each registering goroutine is
    index,       \* the index its callback was given, or NULL
    due,         \* handler goroutines that paho started and that wait to run
    ranging,     \* the handler is ranging over the registry
    todo,        \* indices it still visits
    spawned,     \* goroutines started for the callback and not yet run
    ran,         \* the callback was run since its event last happened
    armed,       \* what the event found: "yes", it was registered; "missed",
                 \* its caller was about to register it (history)
    crash        \* why the process died, "none" while it runs

linkVars == <<link, drops>>
loopVars == <<loop, stop, closing>>
mapVars == <<callbaks, count>>
callerVars == <<pc, index>>
handlerVars == <<due, ranging, todo>>
runVars == <<spawned, ran, armed>>
vars == <<linkVars, loopVars, mapVars, callerVars, handlerVars, runVars, crash>>

Events == {"connect", "lost"}
Event(c) == IF c \in Losts THEN "lost" ELSE "connect"

Init ==
    /\ link = "disconnected"
    /\ drops = 0
    /\ loop = [l \in Loops |-> "new"]
    /\ stop = FALSE
    /\ closing = "no"
    /\ callbaks = [e \in Events |-> <<>>]
    /\ count = [e \in Events |-> 0]
    /\ pc = [c \in Callers |-> "new"]
    /\ index = [c \in Callers |-> NULL]
    /\ due = [e \in Events |-> 0]
    /\ ranging = [e \in Events |-> FALSE]
    /\ todo = [e \in Events |-> {}]
    /\ spawned = [c \in Callers |-> 0]
    /\ ran = [c \in Callers |-> FALSE]
    /\ armed = [c \in Callers |-> "no"]
    /\ crash = "none"

LoopAt(l, label) == crash = "none" /\ loop[l] = label
CallerAt(c, label) == crash = "none" /\ pc[c] = label

\* paho's IsConnectionOpen and, with SetAutoReconnect(true), its IsConnected.
IsConnectionOpen == link = "connected"
PahoIsConnected == link \in {"connected", "reconnecting"}

-----------------------------------------------------------------------------
(* The link: paho, as the adapter configures it.                           *)

Registered(c) == \E i \in DOMAIN callbaks[Event(c)] : callbaks[Event(c)][i] = c

Met(c) == IF Registered(c) THEN "yes" ELSE IF pc[c] = "insert" THEN "missed"
          ELSE "no"

\* Mutant: the handlers are called for the first connection only.
FireFirst(e) ==
    /\ due' = [due EXCEPT ![e] = IF drops > 0 THEN @ ELSE @ + 1]
    /\ ran' = [c \in Callers |-> Event(c) # e /\ ran[c]]
    /\ armed' = [c \in Callers |-> IF Event(c) = e THEN Met(c) ELSE armed[c]]
    /\ UNCHANGED <<mapVars, callerVars, ranging, todo, spawned, crash>>

\* The event happens: paho starts its handler in a goroutine of its own.
Fire(e) ==
    /\ due' = [due EXCEPT ![e] = @ + 1]
    /\ ran' = [c \in Callers |-> Event(c) # e /\ ran[c]]
    /\ armed' = [c \in Callers |-> IF Event(c) = e THEN Met(c) ELSE armed[c]]
    /\ UNCHANGED <<mapVars, callerVars, ranging, todo, spawned, crash>>

LinkUp ==
    /\ link' = "connected"
    /\ UNCHANGED drops
    /\ Fire("connect")

Drop ==
    /\ crash = "none"
    /\ link = "connected"
    /\ drops < MaxDrops
    /\ drops' = drops + 1
    /\ link' = "reconnecting"
    /\ UNCHANGED loopVars
    /\ Fire("lost")

Reconnect ==
    /\ crash = "none"
    /\ link = "reconnecting"
    /\ LinkUp
    /\ UNCHANGED loopVars

-----------------------------------------------------------------------------
(* ConnectAndWaitForSuccess and Disconnect                                 *)

Goto(l, label) ==
    /\ loop' = [loop EXCEPT ![l] = label]
    /\ UNCHANGED <<stop, closing>>

Elsewhere == UNCHANGED <<mapVars, callerVars, handlerVars, runVars, crash>>

EnsureConnected(l) ==
    /\ LoopAt(l, "new")
    /\ Goto(l, "first")
    /\ UNCHANGED linkVars /\ Elsewhere

\* The IsConnected before the loop and the one inside it.
Ask(l) ==
    /\ LoopAt(l, "first") \/ LoopAt(l, "ask")
    /\ Goto(l, IF IsConnectionOpen THEN "end"
               ELSE IF loop[l] = "first" THEN "head" ELSE "connect")
    /\ UNCHANGED linkVars /\ Elsewhere

\* Mutant: the loop does not look at stopRetryConnect.
HeadNoStop(l) ==
    /\ LoopAt(l, "head")
    /\ Goto(l, "ask")
    /\ UNCHANGED linkVars /\ Elsewhere

\* for !s.stopRetryConnect
Head(l) ==
    /\ LoopAt(l, "head")
    /\ Goto(l, IF stop THEN "end" ELSE "ask")
    /\ UNCHANGED linkVars /\ Elsewhere

\* client.Connect().  paho refuses a second attempt while one runs; on a link
\* that is up or reconnecting by itself its token succeeds at once.
Connect(l) ==
    /\ LoopAt(l, "connect")
    /\ Goto(l, CASE link = "disconnected" -> "token"
                 [] link = "connecting" -> "head"
                 [] OTHER -> "end")
    /\ link' = IF link = "disconnected" THEN "connecting" ELSE link
    /\ UNCHANGED drops /\ Elsewhere

\* The broker accepts, or the attempt fails; the loop sleeps and goes round.
ConnectOk(l) ==
    /\ LoopAt(l, "token")
    /\ link = "connecting"
    /\ LinkUp
    /\ Goto(l, "end")

\* Mutant: the loop returns on an error.
ConnectFailReturns(l) ==
    /\ LoopAt(l, "token")
    /\ link = "connecting"
    /\ link' = "disconnected"
    /\ Goto(l, "end")
    /\ UNCHANGED drops /\ Elsewhere

ConnectFail(l) ==
    /\ LoopAt(l, "token")
    /\ link = "connecting"
    /\ link' = "disconnected"
    /\ Goto(l, "head")
    /\ UNCHANGED drops /\ Elsewhere

\* The attempt that Disconnect aborted: with paho's token set to an error, or
\* completed without one.
Aborted(l) ==
    /\ LoopAt(l, "token")
    /\ link # "connecting"
    /\ Goto(l, "head") \/ Goto(l, "end")
    /\ UNCHANGED linkVars /\ Elsewhere

\* Disconnect: the flag, then paho's Disconnect, which aborts an attempt or a
\* reconnection and does nothing on a link that is down.
StopRetry ==
    /\ crash = "none"
    /\ closing = "no"
    /\ stop' = TRUE
    /\ closing' = "stopped"
    /\ UNCHANGED <<linkVars, loop>> /\ Elsewhere

Disconnect ==
    /\ crash = "none"
    /\ closing = "stopped"
    /\ link' = "disconnected"
    /\ closing' = "done"
    /\ UNCHANGED <<drops, loop, stop>> /\ Elsewhere

-----------------------------------------------------------------------------
(* The registries.                                                         *)

\* A write beside a handler that ranges over the map may stop the process.
WriteRace(e) ==
    /\ ranging[e]
    /\ crash' = "mapRace"
    /\ UNCHANGED <<linkVars, loopVars, mapVars, callerVars, handlerVars, runVars>>

\* OffConnect(i), OffConnectLost(i): what it does to the registry.
Remove(e, i) ==
    /\ callbaks' = [callbaks EXCEPT ![e] = Restrict(@, DOMAIN @ \ {i})]
    /\ todo' = [todo EXCEPT ![e] = @ \ {i}]
    /\ UNCHANGED <<linkVars, loopVars, count, due, ranging, armed, crash>>

\* Mutant: OnConnect returns the incremented count.
SubIDNext(c) == IF pc[c] = "done" THEN index[c] + 1 ELSE 0

\* The wrapper's subID: 0 until OnConnect, OnConnectLost has returned.
SubID(c) == IF pc[c] = "done" THEN index[c] ELSE 0

\* OnConnectOnce looks first; with a connection it never registers.
OnConnectOnce(c) ==
    /\ CallerAt(c, "new")
    /\ c \in Onces \ Losts
    /\ pc' = [pc EXCEPT ![c] = IF PahoIsConnected THEN "done" ELSE "check"]
    /\ ran' = [ran EXCEPT ![c] = PahoIsConnected]
    /\ UNCHANGED <<linkVars, loopVars, mapVars, index, handlerVars, spawned,
                   armed, crash>>

\* OnConnect's IsConnected; with a connection the callback runs here, and the
\* wrapper of OnConnectOnce unregisters its subID first.
AtCheck(c) ==
    \/ CallerAt(c, "new") /\ c \notin Onces \union Losts
    \/ CallerAt(c, "check")

CheckDown(c) ==
    /\ AtCheck(c)
    /\ ~PahoIsConnected
    /\ pc' = [pc EXCEPT ![c] = "insert"]
    /\ UNCHANGED <<linkVars, loopVars, mapVars, index, handlerVars, runVars,
                   crash>>

\* Mutant: OnConnect registers only.
CheckUpSilent(c) ==
    /\ AtCheck(c)
    /\ PahoIsConnected
    /\ pc' = [pc EXCEPT ![c] = "insert"]
    /\ UNCHANGED <<linkVars, loopVars, mapVars, index, handlerVars, runVars,
                   crash>>

CheckUp(c) ==
    /\ AtCheck(c)
    /\ PahoIsConnected
    /\ pc' = [pc EXCEPT ![c] = "insert"]
    /\ ran' = [ran EXCEPT ![c] = TRUE]
    /\ UNCHANGED <<index, spawned>>
    /\ IF c \in Onces
       THEN Remove("connect", SubID(c))
       ELSE UNCHANGED <<linkVars, loopVars, mapVars, handlerVars, armed, crash>>

\* The section under the mutex: a new index for the callback.  A handler that
\* ranges over the map may or may not meet the new entry.
AtInsert(c) ==
    \/ CallerAt(c, "insert")
    \/ CallerAt(c, "new") /\ c \in Losts

Insert(c) ==
    /\ AtInsert(c)
    /\ LET e == Event(c)
           i == count[e]
       IN  /\ callbaks' = [callbaks EXCEPT ![e] =
                             [j \in DOMAIN @ \union {i} |->
                                IF j = i THEN c ELSE @[j]]]
           /\ count' = [count EXCEPT ![e] = i + 1]
           /\ index' = [index EXCEPT ![c] = i]
           /\ \/ UNCHANGED todo
              \/ ranging[e] /\ todo' = [todo EXCEPT ![e] = @ \union {i}]
    /\ pc' = [pc EXCEPT ![c] = IF c \in Onces THEN "assign" ELSE "done"]
    /\ UNCHANGED <<linkVars, loopVars, due, ranging, runVars, crash>>

\* subID = s.OnConnect(...)
Assign(c) ==
    /\ CallerAt(c, "assign")
    /\ pc' = [pc EXCEPT ![c] = "done"]
    /\ UNCHANGED <<linkVars, loopVars, mapVars, index, handlerVars, runVars,
                   crash>>

\* The application calls OffConnect or OffConnectLost with its index.
Off(c) ==
    /\ CallerAt(c, "done")
    /\ c \in Leavers
    /\ pc' = [pc EXCEPT ![c] = "left"]
    /\ Remove(Event(c), index[c])
    /\ UNCHANGED <<index, spawned, ran>>

-----------------------------------------------------------------------------
(* The handlers, and the goroutines they start.                            *)

\* paho's goroutine for the event comes to run.  Those of one event are taken
\* one after the other, where paho may run two at once.
RangeBegin(e) ==
    /\ crash = "none"
    /\ due[e] > 0
    /\ ~ranging[e]
    /\ due' = [due EXCEPT ![e] = @ - 1]
    /\ ranging' = [ranging EXCEPT ![e] = TRUE]
    /\ todo' = [todo EXCEPT ![e] = DOMAIN callbaks[e]]
    /\ UNCHANGED <<linkVars, loopVars, mapVars, callerVars, runVars, crash>>

\* Mutant: the handler does not advance.
VisitAgain(e) ==
    /\ crash = "none"
    /\ \E i \in todo[e] : spawned' = [spawned EXCEPT ![callbaks[e][i]] = @ + 1]
    /\ UNCHANGED <<linkVars, loopVars, mapVars, callerVars, handlerVars, ran,
                   armed, crash>>

\* Mutant: the handler returns after the first callback.
VisitFirst(e) ==
    /\ crash = "none"
    /\ \E i \in todo[e] : spawned' = [spawned EXCEPT ![callbaks[e][i]] = @ + 1]
    /\ todo' = [todo EXCEPT ![e] = {}]
    /\ UNCHANGED <<linkVars, loopVars, mapVars, callerVars, due, ranging, ran,
                   armed, crash>>

\* go cb()
Visit(e) ==
    /\ crash = "none"
    /\ \E i \in todo[e] :
        /\ todo' = [todo EXCEPT ![e] = @ \ {i}]
        /\ spawned' = [spawned EXCEPT ![callbaks[e][i]] = @ + 1]
    /\ UNCHANGED <<linkVars, loopVars, mapVars, callerVars, due, ranging, ran,
                   armed, crash>>

RangeDone(e) ==
    /\ crash = "none"
    /\ ranging[e]
    /\ todo[e] = {}
    /\ ranging' = [ranging EXCEPT ![e] = FALSE]
    /\ UNCHANGED <<linkVars, loopVars, mapVars, callerVars, due, todo, runVars,
                   crash>>

\* The callback; a once-callback's wrapper unregisters its subID first.
Run(c) ==
    /\ crash = "none"
    /\ spawned[c] > 0
    /\ spawned' = [spawned EXCEPT ![c] = @ - 1]
    /\ ran' = [ran EXCEPT ![c] = TRUE]
    /\ UNCHANGED callerVars
    /\ IF c \in Onces
       THEN Remove(Event(c), SubID(c))
       ELSE UNCHANGED <<linkVars, loopVars, mapVars, handlerVars, armed, crash>>

\* The map writes of the actions above, when they meet the handler.
RacingWrite(c) ==
    /\ \/ AtInsert(c)
       \/ AtCheck(c) /\ PahoIsConnected /\ c \in Onces
       \/ CallerAt(c, "done") /\ c \in Leavers
       \/ crash = "none" /\ spawned[c] > 0 /\ c \in Onces
    /\ WriteRace(Event(c))

-----------------------------------------------------------------------------
Halted == crash # "none" /\ UNCHANGED vars

LoopStep(l) ==
    \/ Ask(l)
    \/ Head(l)
    \/ Connect(l)
    \/ ConnectOk(l)
    \/ ConnectFail(l)
    \/ Aborted(l)

RegisterStep(c) ==
    \/ OnConnectOnce(c)
    \/ CheckDown(c)
    \/ CheckUp(c)
    \/ Insert(c)
    \/ Assign(c)
    \/ Off(c)

HandlerStep(e) ==
    \/ RangeBegin(e)
    \/ Visit(e)
    \/ RangeDone(e)

Next ==
    \/ \E l \in Loops : EnsureConnected(l) \/ LoopStep(l)
    \/ \E c \in Callers : RegisterStep(c) \/ Run(c) \/ RacingWrite(c)
    \/ \E e \in Events : HandlerStep(e)
    \/ Drop
    \/ Reconnect
    \/ StopRetry
    \/ Disconnect
    \/ Halted

Spec == Init /\ [][Next]_vars

\* Goroutines that were started run, an attempt to connect ends one way or the
\* other, and so does a call of Disconnect.  Nobody has to start anything and
\* the broker may refuse for ever.
Fairness ==
    /\ \A l \in Loops : WF_vars(LoopStep(l))
    /\ \A c \in Callers : WF_vars(Run(c))
    /\ \A e \in Events : WF_vars(HandlerStep(e))
    /\ WF_vars(Disconnect)

FairSpec == Spec /\ Fairness

-----------------------------------------------------------------------------
(* Safety                                                                  *)

\* Every variable stays in its type; in particular there are never more
\* goroutines for a callback than there were events.
TypeOK ==
    /\ link \in {"disconnected", "connecting", "connected", "reconnecting"}
    /\ drops \in 0 .. MaxDrops
    /\ loop \in [Loops -> {"new", "first", "head", "ask", "connect", "token",
                           "end"}]
    /\ stop \in BOOLEAN
    /\ closing \in {"no", "stopped", "done"}
    /\ \A e \in Events :
        /\ count[e] \in 0 .. Cardinality(Callers)
        /\ DOMAIN callbaks[e] \subseteq 0 .. count[e] - 1
        /\ \A i \in DOMAIN callbaks[e] : callbaks[e][i] \in Callers
        /\ todo[e] \subseteq DOMAIN callbaks[e]
        /\ due[e] \in Nat
    /\ pc \in [Callers -> {"new", "check", "insert", "assign", "done", "left"}]
    /\ index \in [Callers -> Nat \union {NULL}]
    /\ ranging \in [Events -> BOOLEAN]
    /\ spawned \in [Callers -> 0 .. MaxDrops + Cardinality(Loops)]
    /\ ran \in [Callers -> BOOLEAN]
    /\ armed \in [Callers -> {"no", "yes", "missed"}]
    /\ crash \in {"none", "mapRace"}

\* A callback that was registered and not unregistered is in the registry
\* under the index its caller got, whatever the others register, unregister or
\* run meanwhile.  The exception is index 0: OnConnectOnce and
\* OnConnectLostOnce may unregister it before they know their own.
KeepsRegistration ==
    \A c \in Callers \ Onces :
        LET e == Event(c)
            first == index[c] = 0 /\ \E d \in Onces : Event(d) = e
        IN  (pc[c] = "done" /\ ~first) =>
                index[c] \in DOMAIN callbaks[e] /\ callbaks[e][index[c]] = c

\* A callback "will be invoked immediately if the client is already connected":
\* once OnConnect has returned, the client is connected, and every handler and
\* every goroutine it started has run, the callback was run for this
\* connection, unless the client connected between OnConnect's check and its
\* registration, or a once-callback has unregistered it (see KeepsRegistration).
Quiet ==
    /\ \A e \in Events : due[e] = 0 /\ ~ranging[e]
    /\ \A c \in Callers : spawned[c] = 0

ConnectedInvoked ==
    \A c \in Callers \ (Onces \union Losts) :
        (pc[c] = "done" /\ link = "connected" /\ Quiet /\ armed[c] # "missed") =>
            (ran[c] \/ ~Registered(c))

\* The handler was started, has still to come to the callback, or has started
\* a goroutine for it.
Coming(c) ==
    \/ due[Event(c)] > 0
    \/ index[c] \in todo[Event(c)]
    \/ spawned[c] > 0

\* No callback is forgotten: one that was registered when its event happened
\* and still is, was run since or is coming, whatever was registered,
\* unregistered and run beside the handler's range.
NotForgotten ==
    \A c \in Callers : (armed[c] = "yes" /\ Registered(c) /\ ~ran[c]) => Coming(c)

\* ConnectAndWaitForSuccess "waits for a successful connection": it returns
\* with the link up, or because it was told to stop, also when an attempt of
\* its own was aborted or refused.  The exception is a link that paho is
\* reconnecting: Connect succeeds on it at once, and the loop returns while it
\* is still down.
Returns(l) == loop[l] # "end" /\ loop'[l] = "end"

WaitsForSuccess ==
    [][\A l \in Loops :
         Returns(l) => link' = "connected" \/ stop \/ link = "reconnecting"]_vars

\* When Disconnect has returned and no retry loop is past its check of
\* stopRetryConnect, the link is down and stays down.
Down ==
    /\ closing = "done"
    /\ link = "disconnected"
    /\ \A l \in Loops : loop[l] \notin {"ask", "connect", "token"}

DisconnectFinal == [][Down => Down']_vars

-----------------------------------------------------------------------------
(* Liveness                                                                *)

\* A callback that is registered when its event happens is run after it, once
\* the handler comes to it, unless it is unregistered meanwhile.
CallbackRuns ==
    \A c \in Callers :
        armed[c] = "yes" ~> (ran[c] \/ ~Registered(c) \/ crash # "none")

\* A retry loop ends: when the broker keeps accepting, with the connection,
\* and when the application disconnects, although the broker never accepts.
FairBroker == \A l \in Loops : SF_vars(ConnectOk(l))

RetryEnds ==
    (FairBroker \/ <>stop) =>
        \A l \in Loops : loop[l] = "first" ~> (loop[l] = "end" \/ crash # "none")
=============================================================================
