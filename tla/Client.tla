------------------------------- MODULE Client --------------------------------
(***************************************************************************)
(* Client.Call of both bindings, down to the MQTT connection.              *)
(*                                                                         *)
(* A call c makes an rpcConn of its own (topics with a fresh uuid), a      *)
(* net/rpc client on it and, in the protobuf binding, takes a codec from a *)
(* sync.Pool.  Three kinds of goroutine meet there:                        *)
(*   - the caller, at pc[c];                                               *)
(*   - the reader, net/rpc's Client.input, at reader[c]: it loops over     *)
(*     ReadResponseHeader and ReadResponseBody until the connection ends,  *)
(*     and nobody waits for it to end;                                     *)
(*   - the MQTT router, one goroutine that runs every message callback.    *)
(*                                                                         *)
(* The response to call c is identified with c.  It fits into one Read.    *)
(***************************************************************************)
EXTENDS Naturals, FiniteSets

CONSTANTS
    Calls,       \* the calls the application makes
    Codecs,      \* the codecs that may be allocated
    Deadlines,   \* the calls whose context ends some day
    Unencodable, \* the calls whose parameters may turn out not to encode
    Pooled,      \* codecs are pooled (mqttpb) or made for each call (mqttjson)
    Answers,     \* what the server may answer each call with, see Answer
    MaxDrops,    \* bound on the connection losses explored
    NULL

ASSUME ClientAssumption ==
    /\ Deadlines \subseteq Calls
    /\ Unencodable \subseteq Calls
    /\ Pooled \in BOOLEAN
    /\ Answers \in [Calls -> SUBSET {"ok", "error", "garbled", "unfit"}]
    /\ MaxDrops \in Nat
    /\ NULL \notin Calls \union Codecs
    /\ Calls \intersect {"none", "empty", "error", "eof", "ctx", "encode",
                          "decode"} = {}

VARIABLES
    pc,         \* where the caller is in Call
    result,     \* what Call returned
    done,       \* what net/rpc put into the rpc.Call, "none" before
    pending,    \* the rpc.Call is in the rpc client's pending map
    codec,      \* the codec the call uses
    reader,     \* where Client.input is
    source,     \* the connection whose Read the reader is in
    codecConn,  \* RPCClientCodec.conn
    codecRes,   \* RPCClientCodec.response: whose response, NULL once reset
    pool,       \* the codecs in rpcClientCodecPool
    ready,      \* rpcConn.ready
    unread,     \* rpcConn.bytesReader still holds the response
    open,       \* rpcConn.readyChan is not closed
    router,     \* the connection whose callback blocks on readyChan, or NULL
    hooked,     \* the OnConnect callback of the call is registered
    resub,      \* OnConnect callbacks the adapter started on a connect
    routed,     \* the response topic is subscribed
    net,        \* the message of the call that is under way
    answer,     \* what the response is to the client, see Answer
    connected,  \* the MQTT connection is up
    drops,      \* how often it went down
    crash       \* why the process died, "none" while it runs

callVars == <<pc, result>>
rpcVars == <<done, pending, reader, source>>
codecVars == <<codec, codecConn, codecRes, pool>>
connVars == <<ready, unread, open>>
subVars == <<hooked, resub, routed>>
netVars == <<net, answer>>
linkVars == <<connected, drops>>
vars == <<callVars, rpcVars, codecVars, connVars, router, subVars, netVars,
          linkVars, crash>>

\* A response with a result that fits the call's reply, or with an error text
\* (also JSON's "unspecified error" for a response without data), one whose
\* header cannot be read (it is empty, does not decode or decompress, or is a
\* JSON error whose data is no object), and one with a result of another type.
Answer == {"ok", "error", "garbled", "unfit"}

\* What a call can come back with: the response of a call, an untouched reply
\* without an error, the error of the response, of the connection, of ctx, of
\* encoding the request, of decoding a response.
Outcome == Calls \union {"empty", "error", "eof", "ctx", "encode", "decode"}

Init ==
    /\ pc = [c \in Calls |-> "new"]
    /\ result = [c \in Calls |-> "none"]
    /\ done = [c \in Calls |-> "none"]
    /\ pending = [c \in Calls |-> FALSE]
    /\ codec = [c \in Calls |-> NULL]
    /\ reader = [c \in Calls |-> "none"]
    /\ source = [c \in Calls |-> NULL]
    /\ codecConn = [k \in Codecs |-> NULL]
    /\ codecRes = [k \in Codecs |-> NULL]
    /\ pool = {}
    /\ ready = [c \in Calls |-> FALSE]
    /\ unread = [c \in Calls |-> FALSE]
    /\ open = [c \in Calls |-> TRUE]
    /\ router = NULL
    /\ hooked = [c \in Calls |-> FALSE]
    /\ resub = {}
    /\ routed = [c \in Calls |-> FALSE]
    /\ net = [c \in Calls |-> "none"]
    /\ answer = [c \in Calls |-> "ok"]
    /\ connected \in BOOLEAN
    /\ drops = 0
    /\ crash = "none"

At(c, label) == crash = "none" /\ pc[c] = label
ReaderAt(c, label) == crash = "none" /\ reader[c] = label

-----------------------------------------------------------------------------
(* The caller.                                                             *)

\* NewConn calls the adapter's OnConnect: it runs the callback, which
\* subscribes, if the client is connected now ...
Dial(c) ==
    /\ At(c, "new")
    /\ pc' = [pc EXCEPT ![c] = "hook"]
    /\ routed' = [routed EXCEPT ![c] = connected]
    /\ UNCHANGED <<result, rpcVars, codecVars, connVars, router, hooked, resub,
                   netVars, linkVars, crash>>

\* ... and then registers it, for good: no OffConnect undoes it.
Hook(c) ==
    /\ At(c, "hook")
    /\ pc' = [pc EXCEPT ![c] = "codec"]
    /\ hooked' = [hooked EXCEPT ![c] = TRUE]
    /\ UNCHANGED <<result, rpcVars, codecVars, connVars, router, resub, routed,
                   netVars, linkVars, crash>>

\* A codec that was not allocated before.
Fresh == {k \in Codecs : codecConn[k] = NULL}

\* Mutant: one codec serves calls that overlap.
AvailableShared == Codecs

\* Pool.Get: a codec of the pool or a new one, the pool promises neither.
Available == IF Pooled THEN pool \union Fresh ELSE Fresh

\* Get, Reset(conn), and NewClientWithCodec, which starts the reader.
GetCodec(c, k) ==
    /\ At(c, "codec")
    /\ k \in Available
    /\ pool' = pool \ {k}
    /\ codec' = [codec EXCEPT ![c] = k]
    /\ codecConn' = [codecConn EXCEPT ![k] = c]
    /\ reader' = [reader EXCEPT ![c] = "head"]
    /\ pc' = [pc EXCEPT ![c] = "send"]
    /\ UNCHANGED <<result, done, pending, source, codecRes, connVars, router,
                   subVars, netVars, linkVars, crash>>

\* rpcConn.Write publishes at QoS 0: a client that is not connected drops the
\* message.
Written == IF connected THEN "request" ELSE "gone"

\* WriteRequest of either codec: the call is pending, the request written; or
\* the parameters cannot be encoded and nothing is written: net/rpc takes the
\* call out of its pending map and gives it the error.
WriteRequest(c) ==
    \/ /\ pending' = [pending EXCEPT ![c] = TRUE]
       /\ net' = [net EXCEPT ![c] = Written]
       /\ UNCHANGED done
    \/ /\ c \in Unencodable
       /\ done' = [done EXCEPT ![c] = "encode"]
       /\ UNCHANGED <<pending, net>>

\* rpcClient.Go.  The reader has not ended yet: nothing was sent, and nobody
\* but the call closes its connection.
Send(c) ==
    /\ At(c, "send")
    /\ WriteRequest(c)
    /\ pc' = [pc EXCEPT ![c] = "wait"]
    /\ UNCHANGED <<result, reader, source, codecVars, connVars, router,
                   subVars, answer, linkVars, crash>>

\* The select of Call.
Return(c) ==
    /\ At(c, "wait")
    /\ done[c] # "none"
    /\ result' = [result EXCEPT ![c] = done[c]]
    /\ pc' = [pc EXCEPT ![c] = "close"]
    /\ UNCHANGED <<rpcVars, codecVars, connVars, router, subVars, netVars,
                   linkVars, crash>>

Deadline(c) ==
    /\ At(c, "wait")
    /\ c \in Deadlines
    /\ result' = [result EXCEPT ![c] = "ctx"]
    /\ pc' = [pc EXCEPT ![c] = "close"]
    /\ UNCHANGED <<rpcVars, codecVars, connVars, router, subVars, netVars,
                   linkVars, crash>>

\* Mutant: the connection unsubscribes and leaves readyChan open.
CloseNoChannel(c) ==
    /\ At(c, "close")
    /\ pc' = [pc EXCEPT ![c] = "unsub"]
    /\ UNCHANGED <<result, rpcVars, codecVars, connVars, router, subVars,
                   netVars, linkVars, crash>>

\* rpcConn.Close: close(readyChan), then Unsubscribe.
Close(c) ==
    /\ At(c, "close")
    /\ open' = [open EXCEPT ![c] = FALSE]
    /\ pc' = [pc EXCEPT ![c] = "unsub"]
    /\ UNCHANGED <<result, rpcVars, codecVars, ready, unread, router, subVars,
                   netVars, linkVars, crash>>

\* Mutant: closing waits for the broker, as UnsubscribeWait without a context.
UnsubscribeBlocking(c) ==
    /\ At(c, "unsub")
    /\ connected
    /\ routed' = [routed EXCEPT ![c] = FALSE]
    /\ pc' = [pc EXCEPT ![c] = IF Pooled THEN "put" ELSE "returned"]
    /\ UNCHANGED <<result, rpcVars, codecVars, connVars, router, hooked, resub,
                   netVars, linkVars, crash>>

Unsubscribe(c) ==
    /\ At(c, "unsub")
    /\ routed' = [routed EXCEPT ![c] = FALSE]
    /\ pc' = [pc EXCEPT ![c] = IF Pooled THEN "put" ELSE "returned"]
    /\ UNCHANGED <<result, rpcVars, codecVars, connVars, router, hooked, resub,
                   netVars, linkVars, crash>>

\* rpcClientCodecPool.Put, while the reader may still use the codec.
Put(c) ==
    /\ At(c, "put")
    /\ pool' = pool \union {codec[c]}
    /\ pc' = [pc EXCEPT ![c] = "returned"]
    /\ UNCHANGED <<result, rpcVars, codec, codecConn, codecRes, connVars,
                   router, subVars, netVars, linkVars, crash>>

-----------------------------------------------------------------------------
(* The reader.                                                             *)

\* ReadResponseHeader: response.Reset(), then ReadAll(c.conn) on whatever
\* connection the codec has now.
Head(c) ==
    /\ ReaderAt(c, "head")
    /\ codecRes' = [codecRes EXCEPT ![codec[c]] = NULL]
    /\ source' = [source EXCEPT ![c] = codecConn[codec[c]]]
    /\ reader' = [reader EXCEPT ![c] = "read"]
    /\ UNCHANGED <<callVars, done, pending, codec, codecConn, pool, connVars,
                   router, subVars, netVars, linkVars, crash>>

\* Mutant: Read takes what the connection has now.
ReadNoWait(c) ==
    /\ ReaderAt(c, "read")
    /\ reader' = [reader EXCEPT ![c] = "data"]
    /\ UNCHANGED <<callVars, done, pending, source, codecVars, connVars,
                   router, subVars, netVars, linkVars, crash>>

\* rpcConn.Read looks at ready and only then at the channel.
Read(c) ==
    /\ ReaderAt(c, "read")
    /\ reader' = [reader EXCEPT ![c] =
                    IF ready[source[c]] THEN "data" ELSE "recv"]
    /\ UNCHANGED <<callVars, done, pending, source, codecVars, connVars,
                   router, subVars, netVars, linkVars, crash>>

\* The channel: the router's callback hands over.
Receive(c) ==
    /\ ReaderAt(c, "recv")
    /\ router = source[c]
    /\ open[source[c]]
    /\ router' = NULL
    /\ reader' = [reader EXCEPT ![c] = "data"]
    /\ UNCHANGED <<callVars, done, pending, source, codecVars, connVars,
                   subVars, netVars, linkVars, crash>>

\* The loop of Client.input ends; a call still pending gets the error.
Terminate(c, error) ==
    /\ reader' = [reader EXCEPT ![c] = "end"]
    /\ pending' = [pending EXCEPT ![c] = FALSE]
    /\ done' = [done EXCEPT ![c] = IF pending[c] THEN error ELSE @]
    /\ UNCHANGED <<callVars, source, codec, codecConn, pool, ready, open,
                   router, subVars, netVars, linkVars, crash>>

\* Read returns io.EOF: the channel is closed, or the bytes are read.
EndOfFile(c) ==
    /\ \/ ReaderAt(c, "recv") /\ ~open[source[c]]
       \/ ReaderAt(c, "data") /\ ~unread[source[c]]
    /\ Terminate(c, "eof")
    /\ UNCHANGED <<codecRes, unread>>

\* The bytes are read ...
ReadAll(c) ==
    /\ ReaderAt(c, "data")
    /\ unread[source[c]]
    /\ unread' = [unread EXCEPT ![source[c]] = FALSE]

\* ... and unmarshalled into the codec's response.
Unmarshal(c) ==
    /\ ReadAll(c)
    /\ answer[source[c]] # "garbled"
    /\ codecRes' = [codecRes EXCEPT ![codec[c]] = source[c]]
    /\ reader' = [reader EXCEPT ![c] = "lookup"]
    /\ UNCHANGED <<callVars, done, pending, source, codec, codecConn, pool,
                   ready, open, router, subVars, netVars, linkVars, crash>>

\* ReadResponseHeader returns an error, which ends the loop; the codec's
\* response keeps what was decoded of this one, or nothing.
Undecodable(c) ==
    /\ ReadAll(c)
    /\ answer[source[c]] = "garbled"
    /\ \E r \in {NULL, source[c]} : codecRes' = [codecRes EXCEPT ![codec[c]] = r]
    /\ Terminate(c, "decode")

\* Whether the codec's response has an error text: a reset one has none, of one
\* that failed to decode it may be there or not.
HasError(r) ==
    IF r = NULL THEN {FALSE}
    ELSE IF answer[r] = "garbled" THEN BOOLEAN
    ELSE {answer[r] = "error"}

\* Mutant: the status and the error text of the response are not looked at.
LookupNoError(c) ==
    /\ ReaderAt(c, "lookup")
    /\ pending' = [pending EXCEPT ![c] = FALSE]
    /\ reader' = [reader EXCEPT ![c] = IF pending[c] THEN "body" ELSE "head"]
    /\ UNCHANGED <<callVars, done, source, codecVars, connVars, router,
                   subVars, netVars, linkVars, crash>>

\* The end of the header: the id and the error text are read from the codec's
\* response; the id finds the pending call, if there is one: every rpc client
\* numbers its only request 0.
Lookup(c) ==
    /\ ReaderAt(c, "lookup")
    /\ pending' = [pending EXCEPT ![c] = FALSE]
    /\ \E error \in HasError(codecRes[codec[c]]) :
        reader' = [reader EXCEPT ![c] =
                     IF ~pending[c] THEN "head"
                     ELSE IF error THEN "fail" ELSE "body"]
    /\ UNCHANGED <<callVars, done, source, codecVars, connVars, router,
                   subVars, netVars, linkVars, crash>>

\* The call gets its outcome; an error of the body ends the loop.
Finish(c, outcome) ==
    /\ done' = [done EXCEPT ![c] = outcome]
    /\ reader' = [reader EXCEPT ![c] = IF outcome = "decode" THEN "end" ELSE "head"]
    /\ UNCHANGED <<callVars, pending, source, codecVars, connVars, router,
                   subVars, netVars, linkVars, crash>>

\* response.Error becomes the call's error.
Fail(c) ==
    /\ ReaderAt(c, "fail")
    /\ Finish(c, "error")

\* ReadResponseBody: an empty body, as of a reset response and of an error, is
\* no error; a body of another type is.
Decoded(r) ==
    IF r = NULL THEN {"empty"}
    ELSE CASE answer[r] = "ok" -> {r}
           [] answer[r] = "error" -> {"empty"}
           [] answer[r] = "unfit" -> {"decode"}
           [] OTHER -> {"empty", r, "decode"}

\* Mutant: the body of a reset response is decoded.
BodyUnchecked(c) ==
    /\ ReaderAt(c, "body")
    /\ Finish(c, codecRes[codec[c]])

Body(c) ==
    /\ ReaderAt(c, "body")
    /\ \E outcome \in Decoded(codecRes[codec[c]]) : Finish(c, outcome)

-----------------------------------------------------------------------------
(* The MQTT router, the connection and the other side.  A QoS 0 message    *)
(* may be lost: no fairness obliges Respond or Deliver to happen.          *)

\* Mutant: the callback does not wait for a receiver.
DeliverNoWait(c) ==
    /\ crash = "none"
    /\ router = NULL
    /\ connected
    /\ routed[c]
    /\ net[c] = "response"
    /\ net' = [net EXCEPT ![c] = "gone"]
    /\ ready' = [ready EXCEPT ![c] = TRUE]
    /\ unread' = [unread EXCEPT ![c] = TRUE]
    /\ UNCHANGED <<callVars, rpcVars, codecVars, open, router, subVars, answer,
                   linkVars, crash>>

\* The callback of the response topic: bytesReader, ready, and then the send
\* on readyChan, which blocks the router until somebody receives.
Deliver(c) ==
    /\ crash = "none"
    /\ router = NULL
    /\ connected
    /\ routed[c]
    /\ net[c] = "response"
    /\ net' = [net EXCEPT ![c] = "gone"]
    /\ ready' = [ready EXCEPT ![c] = TRUE]
    /\ unread' = [unread EXCEPT ![c] = TRUE]
    /\ router' = c
    /\ UNCHANGED <<callVars, rpcVars, codecVars, open, subVars, answer,
                   linkVars, crash>>

\* A send on a closed channel panics, also when it was blocked before.
SendOnClosed(c) ==
    /\ crash = "none"
    /\ router = c
    /\ ~open[c]
    /\ crash' = "sendOnClosedChannel"
    /\ UNCHANGED <<callVars, rpcVars, codecVars, connVars, router, subVars,
                   netVars, linkVars>>

\* The server answers.
Respond(c, a) ==
    /\ crash = "none"
    /\ net[c] = "request"
    /\ net' = [net EXCEPT ![c] = "response"]
    /\ answer' = [answer EXCEPT ![c] = a]
    /\ UNCHANGED <<callVars, rpcVars, codecVars, connVars, router, subVars,
                   linkVars, crash>>

\* The connection goes down and its clean session with it.
Drop ==
    /\ crash = "none"
    /\ connected
    /\ drops < MaxDrops
    /\ drops' = drops + 1
    /\ connected' = FALSE
    /\ routed' = [c \in Calls |-> FALSE]
    /\ UNCHANGED <<callVars, rpcVars, codecVars, connVars, router, hooked,
                   resub, netVars, crash>>

\* It comes up, and the adapter starts a goroutine for every registered
\* callback; each subscribes when it runs.
Connect ==
    /\ crash = "none"
    /\ ~connected
    /\ connected' = TRUE
    /\ resub' = resub \union {c \in Calls : hooked[c]}
    /\ UNCHANGED <<callVars, rpcVars, codecVars, connVars, router, hooked,
                   routed, netVars, drops, crash>>

Resubscribe(c) ==
    /\ crash = "none"
    /\ c \in resub
    /\ resub' = resub \ {c}
    /\ routed' = [routed EXCEPT ![c] = connected]
    /\ UNCHANGED <<callVars, rpcVars, codecVars, connVars, router, hooked,
                   netVars, linkVars, crash>>

-----------------------------------------------------------------------------
Halted == crash # "none" /\ UNCHANGED vars

Finished ==
    /\ \A c \in Calls : pc[c] = "returned"
    /\ UNCHANGED vars

CallerStep(c) ==
    \/ Dial(c)
    \/ Hook(c)
    \/ \E k \in Codecs : GetCodec(c, k)
    \/ Send(c)
    \/ Return(c)
    \/ Deadline(c)
    \/ Close(c)
    \/ Unsubscribe(c)
    \/ Put(c)

ReaderStep(c) ==
    \/ Head(c)
    \/ Read(c)
    \/ Receive(c)
    \/ EndOfFile(c)
    \/ Unmarshal(c)
    \/ Undecodable(c)
    \/ Lookup(c)
    \/ Fail(c)
    \/ Body(c)

NetStep(c) ==
    \/ Deliver(c)
    \/ SendOnClosed(c)
    \/ \E a \in Answers[c] : Respond(c, a)
    \/ Resubscribe(c)

Next ==
    \/ \E c \in Calls : CallerStep(c) \/ ReaderStep(c) \/ NetStep(c)
    \/ Drop
    \/ Connect
    \/ Halted
    \/ Finished

Spec == Init /\ [][Next]_vars

\* The goroutines run and a context with a deadline ends; neither the network
\* nor the server owe anything, and the router delivers what it is given.
Fairness ==
    \A c \in Calls :
        /\ WF_vars(pc[c] # "new" /\ CallerStep(c))
        /\ WF_vars(ReaderStep(c))

FairSpec == Spec /\ Fairness

-----------------------------------------------------------------------------
(* Safety                                                                  *)

\* Every variable stays in its type.
TypeOK ==
    /\ pc \in [Calls -> {"new", "hook", "codec", "send", "wait", "close",
                         "unsub", "put", "returned"}]
    /\ result \in [Calls -> Outcome \union {"none"}]
    /\ done \in [Calls -> Outcome \union {"none"}]
    /\ pending \in [Calls -> BOOLEAN]
    /\ codec \in [Calls -> Codecs \union {NULL}]
    /\ reader \in [Calls -> {"none", "head", "read", "recv", "data", "lookup",
                             "fail", "body", "end"}]
    /\ source \in [Calls -> Calls \union {NULL}]
    /\ codecConn \in [Codecs -> Calls \union {NULL}]
    /\ codecRes \in [Codecs -> Calls \union {NULL}]
    /\ pool \subseteq Codecs
    /\ ready \in [Calls -> BOOLEAN]
    /\ unread \in [Calls -> BOOLEAN]
    /\ open \in [Calls -> BOOLEAN]
    /\ router \in Calls \union {NULL}
    /\ hooked \in [Calls -> BOOLEAN]
    /\ resub \subseteq Calls
    /\ routed \in [Calls -> BOOLEAN]
    /\ net \in [Calls -> {"none", "request", "response", "gone"}]
    /\ answer \in [Calls -> Answer]
    /\ connected \in BOOLEAN
    /\ drops \in 0 .. MaxDrops
    /\ crash \in {"none", "sendOnClosedChannel"}

\* Whatever the readers that outlived their calls do through a pooled codec, a
\* call that succeeds does not return the response of another call.  It holds
\* of pooled codecs only as long as no context ends a call early.
NoForeignReply == \A c \in Calls : result[c] \in Calls => result[c] = c

\* What the pool can do: the response of another call only comes from a call
\* that its context ended, whose codec this call took over.
ForeignOnlyLate ==
    \A c, d \in Calls :
        (result[c] = d /\ d # c) => result[d] = "ctx" /\ codec[d] = codec[c]

\* While a call runs, the codec it took from the pool is its own: no other
\* running call has it, and its connection is the call's.
Live(c) == pc[c] \in {"send", "wait", "close", "unsub", "put"}

CodecExclusive ==
    \A c \in Calls :
        Live(c) => /\ codecConn[codec[c]] = c
                   /\ codec[c] \notin pool
                   /\ \A d \in Calls \ {c} : Live(d) => codec[d] # codec[c]

\* What call c must return of its own response.
Due(c) ==
    CASE answer[c] = "ok" -> c
      [] answer[c] = "error" -> "error"
      [] OTHER -> "decode"

\* No other call had the codec of the call before or has had it since.
Alone(c) == \A d \in Calls \ {c} : codec[d] # codec[c]

\* A call whose codec was never another call's returns what its own response
\* says, unless it ends by its context or sends nothing: what
\* goes wrong with the pool (another call's response, an untouched reply, an
\* error taken for a success) comes from a codec that was handed on.
OwnUnlessReused ==
    \A c \in Calls :
        (Alone(c) /\ result[c] \notin {"none", "ctx", "encode"}) =>
            ready[c] /\ result[c] = Due(c)

\* No wakeup is lost between Read's look at ready and its receive: while a call
\* waits and its response is there, its reader is on the way to the response,
\* or waits for a hand-over that the router is making.
NoLostWakeup ==
    \A c \in Calls :
        (ready[c] /\ pc[c] = "wait" /\ done[c] = "none") =>
            \/ reader[c] \in {"head", "read", "data", "lookup", "fail", "body"}
            \/ reader[c] = "recv" /\ router = c /\ open[c]

\* Without the pool the client keeps the promise of CallOnce: a call
\* returns once, the result or the error of its own response, or that it could
\* not be decoded, the end of its context, or that its request could not be
\* encoded: an error is no success, and no connection ends its own call.
Promise == INSTANCE CallOnce WITH
             sent <- {c \in Calls : net[c] # "none"},
             arrived <- [c \in Calls |->
                           IF ~ready[c] THEN "none"
                           ELSE IF answer[c] \in {"ok", "error"} THEN answer[c]
                           ELSE "bad"],
             outcome <- result

CallsOnce == Promise!Spec

-----------------------------------------------------------------------------
(* Liveness                                                                *)

\* A call whose context ends returns, whatever the network and the server do
\* and whoever took its response.
CallReturns ==
    \A c \in Deadlines : pc[c] = "hook" ~> (pc[c] = "returned" \/ crash # "none")

\* The reader nobody waits for ends when every call returns: also the one that
\* moved on to another call's connection.
ReaderEnds ==
    Deadlines = Calls =>
        \A c \in Calls :
            reader[c] = "head" ~> (reader[c] = "end" \/ crash # "none")

\* A response that reached the connection of a waiting call brings the call
\* back.
DeliveredReturns ==
    \A c \in Calls :
        (ready[c] /\ pc[c] = "wait") ~> (pc[c] # "wait" \/ crash # "none")

-----------------------------------------------------------------------------
(* What the repository says and the code does not do: besides this one,    *)
(* NoForeignReply with deadlines and a pool.                               *)

\* Close "closes the ready channel and unsubscribes": a late response does no
\* harm.
NoSendOnClosed == crash = "none"
=============================================================================
