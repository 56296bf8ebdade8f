# go-reverse-rpc in TLA+

A verification project for go-reverse-rpc, a reverse RPC over MQTT: a device
subscribes to its request topic and serves calls, a client publishes a request
with a fresh topic and waits for the answer on the matching response topic. The
modules are translated from the Go source; line numbers refer to it.

## 1. Inventory

| part | source | state it keeps | operations |
|---|---|---|---|
| server | `server.go`, `server_option.go` | `handlerMap` (+ mutex), limiter, tunny worker pool, `cbList`, event pool | `Register`, `Call`, `OnAfterResponse`, `RegisterMetrics` |
| request context | `context.go` | `replyed`, `res` (+ mutex) per request | `Reply`, `ReplyOK`, `ReplyError`, `GetResponse` |
| protobuf server binding | `mqttpb/server.go`, `context.go`, `codec.go` | request data | `initReceive`, `MakeOKResponse`, `MakeErrResponse`, `reply`, `Bind` |
| JSON server binding | `mqttjson/server.go`, `context.go` | request data | the same, on the router's goroutine |
| clients | `mqttpb/client.go`, `mqttjson/client.go`, each `rpc_client.go`, `conn.go` | codec pool (protobuf only), per call: connection, codec, `net/rpc` client | `Call`, `NewConn`, `Read`, `Write`, `Close`, `WriteRequest`, `ReadResponseHeader`, `ReadResponseBody` |
| MQTT adapter | `mqttadapter/mqtt.go` | connect and connection-lost callback maps, `stopRetryConnect`, `subscribeMap` | `OnConnect(Once)`, `OffConnect`, `OnConnectLost(Once)`, `EnsureConnected`, `Disconnect`, `Subscribe*`, `Unsubscribe*`, `Publish*` |
| compressor | `compressor/compressor.go`, `mqttpb/codec.go` | pools of writers, buffers and readers | `Compress`, `Decompress` |
| telemetry | `telemetry/telemetry.go` | OpenTelemetry providers | `RecordRequest`, `StartSpan` |

How they interact. The adapter's paho client delivers messages on one router
goroutine. The server bindings turn a message into a `RequestContext` and run
`Server.Call` (protobuf: in a new goroutine; JSON: on the router). `Call` hands
the handler to a worker of the pool and waits for it or for the handler's
timeout; both sides reply through the same `RequestContext`, whose
compare-and-swap elects one of them, and the winner publishes through the
adapter. On the other side `Client.Call` makes a connection whose subscription
callback, on the router, hands the response over a channel to `net/rpc`'s input
goroutine, which decodes it with the call's codec and wakes the caller.

What is hard, and what makes each part correct:

- *server and context*: the reply race between handler, recover, no-reply,
  timeout and the limiter's refusals. One answer per request, final, the one the
  server recorded and reported; every call answered although handlers hang;
  workers come back; `Register` beside live calls.
- *clients*: three goroutines per call, one of which outlives it, and a pool
  that hands its codec on. A call returns its own response; it returns when its
  context ends; a delivered response is not lost; no goroutine leaks; a late
  response is harmless.
- *adapter*: callbacks registered while the connection changes; retry against
  disconnect. Every registered callback runs on every connect; a retry loop
  returns with a connection; after `Disconnect` nothing connects.
- *subscriptions*: packet first, map afterwards, several calls at once. What the
  broker has is in the map; `UnsubscribeAll` misses nothing; a waiting call ends
  with its context.
- *compressor*: pooled objects are never shared while in use, also after an
  error; a stream is complete and its own; bytes handed out do not change
  afterwards (they do, section 6).
- *limiter, topics*: pure behaviour that the comments describe.

## 2. Modules

| module | models | uses |
|---|---|---|
| `Reply` | `rrpc.Response` and what each binding publishes of it | |
| `ReplyOnce` | the abstract promise: one decided, published, reported response | `Reply` |
| `Server` | `Call`, `RequestContext.Reply`, both `initReceive`, `Register`, worker pool | `Reply`, refines `ReplyOnce` |
| `MCServer` | instances of `Server` | `Server` |
| `ServerProofs` | TLAPS proofs about `Server` | `Server` |
| `CallOnce` | the abstract promise of a client: one return, of its own response, its context, or an error of encoding | |
| `Client` | `Client.Call` of both bindings down to the connection | without the pool refines `CallOnce` |
| `MCClient` | instances of `Client` | `Client` |
| `ClientProofs` | TLAPS proofs about `Client` | `Client` |
| `Adapter` | the adapter's retry loops, `Disconnect`, callback registries and handlers | |
| `MCAdapter` | instances of `Adapter` | `Adapter` |
| `AdapterProofs` | TLAPS proofs about `Adapter` | `Adapter` |
| `Subscriptions` | the adapter's `subscribeMap` against the broker's subscriptions, every `Subscribe` and `Unsubscribe` method | |
| `MCSubscriptions` | an instance of `Subscriptions` | `Subscriptions` |
| `SubscriptionsProofs` | TLAPS proofs about `Subscriptions` | `Subscriptions` |
| `Compressor` | the compressor manager's pools and the protobuf codecs that call it | |
| `MCCompressor` | instances of `Compressor` | `Compressor` |
| `CompressorProofs` | TLAPS proofs about `Compressor` | `Compressor` |

### Reply

A response keeps what the properties tell apart: its cause, its status, whether
it has an error, and how the marshallers take it. `Encode` is the message a
binding publishes. Protobuf refuses a string that is not UTF-8: a broken error
text is dropped (`reply`'s error is ignored, `Publishes`), a broken result makes
`MakeOKResponse` return nil and `reply(nil)` panic (`ReplyPanics`). JSON
replaces what it cannot encode.

### Server

`pc[r]` is the goroutine of `Call`, `job[r]` the worker's job for the same
request; each label is the point before the statement named in the map. The
three steps of `Reply` are three actions on both sides (`CallReply`, `CallSet`,
`CallSend`; `HandlerReply`/`HandlerReturn`/`HandlerPanic`, `JobSet`,
`JobSend`), because another goroutine runs between them. A handler is any
sequence of replies from `HandlerReplies` that may return, panic or hang. It is
taken to reply on its own goroutine: a reply from a goroutine that it started is
not modelled.

tunny, `x/time/rate` and the Go runtime are modelled as `Call` uses them: a
worker is free as long as fewer than `WorkerNum` jobs run (taking a worker and
giving it the job is one step: a timeout between the two is one that came
before); a timeout may fire at any moment, since a handler's `Timeout` may be
zero; the limiter is a bucket of `LimiterCount` tokens that `Refill` fills, and
a waiting call waits for a token (the requests' contexts have no deadline, so
`Wait` fails only if the bucket is empty by construction). The unlocked read of
`handlerMap` beside a write has the outcomes the runtime can produce: found, not
found, or the fatal error that ends the process (`MapRace`). A nil response in
the deferred function ends the process too. After either nothing happens.

The methods of the requests in `Outbound` may also make a client call over the
same adapter while they run (`HandlerCalls`). Its response needs the router
(`ResponseArrives`), which in the JSON binding is inside `Call`; until then the
call ends by its own context or not at all (`CalloutExpires`, which has no
fairness).

`Receive` and `Reject` need a free router in the JSON binding (`RouterFree`).
A redelivered MQTT message is another request.

### Client

`pc[c]` is the caller, `reader[c]` is `net/rpc`'s `Client.input`, and `router`
says in which connection's callback the MQTT router is blocked. The reader looks
up the codec's connection when it starts to read (`source`), not when the call
was made: with `Pooled = TRUE` (protobuf) the codec may belong to another call
by then. `codecRes` is the codec's shared `response`, named after the call whose
response it holds. `ReadResponseHeader` is
split where another goroutine can change that field: the reset with the choice
of the connection, the read, the unmarshalling, the lookup; `ReadResponseBody`
follows as a step of its own.

A call may also end by an error of its own side. Parameters that cannot be
encoded make `WriteRequest` fail before anything is written (`encode`). A
response may not decode, or be a JSON error without an object in it
(`garbled`): `ReadResponseHeader` fails, and `net/rpc` gives the pending call
that error and ends the input goroutine (`Undecodable`); what such a response
leaves in a pooled codec is left open. A result of another type (`unfit`) fails
in `ReadResponseBody`, with the same end (`Decoded`, `Finish`). Both are
`decode` to the caller. A JSON response without data is an `error` answer
("unspecified error"). `ErrInvalidRequestBody` cannot come up: `mqttpb`'s `Call`
takes `proto.Message`s only. `rpcConn.Write` returns no error.

The pool is any choice between the pooled codecs and a new one: `sync.Pool`
promises nothing. The connection is lost at most `MaxDrops` times and comes back
or not; it may be down at the start. Messages are lost at any time: nothing
obliges `Respond` or `Deliver` to happen. On a connect
every registered callback runs in a goroutine of its own (`Resubscribe`), also
those of finished calls, which nothing removes. Each call makes one request, so
each response topic carries one message; it fits into one `Read`.

### Adapter

`loop[l]` is a goroutine of `ConnectAndWaitForSuccess` (`EnsureConnected` starts
one per server and client that share the adapter), `link` is paho's status as
the adapter configures it (automatic reconnection, no connect retry): one
attempt at a time, `Connect` on a link that is up or reconnecting succeeds at
once, `Disconnect` aborts what is under way and does nothing on a link that is
down. The ten seconds between attempts are left out, since the loop may be
delayed anyway.

`pc[c]` is a goroutine that registers one callback: `OnConnect` looks at the
connection, may run the callback, and only then takes the mutex (`CheckDown`,
`CheckUp`, `Insert`); `OnConnectOnce` looks once more before that and learns its
index last (`Assign`), so that its wrapper may still see 0 (`SubID`). `callbaks`
maps indices to callers. paho calls each handler in a goroutine (`due`), of
which the model runs those of one event one after the other; it
ranges over the map without the mutex (`RangeBegin`, `Visit`, `RangeDone`) and
starts a goroutine for each callback (`spawned`, `Run`). A write beside it has
the outcomes the runtime can produce: the entry is met or not, or the process
ends (`RacingWrite`). What a callback does is abstract: `ran` says that it was
run since its event last happened; `armed` says what that event found: the
callback registered, its caller between check and registration (`missed`), or
neither.

### Subscriptions

`pc[o]` is a goroutine inside one of the methods; `waits` tells the variants
that wait for paho's token from those that drop it. A method sends its packet,
waits (or not), and then updates the map topic by topic in a deferred loop,
whatever came of the packet. `UnsubscribeAll` collects its topics by a `Range`
over a `sync.Map`, which is no snapshot: `Visit` looks at each key when it comes
to it. paho hands packets on in the order of the calls and the broker handles
them in that order, so `subs` is the broker's state once it has handled all that
was sent. The broker may refuse topics and need not answer. Losing the
connection loses the subscriptions and the pending answers, since the session is
clean; subscribing again is the business of the `OnConnect` callbacks, in this
module ordinary callers.

### Compressor

`pc[u]` is a goroutine in `Marshal` or `Unmarshal` of the protobuf codec that
all requests of a server share. A body is two parts, what a compressor writes
before and after its `Close`, or a decompressor reads as header and rest. A slice
taken from a buffer is an alias of its array (`alias`): a later write into the
buffer either lands in that array and changes the slice, or finds it too small
and leaves it. The pools begin with all the objects they will ever make: a
`sync.Pool` that makes one when none is free and a pool that has one more are the
same. An encoding that is none of the four becomes plain in `convertEncoding`,
so that `ErrUnknownContentEncoding` cannot come out of the codec; a
`bytes.Buffer` refuses no write, so that the compressors' error paths cannot be
taken; the decompressors' are (`DecodeError`).

## 3. Runs

| run | instance | shows |
|---|---|---|
| `server_safety` | 2 requests, 1 method, 1 worker, 1 token, rejecting limiter, protobuf, handlers that reply soundly, unencodably, several times, panic, hang | all safety properties, the refinement of `ReplyOnce`, and `CallReturns`, `Answered` with no fairness for handlers |
| `server_json` | 2 requests, JSON, waiting limiter, handlers that call out | `RouterAdvances`; `CalloutReturns`; `WorkerFreed` when handlers end |
| `server_nil_response` | 1 request | a counterexample (section 6) |
| `client_json` | 2 calls, one with a deadline, one that may not encode, no pool, one connection loss; results, errors, undecodable and unfit responses | the refinement of `CallOnce`, `NoLostWakeup`, `DeliveredReturns` |
| `client_live` | 2 calls with deadlines, one that may not encode, 1 codec; results, errors and undecodable responses | `OwnUnlessReused`, `ForeignOnlyLate`, `CallReturns`, `ReaderEnds` |
| `client_foreign_reply`, `client_send_on_closed` | 2 calls, 1 call | counterexamples (section 6) |
| `adapter_registry` | 3 callers, one once-callback, one that unregisters, 1 loop, no loss | `KeepsRegistration`, `ConnectedInvoked`, `NotForgotten` |
| `adapter_loops` | 2 loops, 1 loss, an `OnConnect` and an `OnConnectLostOnce` callback | `WaitsForSuccess`, `DisconnectFinal`, `RetryEnds`, `CallbackRuns` |
| `subscriptions` | 2 calls of any method, one with a context that ends, 2 topics, 1 loss | `Tracked`, `UnsubscribedAll`, `RemovalsSent`, `WaitReturns` |
| `compressor` | 3 uses, 2 encodings, pools of 2 | `Exclusive`, `StreamComplete`, `IntactUnlessReused`, `DecodesOwn`, `PoolProtocol` |
| `compressor_bytes` | 2 uses, pools of 1 | a counterexample (section 6) |

Why the bounds are enough. Requests interact only through the worker pool, the
limiter, `handlerMap` and, in JSON, the router; two requests with one worker and
one token meet all of these at their limit, and everything else is a race
between the two goroutines of one request. One method is enough since a request
finds it registered, being registered or missing. Two calls are the smallest
number that share a codec one after the other or overlap; the reader of the
first meets the second in every phase. `client_live` has one codec so that every
second call reuses the first one's; the second call then waits for it, which the
code would not do, and with two codecs the calls are as independent as in
`client_json`. What a response can be is spread over the two calls
(`JsonAnswers`, `LiveAnswers`): an answer matters to its own call and to the one
that has the codec next, and each call may be either. One connection loss puts a reconnect before, during and after
each call. In the adapter a once-callback needs a neighbour at a lower
and one at a higher index to be able to harm it, and one loss gives every event
a second occurrence; two loops meet each other's attempt and the reconnection.
Two subscribing calls are enough for any two steps to meet, and two topics for a
`Range` to have visited one and not the other. Three uses of the codec with
pools of two let one wait for an object while two hold one each, and let a
decoder follow one that failed while a third runs. Only `MCCompressor.cfg` uses
symmetry, and it has no temporal property. For the safety properties that
section 4 proves the bounds do not matter.

`client_json` does not check for deadlock: a call without a deadline whose
message was lost waits for ever, in the code too. Neither do the runs of the
adapter, the subscriptions and the compressor, which come to rest.

Fairness. Goroutines that can run do, timers fire, the limiter's clock runs, a
context with a deadline ends, an attempt to connect ends. Handlers, the
network, the broker, the peer and the application owe nothing, except where the
property says so: `CalloutReturns` assumes that the peer answers, `WorkerFreed`
that it does and that handlers end, `RetryEnds` that the broker keeps accepting
or the application disconnects. `WaitReturns` holds although the broker never
answers. Liveness of the server is stated up to a crash of the process
(`crash`), which section 6 shows to be possible.

Besides its properties each run is tried against
mutants of the code (operators marked *Mutant*): `Reply` without its
compare-and-swap, a response stored and not sent, a timeout that covers only the
queue, a codec that calls share, a buffer that goes back too early, a `Range` that
stops at its first key, and others.

## 4. Proofs

`ServerProofs` proves, for every set of requests and methods, every pool size
and limiter, both bindings and every set of handler replies, from the
assumptions `TransportAssumption`, `NullAssumption` and `ServerAssumption` only:

- `TypeCorrect`, `ProtocolKept` (`ReplyProtocol`), `AtMostOneAnswer`
  (`SentIsResponse`), `CallsAnswered` (`DoneAnswered`), `NoReplyIsSilence`
  (`NoReplyMeansSilent`), `AnswersFinal` (the action property `AnswerFinal`);
- `NilOnlyInWindow` (`DeferredResponse`) and `DiesOnlyInWindows`
  (`DeathsExplained`): the process dies in two windows and nowhere else, so that
  the "up to a crash" of the liveness properties excuses nothing more;
- `CalloutsComeTooLate` (`CalloutsTooLate`), of the JSON binding: a method that
  calls out over its own adapter gets the response only after its own call has
  timed out, was answered and reported;
- `ImplementsReplyOnce`: `Server` implements `ReplyOnce`.

The argument is one inductive invariant, `IInv == TypeOK /\ ReplyProtocol`.
`TypeOK` alone is not inductive, because a goroutine that publishes must hold a
response (`Loaded`); the safety properties are not either, because they do not
say who holds the right to reply. `ReplyProtocol` says it, per request: at most
one goroutine is inside `Reply`, and everybody past a reply knows that somebody
won (`Won`); the response is nil exactly while nobody won or the winner has not
stored it (`Stored`); the topic is silent until the winner published (`Sent`);
the event reports the stored response (`Reported`); a silent handler is one that
never won (`Silent`). `Frame` shows that a step of one request changes nothing
of another, so each action is checked on its own request only. `ReplyProtocol`
is also an invariant of the run `server_safety`. The refinement maps the
decision to `res`: `CallSet` and `JobSet` decide, `CallSend` and `JobSend`
publish, `Deferred` reports, `Reject` refuses, everything else stutters.
`OInv` adds `Outlived`, that a call leaves a working job behind in one way only,
by its timeout. The two windows and the late callouts follow from it.

`AdapterProofs` proves from `AdapterAssumption` only, for any finite sets of
callers and loops and any number of losses:

- `LoopsWait` (`WaitsForSuccess`) and `DisconnectIsFinal` (`DisconnectFinal`),
  from `LoopInv`: while nobody stopped the loops at most one of them waits for a
  token and paho is connecting for it (`OneAttempt`), so that a loop whose
  attempt came to nothing goes on or was stopped, and `Disconnect` began with
  the flag;
- `RegistrationsKept` (`KeepsRegistration`), from `RegistryInv`: an index is
  given once and below the count (`Indices`); a removal then hits the caller's
  own entry or index 0;
- `CallbacksNotForgotten` (`NotForgotten`) and `ConnectedCallbacksInvoked`
  (`ConnectedInvoked`), from `InvokedInv`: an entry is its caller's only one,
  under the caller's index (`Entries`); a callback that its event found
  registered was run or is `Coming`, because its handler has not started, has it
  before it, or has spawned it (`Remembered`); a registered callback of a
  connected client was found by the event, or run or missed by its own `OnConnect`
  (`Looked`);
- `TypeCorrect` (`TypeOK`), whose bound on `spawned` is the hard part: every
  event is good for one goroutine per callback, and it is still due, or the
  handler has the callback before it, or it has passed it (`Bounded`); a connect
  ends a loop or follows a loss (`Times`), and the count of a registry is the
  number of callers that have an index (`BoundInv`). This counts finite sets,
  which is what `IsFiniteSet` in `AdapterAssumption` is for.

`ClientProofs` proves from `ClientAssumption`, for any calls and codecs, of both
bindings:

- `TypeCorrect` and `CodecsExclusive` (`CodecExclusive`, a running call's codec
  is no other running call's and not in the pool; the other proofs rest on it):
  beyond the types this needs that a call from `GetCodec` on has a codec bound
  to some connection (`Coded`);
- `ForeignIsLate` (`ForeignOnlyLate`): if a call returns the response of another
  one, that one was ended by its context and had the same codec. `LInv` says
  why: a call's own reader stays on the call's connection while the call runs,
  and a call that sent a request and returned anything but the end of its
  context has no response left there (`Own`); what a codec is bound to or holds belongs to a call that
  had it (`Tied`); so a foreign response in the codec of a running call was left
  by one that its context ended (`LateOnly`);
- `NoContextNoForeign`: hence with the pool, and without contexts that end,
  `NoForeignReply` holds, the property that `client_foreign_reply` refutes. The
  deadline is necessary for that counterexample.

- `OwnWhenAlone` (`OwnUnlessReused`): a call whose codec was never another
  call's returns what its own response says (its result, its error, or that it
  does not decode), unless its context ends or it sends nothing. By `Tied`
  nothing of such a call is in another call's hands (`Apart`); `Faithful` adds
  that its reader takes the response to the pending call and nothing else, and
  reports no EOF to it while its connection is open.

Under the assumption `~Pooled`, which makes it the JSON client, every call is of
this kind (`CallsPrivate`), and it also proves:

- `WakeupsKept` (`NoLostWakeup`): between `Read`'s look at `ready` and its
  receive no response is lost, because a reader that waits beside a response
  waits for the router (`Met`). This is the safety half of `DeliveredReturns`;
- `ImplementsCallOnce`: it implements `CallOnce`. A `Send` that encodes sends,
  `Deliver` lets the response arrive, `Return` and `Deadline` return, everything
  else stutters. A call returns the error of encoding only if nothing was sent,
  and that of decoding only if what arrived is to blame.

With the pool calls share codecs, and `CallsOnce` is false.

`SubscriptionsProofs` proves from `SubscriptionsAssumption`, for any number of
calls, topics and losses: `TypeCorrect`, `SubscribedIsTracked` (`Tracked`),
`NothingLeft` (`UnsubscribedAll`), `RemovalsReachTheBroker` (`RemovalsSent`).
The first two properties are not inductive, as they do not say what a removal
under way, or a `Range` half done, still owes; `RemovalsSent` says it, and the
four together are.

`CompressorProofs` proves from `CompressorAssumption`, for any uses, pools and
encodings: `TypeCorrect`, `NeverShared` (`Exclusive`), `StreamsComplete`
(`StreamComplete`), `IntactOutsideWindow` (`IntactUnlessReused`),
`DecodingUndisturbed` (`DecodesOwn`) and `ProtocolKept` (`PoolProtocol`). The
last is what the others rest on: where a use is decides what it holds (`Holds`),
its writer writes to its buffer and nobody else's parts are there (`Streams`),
its reader reads its body (`Reads`), and the array under its slice is no
holder's unless that was recorded (`Lends`).

Only model-checked: all liveness, since it needs fairness and ENABLED, which the
prover does not do. Every safety invariant, action property and refinement of
the passing runs is also proved. The properties of the runs that end in a
counterexample are false in general.

## 5. Not modelled

- *Telemetry* and `RegisterMetrics`: metrics and spans, written and never read
  by the RPC. The callback list of `OnAfterResponse` that `RegisterMetrics`
  appends to: nothing else depends on it; its unlocked `append` beside `Call`'s
  loop is a data race whose outcomes a model could not bound.
- *Generated code, mocks and examples*: no logic of the system.
- *`Bind` and the JSON validator*: functions of one payload; their error is one
  of the handler's replies.
- *The limiter's rate*: arithmetic on one duration (hazards in `PROJECT.json`).
- *Topics as strings*: replacing `request` in a topic is a function of one
  string without state; topics are model values, so that a response is on its
  request's own topic.
- *Publishing*: keeps no state in the adapter; `Server` and `Client` model what
  becomes of a publication where it matters to them.
- *Options, logging, trace metadata*: constants, or without effect on the RPC.

## 6. Where the code and its comments disagree

1. `server_nil_response`: the handler wins `replyed`, its timeout fires before
   `setResponse`; `Call` dereferences a nil response and the process panics.
2. `client_foreign_reply`: after a call ended by its deadline, the next one on
   the same codec may return the first one's response.
3. `client_send_on_closed`: a response that arrives while its call closes (or
   before its reader waits) makes the router send on a closed channel: a panic.
4. `compressor_bytes`: a compressor's "compressed data as a byte slice" is an
   alias of a buffer that is back in its pool; another compression on the same
   codec overwrites it before `proto.Marshal` has copied it, and a response
   carries another one's body.

The second needs the codec pool of the protobuf binding, and a context that ends
a call: without either it does not happen (section 4). The same pool breaks two
more promises, which therefore are not stated of `client_live`: the reader of a
finished call may reset the codec's response under the next call, which returns
success with an empty reply, also for an error (`CallsOnce`), or read the next
call's connection and discard its response (`DeliveredReturns`). That none of
this comes about without a codec that was handed on is `OwnUnlessReused`.

The following have no run of their own. They are visible in the definitions:
`ConnectAndWaitForSuccess` "waits for a successful connection" and "retries [...]
until a successful connection is established" (`mqtt.go:214-216`), but while
paho is reconnecting, `IsConnected` is false and `Connect` succeeds at once, so
that a loop started then returns with the link down (`Connect`, the exception in
`WaitsForSuccess`); `OnConnectOnce` may run its callback twice: when the link
comes up between its own look and `OnConnect`'s, the callback is run there
(`CheckUp`) and is registered all the same, for the next connect;
a client that connects between `OnConnect`'s check and its registration does not
run the callback for that connection (`missed`, the exception in
`ConnectedInvoked`), and the servers' constructors start the connection right
before they register their subscription this way; a topic that is subscribed
again between an unsubscription's packet and its update of the map is deleted
from the map while the broker keeps it, so that `UnsubscribeAll` will not find
it (`tangled`, the exception in `Tracked`);
`handlerMap` is read without its mutex (`MapRace`) and so are the callback maps
(`RacingWrite`); a once-callback that runs before it knows its index unregisters
index 0, somebody else's (`SubID`, the exception in `KeepsRegistration`); a
retry loop past its check connects after `Disconnect` (the exception in
`Down`); the event "emitted after a response is sent" may precede it
(`DoneAnswered` names the handler that is about to publish); `Reply` returns
true though nothing was published (`Publishes`); a status without an error is
delivered as 200 (`MakeOKResponse`). Outside the models: both clients tell an
error by its text, not by its status, so that an error with an empty text is a
success to them (`Answer` has only errors with a text); `PublishObject` ignores
its `retained`; `UnsubscribeAll` with an empty map sends an UNSUBSCRIBE packet
without a topic, which MQTT forbids.

## 7. Plan

1. *done* `Reply`, `ReplyOnce`, `Server`, `ServerProofs`; `Client`,
   `ClientProofs`; `Adapter`, `AdapterProofs`; `Subscriptions`,
   `SubscriptionsProofs`; `Compressor`, `CompressorProofs`.
2. *done* a JSON handler that calls out over its own adapter, in `Server`.
3. *done* `CallOnce`, which the client without the pool refines.
4. `Exchange`: server and client over one lossy broker and one router per
   adapter. `ReplyOnce` and `CallOnce` meet at the message on the response topic,
   which `Server` publishes at most once and `Client` loses, delays or receives.
5. `Limiter`: the token bucket with time, against the window of `WithLimiter`;
   `Topics`: reply topics as functions on sequences, against the response topic
   that the client subscribes. Both are without concurrency.
