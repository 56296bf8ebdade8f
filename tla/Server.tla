------------------------------- MODULE Server --------------------------------
(***************************************************************************)
(* The request path of the server: the MQTT callback that receives a       *)
(* request (initReceive of both bindings), Server.Call with its limiter,   *)
(* handler lookup, worker pool and deferred event, RequestContext.Reply    *)
(* with its compare-and-swap, and Server.Register running beside them.     *)
(*                                                                         *)
(* Two goroutines work on one request r: the one that runs Call, at pc[r], *)
(* and the pool's worker that runs the handler, at job[r].  Both may reply *)
(* and both do it in three steps: win replyed, setResponse, publish.       *)
(***************************************************************************)
EXTENDS Reply, Sequences, FiniteSets

CONSTANTS
    Requests,        \* the messages that arrive on the request topic
    Methods,         \* the method names they may ask for
    HandlerReplies,  \* what a registered method may pass to Context.Reply
    Outbound,        \* the requests whose method calls out over the adapter
    WorkerNum,       \* serverOptions.workerNum, the size of the tunny pool
    LimiterCount,    \* serverOptions.limiterCount, the limiter's burst
    LimiterReject    \* serverOptions.limiterReject

ASSUME ServerAssumption ==
    /\ HandlerReplies \subseteq {v \in Response : v.cause = "handler"}
    /\ Outbound \subseteq Requests
    /\ WorkerNum \in Nat \ {0}
    /\ LimiterCount \in Nat
    /\ LimiterReject \in BOOLEAN
    /\ NULL \notin Methods

VARIABLES
    pc,          \* where Call(c) is
    method,      \* c.Method()
    out,         \* the response Call is replying with
    job,         \* where the pool's job for the request is
    jobOut,      \* the response the job is replying with
    replyed,     \* RequestContext.replyed
    res,         \* RequestContext.res
    sent,        \* what was published on the reply topic
    event,       \* the response in the AfterResponseEvent that was emitted
    tried,       \* whether the method called Reply (history)
    tokens,      \* tokens in the limiter's bucket
    handlerMap,  \* the methods with a handler
    writing,     \* the key Register is writing into handlerMap, or NULL
    crash        \* why the process died, "none" while it runs

callVars == <<pc, method, out>>
jobVars == <<job, jobOut, tried>>
ctxVars == <<replyed, res, sent>>
serverVars == <<tokens, handlerMap, writing, crash>>
vars == <<callVars, jobVars, ctxVars, event, serverVars>>

PC == {"new", "limit", "lookup", "queue", "wait", "reply", "set", "send",
       "deferred", "done", "rejected"}
Job == {"none", "run", "call", "set", "send", "ret", "done"}

TooFrequently == ErrorResponse("tooFrequently", 429, "sound")
WaitTimeout == ErrorResponse("waitTimeout", 408, "sound")
Unhandled == ErrorResponse("unhandled", 500, "sound")
NoReply == ErrorResponse("noReply", 500, "sound")
JobTimedOut == ErrorResponse("jobTimedOut", 500, "sound")
Panic(payload) == ErrorResponse("panic", 500, payload)

Init ==
    /\ pc = [r \in Requests |-> "new"]
    /\ method = [r \in Requests |-> NULL]
    /\ out = [r \in Requests |-> NULL]
    /\ job = [r \in Requests |-> "none"]
    /\ jobOut = [r \in Requests |-> NULL]
    /\ tried = [r \in Requests |-> FALSE]
    /\ replyed = [r \in Requests |-> FALSE]
    /\ res = [r \in Requests |-> NULL]
    /\ sent = [r \in Requests |-> <<>>]
    /\ event = [r \in Requests |-> NULL]
    /\ tokens = LimiterCount
    /\ handlerMap = {}
    /\ writing = NULL
    /\ crash = "none"

\* The two goroutines of a request, while the process lives.
CallAt(r, label) == crash = "none" /\ pc[r] = label
JobAt(r, label) == crash = "none" /\ job[r] = label

-----------------------------------------------------------------------------
(* initReceive: the callback of the request topic.                         *)

\* The JSON binding runs Call on the MQTT router's goroutine, which delivers
\* nothing else meanwhile; the protobuf binding starts a goroutine.
RouterFree ==
    Transport = "json" =>
        \A r \in Requests : pc[r] \in {"new", "done", "rejected"}

Receive(r, m) ==
    /\ CallAt(r, "new")
    /\ RouterFree
    /\ pc' = [pc EXCEPT ![r] = "limit"]
    /\ method' = [method EXCEPT ![r] = m]
    /\ UNCHANGED <<out, jobVars, ctxVars, event, serverVars>>

\* A retained message, or one that does not parse.
Reject(r) ==
    /\ CallAt(r, "new")
    /\ RouterFree
    /\ pc' = [pc EXCEPT ![r] = "rejected"]
    /\ sent' = [sent EXCEPT ![r] = Append(@, BadRequest)]
    /\ UNCHANGED <<method, out, jobVars, replyed, res, event, serverVars>>

-----------------------------------------------------------------------------
(* RequestContext.Reply by the Call goroutine, one action per step.        *)

ReplyWith(r, v) ==
    /\ pc' = [pc EXCEPT ![r] = "reply"]
    /\ out' = [out EXCEPT ![r] = v]
    /\ UNCHANGED <<method, jobVars, ctxVars, event>>

\* replyed.CompareAndSwap(false, true)
CallReply(r) ==
    /\ CallAt(r, "reply")
    /\ pc' = [pc EXCEPT ![r] = IF replyed[r] THEN "deferred" ELSE "set"]
    /\ replyed' = [replyed EXCEPT ![r] = TRUE]
    /\ UNCHANGED <<method, out, jobVars, res, sent, event, serverVars>>

\* Mutant: Call stores its response and returns without childCtx.Reply.
CallSetNoSend(r) ==
    /\ CallAt(r, "set")
    /\ res' = [res EXCEPT ![r] = out[r]]
    /\ pc' = [pc EXCEPT ![r] = "deferred"]
    /\ UNCHANGED <<method, out, jobVars, replyed, sent, event, serverVars>>

CallSet(r) ==
    /\ CallAt(r, "set")
    /\ res' = [res EXCEPT ![r] = out[r]]
    /\ pc' = [pc EXCEPT ![r] = "send"]
    /\ UNCHANGED <<method, out, jobVars, replyed, sent, event, serverVars>>

\* ChildContext.Reply(v): the messages on the reply topic once it returns.
Publish(v, topic) == IF Publishes(v) THEN Append(topic, Encode(v)) ELSE topic

CallSend(r) ==
    /\ CallAt(r, "send")
    /\ sent' = [sent EXCEPT ![r] = Publish(out[r], @)]
    /\ pc' = [pc EXCEPT ![r] = "deferred"]
    /\ UNCHANGED <<method, out, jobVars, replyed, res, event, serverVars>>

-----------------------------------------------------------------------------
(* Server.Call                                                             *)

\* Mutant: the limiter's answer is not looked at.
LimitAllowAlways(r) ==
    /\ CallAt(r, "limit")
    /\ tokens' = tokens - 1
    /\ pc' = [pc EXCEPT ![r] = "lookup"]
    /\ UNCHANGED <<method, out, jobVars, ctxVars, event, handlerMap, writing,
                   crash>>

\* limiter.Allow or limiter.Wait: both take a token.
LimitAllow(r) ==
    /\ CallAt(r, "limit")
    /\ tokens > 0
    /\ tokens' = tokens - 1
    /\ pc' = [pc EXCEPT ![r] = "lookup"]
    /\ UNCHANGED <<method, out, jobVars, ctxVars, event, handlerMap, writing,
                   crash>>

\* Without a token Allow refuses.  Wait blocks for one: the request's context
\* has no deadline, so it fails only when the bucket can never hold a token.
LimitDeny(r) ==
    /\ CallAt(r, "limit")
    /\ tokens = 0
    /\ LimiterReject \/ LimiterCount = 0
    /\ ReplyWith(r, IF LimiterReject THEN TooFrequently ELSE WaitTimeout)
    /\ UNCHANGED serverVars

\* Time passes and the limiter earns a token.
Refill ==
    /\ crash = "none"
    /\ tokens < LimiterCount
    /\ tokens' = tokens + 1
    /\ UNCHANGED <<callVars, jobVars, ctxVars, event, handlerMap, writing,
                   crash>>

\* The read of handlerMap, which takes no lock.  Beside a write of Register
\* it finds the key or misses it, or the runtime stops the process.
Found(r) ==
    /\ CallAt(r, "lookup")
    /\ method[r] \in handlerMap \/ method[r] = writing
    /\ pc' = [pc EXCEPT ![r] = "queue"]
    /\ UNCHANGED <<method, out, jobVars, ctxVars, event, serverVars>>

NotFound(r) ==
    /\ CallAt(r, "lookup")
    /\ method[r] \notin handlerMap \/ writing # NULL
    /\ ReplyWith(r, Unhandled)
    /\ UNCHANGED serverVars

MapRace(r) ==
    /\ CallAt(r, "lookup")
    /\ writing # NULL
    /\ crash' = "mapRace"
    /\ UNCHANGED <<callVars, jobVars, ctxVars, event, tokens, handlerMap,
                   writing>>

\* workerPool.ProcessTimed: a worker is free and takes the job.
Busy == {r \in Requests : job[r] \in {"run", "call", "set", "send", "ret"}}

Start(r) ==
    /\ CallAt(r, "queue")
    /\ Cardinality(Busy) < WorkerNum
    /\ pc' = [pc EXCEPT ![r] = "wait"]
    /\ job' = [job EXCEPT ![r] = "run"]
    /\ UNCHANGED <<method, out, jobOut, tried, ctxVars, event, serverVars>>

\* Mutant: the error of ProcessTimed is not replied.
TimeoutNoReply(r) ==
    /\ CallAt(r, "queue") \/ CallAt(r, "wait")
    /\ pc' = [pc EXCEPT ![r] = "deferred"]
    /\ UNCHANGED <<method, out, jobVars, ctxVars, event, serverVars>>

\* Mutant: the timer covers the wait for a worker and not the job.
TimeoutQueueOnly(r) ==
    /\ CallAt(r, "queue")
    /\ ReplyWith(r, JobTimedOut)
    /\ UNCHANGED serverVars

\* The handler's Timeout runs out before a worker was free or before the job
\* returned; ProcessTimed interrupts the worker and returns ErrJobTimedOut.
Timeout(r) ==
    /\ CallAt(r, "queue") \/ CallAt(r, "wait")
    /\ ReplyWith(r, JobTimedOut)
    /\ UNCHANGED serverVars

\* The job's result reaches ProcessTimed in time.
JobReturned(r) ==
    /\ CallAt(r, "wait")
    /\ job[r] = "ret"
    /\ pc' = [pc EXCEPT ![r] = "deferred"]
    /\ job' = [job EXCEPT ![r] = "done"]
    /\ UNCHANGED <<method, out, jobOut, tried, ctxVars, event, serverVars>>

\* emitAfterResponse
Emit(r) == event' = [event EXCEPT ![r] = res[r]]

\* The deferred function: GetResponse, RecordRequest with evt.Res.Error,
\* emitAfterResponse.  A nil evt.Res is dereferenced outside any recover.
Deferred(r) ==
    /\ CallAt(r, "deferred")
    /\ IF res[r] = NULL
       THEN /\ crash' = "nilResponse"
            /\ UNCHANGED <<pc, event>>
       ELSE /\ Emit(r)
            /\ pc' = [pc EXCEPT ![r] = "done"]
            /\ UNCHANGED crash
    /\ UNCHANGED <<method, out, jobVars, ctxVars, tokens, handlerMap, writing>>

-----------------------------------------------------------------------------
(* The job: the method between hdl.Method(c) and the end of the recover.   *)

\* Mutant: Reply does not look at replyed.
JobReplyNoCAS(r, v, lost) ==
    /\ replyed' = [replyed EXCEPT ![r] = TRUE]
    /\ job' = [job EXCEPT ![r] = "set"]
    /\ jobOut' = [jobOut EXCEPT ![r] = v]
    /\ UNCHANGED <<callVars, res, sent, event, serverVars>>

\* Reply(v) by the job's goroutine up to the compare-and-swap; one that loses
\* it returns false and goes on at lost.
JobReply(r, v, lost) ==
    /\ replyed' = [replyed EXCEPT ![r] = TRUE]
    /\ IF replyed[r]
       THEN /\ job' = [job EXCEPT ![r] = lost]
            /\ UNCHANGED jobOut
       ELSE /\ job' = [job EXCEPT ![r] = "set"]
            /\ jobOut' = [jobOut EXCEPT ![r] = v]
    /\ UNCHANGED <<callVars, res, sent, event, serverVars>>

\* The method replies, as often as it likes.
HandlerReply(r, v) ==
    /\ JobAt(r, "run")
    /\ tried' = [tried EXCEPT ![r] = TRUE]
    /\ JobReply(r, v, "run")

\* The method makes a call of its own, with a client on the server's adapter,
\* and waits for the response.
HandlerCalls(r) ==
    /\ JobAt(r, "run")
    /\ r \in Outbound
    /\ job' = [job EXCEPT ![r] = "call"]
    /\ UNCHANGED <<callVars, jobOut, tried, ctxVars, event, serverVars>>

\* The response of that call comes in through the adapter's router, like every
\* message: not while the router is inside Server.Call.
ResponseArrives(r) ==
    /\ JobAt(r, "call")
    /\ RouterFree
    /\ job' = [job EXCEPT ![r] = "run"]
    /\ UNCHANGED <<callVars, jobOut, tried, ctxVars, event, serverVars>>

\* Or the context the method gave the call ends.
CalloutExpires(r) ==
    /\ JobAt(r, "call")
    /\ job' = [job EXCEPT ![r] = "run"]
    /\ UNCHANGED <<callVars, jobOut, tried, ctxVars, event, serverVars>>

\* The method returns and the job tries ErrNoReply.
HandlerReturn(r) ==
    /\ JobAt(r, "run")
    /\ JobReply(r, NoReply, "ret")
    /\ UNCHANGED tried

\* The method panics and the recover replies; the panic's value may print as
\* anything, even as bytes that are no text.
HandlerPanic(r, payload) ==
    /\ JobAt(r, "run")
    /\ JobReply(r, Panic(payload), "ret")
    /\ UNCHANGED tried

\* Mutant: Reply publishes without setResponse.
JobSetNothing(r) ==
    /\ JobAt(r, "set")
    /\ job' = [job EXCEPT ![r] = "send"]
    /\ UNCHANGED <<callVars, jobOut, tried, ctxVars, event, serverVars>>

JobSet(r) ==
    /\ JobAt(r, "set")
    /\ res' = [res EXCEPT ![r] = jobOut[r]]
    /\ job' = [job EXCEPT ![r] = "send"]
    /\ UNCHANGED <<callVars, jobOut, tried, replyed, sent, event, serverVars>>

\* After its own reply the method goes on, unless the reply panicked: then the
\* recover's ReplyError finds replyed set.
JobSend(r) ==
    /\ JobAt(r, "send")
    /\ sent' = [sent EXCEPT ![r] = Publish(jobOut[r], @)]
    /\ job' = [job EXCEPT ![r] =
                 IF jobOut[r].cause = "handler" /\ ~ReplyPanics(jobOut[r])
                 THEN "run" ELSE "ret"]
    /\ UNCHANGED <<callVars, jobOut, tried, replyed, res, event, serverVars>>

\* Mutant: a worker whose caller timed out waits for it to take the result.
JobNotInterrupted(r) ==
    /\ JobAt(r, "ret")
    /\ pc[r] = "wait"
    /\ job' = [job EXCEPT ![r] = "done"]
    /\ UNCHANGED <<callVars, jobOut, tried, ctxVars, event, serverVars>>

\* A worker whose caller timed out finds itself interrupted and is free again.
JobInterrupted(r) ==
    /\ JobAt(r, "ret")
    /\ pc[r] # "wait"
    /\ job' = [job EXCEPT ![r] = "done"]
    /\ UNCHANGED <<callVars, jobOut, tried, ctxVars, event, serverVars>>

-----------------------------------------------------------------------------
(* Server.Register, by the application, at any time: NewServer subscribes  *)
(* before the application can register anything.  handlerMu serialises the *)
(* writers.                                                                *)

RegisterBegin(m) ==
    /\ crash = "none"
    /\ writing = NULL
    /\ writing' = m
    /\ UNCHANGED <<callVars, jobVars, ctxVars, event, tokens, handlerMap,
                   crash>>

RegisterEnd ==
    /\ crash = "none"
    /\ writing # NULL
    /\ handlerMap' = handlerMap \union {writing}
    /\ writing' = NULL
    /\ UNCHANGED <<callVars, jobVars, ctxVars, event, tokens, crash>>

-----------------------------------------------------------------------------
\* A dead process stays dead.
Halted == crash # "none" /\ UNCHANGED vars

CallStep(r) ==
    \/ LimitAllow(r)
    \/ LimitDeny(r)
    \/ Found(r)
    \/ NotFound(r)
    \/ MapRace(r)
    \/ Timeout(r)
    \/ JobReturned(r)
    \/ CallReply(r)
    \/ CallSet(r)
    \/ CallSend(r)
    \/ Deferred(r)

JobStep(r) ==
    \/ JobSet(r)
    \/ JobSend(r)
    \/ JobInterrupted(r)

Callout(r) ==
    \/ HandlerCalls(r)
    \/ ResponseArrives(r)
    \/ CalloutExpires(r)

HandlerEnd(r) ==
    \/ HandlerReturn(r)
    \/ \E p \in {"sound", "broken"} : HandlerPanic(r, p)

RequestStep(r) ==
    \/ \E m \in Methods : Receive(r, m)
    \/ Reject(r)
    \/ CallStep(r)
    \/ Start(r)
    \/ \E v \in HandlerReplies : HandlerReply(r, v)
    \/ Callout(r)
    \/ HandlerEnd(r)
    \/ JobStep(r)

Next ==
    \/ \E r \in Requests : RequestStep(r)
    \/ Refill
    \/ \E m \in Methods : RegisterBegin(m)
    \/ RegisterEnd
    \/ Halted

Spec == Init /\ [][Next]_vars

\* The goroutines of Call and the tail of a job are scheduled, timers fire and
\* the limiter's clock runs.  A method may hang for ever, nobody has to send a
\* request or register a method.
Fairness ==
    /\ \A r \in Requests :
        /\ WF_vars(CallStep(r))
        /\ WF_vars(JobStep(r))
    /\ WF_vars(Refill)

FairSpec == Spec /\ Fairness

-----------------------------------------------------------------------------
(* Safety                                                                  *)

\* Every variable stays in its type.
TypeOK ==
    /\ pc \in [Requests -> PC]
    /\ method \in [Requests -> Methods \union {NULL}]
    /\ out \in [Requests -> Response \union {NULL}]
    /\ job \in [Requests -> Job]
    /\ jobOut \in [Requests -> Response \union {NULL}]
    /\ tried \in [Requests -> BOOLEAN]
    /\ replyed \in [Requests -> BOOLEAN]
    /\ res \in [Requests -> Response \union {NULL}]
    /\ sent \in [Requests -> Seq(Message)]
    /\ event \in [Requests -> Response \union {NULL}]
    /\ tokens \in 0 .. LimiterCount
    /\ handlerMap \subseteq Methods
    /\ writing \in Methods \union {NULL}
    /\ crash \in {"none", "mapRace", "nilResponse"}

\* However the handler, the timeout and the recover race to reply, the reply
\* topic of a request carries at most one message, and it is the encoding of
\* the response the context holds (GetResponse).
SentIsResponse ==
    \A r \in Requests :
        (pc[r] # "rejected" /\ sent[r] # <<>>) =>
            /\ res[r] # NULL
            /\ sent[r] = <<Encode(res[r])>>

\* When Call has returned its request is answered, or the handler that won the
\* race is between setResponse and publishing, or the winning response is one
\* the protobuf binding cannot encode; no call returns with its answer still
\* to be chosen.
DoneAnswered ==
    \A r \in Requests :
        pc[r] = "done" =>
            /\ res[r] # NULL
            /\ sent[r] = <<>> => job[r] = "send" \/ ~Publishes(res[r])

\* The deferred function finds a response, except in the window in which a
\* handler whose call timed out, and not just any late one, has won replyed and
\* not yet stored its response.
DeferredResponse ==
    \A r \in Requests :
        (pc[r] = "deferred" /\ res[r] = NULL) =>
            job[r] = "set" /\ out[r] = JobTimedOut

\* ErrNoReply goes out only for a method that never tried to reply, as the
\* comment on Call's ReplyError(ErrNoReply) says.
NoReplyMeansSilent ==
    \A r \in Requests :
        (res[r] # NULL /\ res[r].cause = "noReply") => ~tried[r]

\* A late result is never mistaken for an answer: what a request was answered
\* with, the response recorded for it and the event emitted for it are final.
AnswerFinal ==
    [][\A r \in Requests :
        /\ res[r] # NULL => res'[r] = res[r]
        /\ sent[r] # <<>> => sent'[r] = sent[r]
        /\ event[r] # NULL => event'[r] = event[r] /\ event[r] = res[r]]_vars

\* The process dies in two places only: in the deferred function of a call
\* that timed out while its handler was replying, and in a lookup of a method
\* while Register writes handlerMap.  The liveness properties, which are stated
\* up to a crash, have no other way out.
DeathsExplained ==
    crash # "none" =>
        \E r \in Requests :
            \/ pc[r] = "deferred" /\ out[r] = JobTimedOut /\ job[r] = "set"
            \/ pc[r] = "lookup" /\ writing # NULL

\* In the JSON binding a method that calls out over its own adapter cannot use
\* the response for its answer: the router delivers it only after the method's
\* own call has timed out, was answered and reported.
CalloutsTooLate ==
    [][\A r \in Requests :
        ResponseArrives(r) =>
            /\ pc[r] = "done" /\ out[r] = JobTimedOut
            /\ event[r] # NULL /\ event[r] = res[r]]_vars

-----------------------------------------------------------------------------
(* Liveness                                                                *)

\* Call returns, even when every worker hangs in a handler.
CallReturns ==
    \A r \in Requests :
        pc[r] = "limit" ~> (pc[r] = "done" \/ crash # "none")

\* The answer goes out, even when every worker hangs in a handler and the late
\* handlers race the timeouts; the one response that is decided and never
\* published is one the protobuf binding cannot encode.
Answered ==
    \A r \in Requests :
        pc[r] = "limit" ~> \/ sent[r] # <<>>
                           \/ res[r] # NULL /\ ~Publishes(res[r])
                           \/ crash # "none"

\* The JSON binding blocks the MQTT router while it serves a request; a hung
\* handler keeps it blocked until its timeout and no longer.
RouterAdvances == ~RouterFree ~> (RouterFree \/ crash # "none")

\* A method that calls out over the adapter whose router runs Server.Call (the
\* JSON binding) waits for a response that this router cannot deliver; yet if
\* the peer answers, the method gets its response, because the timeout of its
\* own request takes the router out of Call.
FairPeer == \A r \in Requests : WF_vars(ResponseArrives(r))

CalloutReturns ==
    FairPeer =>
        \A r \in Requests :
            job[r] = "call" ~> (job[r] # "call" \/ crash # "none")

\* If every method ends, by a return or a panic, then a worker comes back to
\* the pool whether Call was still waiting for it or had timed out, also when
\* the methods call out in between.
FairHandlers == FairPeer /\ \A r \in Requests : SF_vars(HandlerEnd(r))

WorkerFreed ==
    FairHandlers =>
        \A r \in Requests :
            job[r] = "run" ~> (job[r] = "done" \/ crash # "none")

-----------------------------------------------------------------------------
(* What the repository's comments say and the code does not do.            *)

\* The deferred function of Call guards evt.Res against nil twice (lines 123
\* and 131), so that a call without a stored response is reported as status 0.
NoNilResponse == crash # "nilResponse"

-----------------------------------------------------------------------------
(* The protocol of RequestContext.Reply between the two goroutines of a    *)
(* request: the inductive invariant behind the safety properties.          *)

\* A goroutine that is about to reply has a response to reply with.
Loaded(r) ==
    /\ pc[r] \in {"reply", "set", "send"} => out[r] \in Response
    /\ job[r] \in {"set", "send"} => jobOut[r] \in Response

\* Only the goroutine that won replyed is inside Reply; a call or a job that
\* is past its last ReplyError knows that somebody won.
Won(r) ==
    /\ ~ (pc[r] \in {"set", "send"} /\ job[r] \in {"set", "send"})
    /\ pc[r] \in {"set", "send", "deferred", "done"} => replyed[r]
    /\ job[r] \in {"set", "send", "ret", "done"} => replyed[r]
    /\ pc[r] \in {"new", "limit", "lookup", "queue", "rejected"} =>
           ~replyed[r] /\ job[r] = "none"

\* The response is stored by the winner and by nobody else.
Stored(r) ==
    /\ res[r] = NULL <=> (pc[r] = "set" \/ job[r] = "set" \/ ~replyed[r])
    /\ pc[r] = "send" => res[r] = out[r]
    /\ job[r] = "send" => res[r] = jobOut[r]

\* It is published once, after it was stored.
Sent(r) ==
    pc[r] # "rejected" =>
        sent[r] = IF \/ res[r] = NULL
                     \/ pc[r] = "send" \/ job[r] = "send"
                     \/ ~Publishes(res[r])
                  THEN <<>> ELSE <<Encode(res[r])>>

\* The event comes last and reports the stored response.
Reported(r) ==
    /\ event[r] = IF pc[r] = "done" THEN res[r] ELSE NULL
    /\ pc[r] = "done" => res[r] # NULL

\* A method that tried to reply left replyed set, so ErrNoReply is only ever
\* the answer of a method that did not, and such a method has returned.
Silent(r) ==
    /\ tried[r] => replyed[r]
    /\ pc[r] \in {"reply", "set", "send"} => out[r].cause # "noReply"
    /\ (job[r] \in {"set", "send"} /\ jobOut[r].cause = "noReply") => ~tried[r]
    /\ (res[r] # NULL /\ res[r].cause = "noReply") =>
           ~tried[r] /\ job[r] \in {"send", "ret", "done"}

ReplyProtocol ==
    \A r \in Requests :
        Loaded(r) /\ Won(r) /\ Stored(r) /\ Sent(r) /\ Reported(r) /\ Silent(r)

-----------------------------------------------------------------------------
\* The server implements the one-shot reply of ReplyOnce.
Once == INSTANCE ReplyOnce WITH
            decision <- res,
            published <- sent,
            reported <- event,
            refused <- {r \in Requests : pc[r] = "rejected"}

RepliesOnce == Once!Spec
=============================================================================
