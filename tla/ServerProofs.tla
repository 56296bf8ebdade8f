---------------------------- MODULE ServerProofs -----------------------------
(***************************************************************************)
(* Proofs about Server, for every set of requests and methods, every pool  *)
(* size, both limiter modes, both bindings and every reply a handler may   *)
(* give.                                                                   *)
(***************************************************************************)
EXTENDS Server, TLAPS

USE DEF CallAt, JobAt

-----------------------------------------------------------------------------
(* Responses and what is published of them.                                *)

\* Every response the server builds itself is a rrpc.Response, and only the
\* one Call sends for a silent method is ErrNoReply.
LEMMA ServerResponses ==
    /\ {TooFrequently, WaitTimeout, Unhandled, JobTimedOut, NoReply} \subseteq Response
    /\ \A p \in {"sound", "broken"} : Panic(p) \in Response /\ Panic(p).cause = "panic"
    /\ \A v \in {TooFrequently, WaitTimeout, Unhandled, JobTimedOut} : v.cause # "noReply"
    /\ NoReply.cause = "noReply"
  BY DEF TooFrequently, WaitTimeout, Unhandled, JobTimedOut, NoReply, Panic,
         ErrorResponse, Response, Cause, Status, Payload

\* What a handler replies is a response of its own cause, never nil.
LEMMA HandlerResponses ==
    ASSUME NEW v \in HandlerReplies
    PROVE  v \in Response /\ v.cause = "handler"
  BY ServerAssumption

\* A response is not nil.
LEMMA ResponseNotNull == \A v \in Response : v # NULL
  BY NullAssumption

\* What the bindings put on the wire is a message.
LEMMA EncodeType ==
    ASSUME NEW v \in Response
    PROVE  Encode(v) \in Message
  BY DEF Encode, MakeErrResponse, MakeOKResponse, ProtoBody, JsonBody, Message,
         Body, Response, Status

\* Publishing keeps the reply topic a sequence of messages.
LEMMA PublishType ==
    ASSUME NEW v \in Response, NEW topic \in Seq(Message)
    PROVE  Publish(v, topic) \in Seq(Message)
  BY EncodeType DEF Publish

\* On a silent reply topic a publication leaves one message, or none when the
\* response cannot be encoded.
LEMMA PublishOnce ==
    ASSUME NEW v \in Response
    PROVE  /\ Publishes(v) => Publish(v, <<>>) = <<Encode(v)>>
           /\ ~Publishes(v) => Publish(v, <<>>) = <<>>
  BY DEF Publish

\* A topic with one message is not a silent one.
LEMMA OneMessage == \A x : <<x>> # <<>>
  OBVIOUS

-----------------------------------------------------------------------------
(* The inductive invariant.  TypeOK alone is not inductive: that sent stays *)
(* a sequence of messages needs Loaded, that a goroutine about to publish   *)
(* has a response.                                                          *)

Protocol(r) ==
    Loaded(r) /\ Won(r) /\ Stored(r) /\ Sent(r) /\ Reported(r) /\ Silent(r)

IInv == TypeOK /\ ReplyProtocol

\* The initial states satisfy the invariant.
LEMMA InitIInv == Init => IInv
  BY ServerAssumption
  DEF Init, IInv, TypeOK, PC, Job, ReplyProtocol, Loaded, Won, Stored, Sent,
      Reported, Silent

\* A step of one request leaves the state of every other request alone.
LEMMA Frame ==
    ASSUME TypeOK, NEW q \in Requests, RequestStep(q),
           NEW r \in Requests, r # q
    PROVE  /\ pc'[r] = pc[r] /\ out'[r] = out[r] /\ job'[r] = job[r]
           /\ jobOut'[r] = jobOut[r] /\ tried'[r] = tried[r]
           /\ replyed'[r] = replyed[r] /\ res'[r] = res[r]
           /\ sent'[r] = sent[r] /\ event'[r] = event[r]
<1> USE DEF callVars, jobVars, ctxVars, serverVars
<1>1. CASE \E m \in Methods : Receive(q, m)
  BY <1>1 DEF TypeOK, Receive
<1>2. CASE Reject(q)
  BY <1>2 DEF TypeOK, Reject
<1>3. CASE CallStep(q)
  BY <1>3 DEF TypeOK, CallStep, LimitAllow, LimitDeny, Found, NotFound, MapRace,
              Timeout, JobReturned, CallReply, CallSet, CallSend, Deferred,
              Emit, ReplyWith
<1>4. CASE Start(q)
  BY <1>4 DEF TypeOK, Start
<1>5. CASE \E v \in HandlerReplies : HandlerReply(q, v)
  BY <1>5 DEF TypeOK, HandlerReply, JobReply
<1>6. CASE HandlerEnd(q)
  BY <1>6 DEF TypeOK, HandlerEnd, HandlerReturn, HandlerPanic, JobReply
<1>7. CASE JobStep(q)
  BY <1>7 DEF TypeOK, JobStep, JobSet, JobSend, JobInterrupted
<1>8. CASE Callout(q)
  BY <1>8 DEF TypeOK, Callout, HandlerCalls, ResponseArrives, CalloutExpires
<1> QED
  BY <1>1, <1>2, <1>3, <1>4, <1>5, <1>6, <1>7, <1>8 DEF RequestStep

-----------------------------------------------------------------------------
(* Type correctness.                                                       *)

\* No step, of Call, of a job, of the router, of the limiter's clock or of
\* Register, takes a variable out of its type.
LEMMA TypeNext == IInv /\ [Next]_vars => TypeOK'
<1> SUFFICES ASSUME IInv, [Next]_vars
             PROVE  TypeOK'
  OBVIOUS
<1> USE DEF IInv, TypeOK, PC, Job, callVars, jobVars, ctxVars, serverVars
<1>1. ASSUME NEW r \in Requests, RequestStep(r)
      PROVE  TypeOK'
  <2>1. ASSUME NEW m \in Methods, Receive(r, m)
        PROVE  TypeOK'
    BY <2>1 DEF Receive
  <2>2. CASE Reject(r)
    <3>1. BadRequest \in Message
      BY DEF BadRequest, Message, Status, Body
    <3>2. Append(sent[r], BadRequest) \in Seq(Message)
      BY <3>1
    <3> QED
      BY <2>2, <3>2 DEF Reject
  <2>3. CASE LimitAllow(r)
    BY <2>3, ServerAssumption DEF LimitAllow
  <2>4. CASE LimitDeny(r)
    <3>1. PICK v \in Response : ReplyWith(r, v)
      BY <2>4, ServerResponses DEF LimitDeny
    <3> QED
      BY <2>4, <3>1 DEF LimitDeny, ReplyWith
  <2>5. CASE Found(r)
    BY <2>5 DEF Found
  <2>6. CASE NotFound(r)
    BY <2>6, ServerResponses DEF NotFound, ReplyWith
  <2>7. CASE MapRace(r)
    BY <2>7 DEF MapRace
  <2>8. CASE Timeout(r)
    BY <2>8, ServerResponses DEF Timeout, ReplyWith
  <2>9. CASE JobReturned(r)
    BY <2>9 DEF JobReturned
  <2>10. CASE CallReply(r)
    BY <2>10 DEF CallReply
  <2>11. CASE CallSet(r)
    BY <2>11 DEF CallSet
  <2>12. CASE CallSend(r)
    <3>1. out[r] \in Response
      BY <2>12 DEF CallSend, ReplyProtocol, Loaded
    <3>2. Publish(out[r], sent[r]) \in Seq(Message)
      BY <3>1, PublishType
    <3> QED
      BY <2>12, <3>2 DEF CallSend
  <2>13. CASE Deferred(r)
    BY <2>13 DEF Deferred, Emit
  <2>14. CASE Start(r)
    BY <2>14 DEF Start
  <2>15. ASSUME NEW v \in HandlerReplies, HandlerReply(r, v)
         PROVE  TypeOK'
    BY <2>15, HandlerResponses DEF HandlerReply, JobReply
  <2>16. CASE HandlerReturn(r)
    BY <2>16, ServerResponses DEF HandlerReturn, JobReply
  <2>17. ASSUME NEW p \in {"sound", "broken"}, HandlerPanic(r, p)
         PROVE  TypeOK'
    BY <2>17, ServerResponses DEF HandlerPanic, JobReply
  <2>18. CASE JobSet(r)
    BY <2>18 DEF JobSet
  <2>19. CASE JobSend(r)
    <3>1. jobOut[r] \in Response
      BY <2>19 DEF JobSend, ReplyProtocol, Loaded
    <3>2. Publish(jobOut[r], sent[r]) \in Seq(Message)
      BY <3>1, PublishType
    <3> QED
      BY <2>19, <3>2 DEF JobSend
  <2>20. CASE JobInterrupted(r)
    BY <2>20 DEF JobInterrupted
  <2>21. CASE Callout(r)
    BY <2>21 DEF Callout, HandlerCalls, ResponseArrives, CalloutExpires
  <2> QED
    BY <1>1, <2>1, <2>2, <2>3, <2>4, <2>5, <2>6, <2>7, <2>8, <2>9, <2>10,
       <2>11, <2>12, <2>13, <2>14, <2>15, <2>16, <2>17, <2>18, <2>19, <2>20,
       <2>21
    DEF RequestStep, CallStep, JobStep, HandlerEnd
<1>2. CASE Refill
  BY <1>2, ServerAssumption DEF Refill
<1>3. ASSUME NEW m \in Methods, RegisterBegin(m)
      PROVE  TypeOK'
  BY <1>3 DEF RegisterBegin
<1>4. CASE RegisterEnd
  BY <1>4 DEF RegisterEnd
<1>5. CASE UNCHANGED vars
  BY <1>5 DEF vars
<1> QED
  BY <1>1, <1>2, <1>3, <1>4, <1>5 DEF Next, Halted

-----------------------------------------------------------------------------
(* The reply protocol is preserved: by the steps of the request itself,    *)
(* one action at a time, and by everything else because of Frame.          *)

\* Whatever a request does next, its own reply protocol is kept.
LEMMA ProtocolStep ==
    ASSUME IInv, NEW r \in Requests, RequestStep(r)
    PROVE  Protocol(r)'
<1> USE DEF callVars, jobVars, ctxVars, serverVars
<1>0. Protocol(r)
  BY DEF IInv, ReplyProtocol, Protocol
<1> USE ResponseNotNull DEF IInv, TypeOK, Protocol, Loaded, Won, Stored, Sent,
        Reported, Silent
<1>1. ASSUME NEW m \in Methods, Receive(r, m)
      PROVE  Protocol(r)'
  BY <1>0, <1>1 DEF Receive
<1>2. CASE Reject(r)
  BY <1>0, <1>2 DEF Reject
<1>3. CASE LimitAllow(r)
  BY <1>0, <1>3 DEF LimitAllow
<1>4. CASE LimitDeny(r)
  <2>1. PICK v \in Response : ReplyWith(r, v) /\ v.cause # "noReply"
    BY <1>4, ServerResponses DEF LimitDeny
  <2> QED
    BY <1>0, <1>4, <2>1 DEF LimitDeny, ReplyWith
<1>5. CASE Found(r)
  BY <1>0, <1>5 DEF Found
<1>6. CASE NotFound(r)
  BY <1>0, <1>6, ServerResponses DEF NotFound, ReplyWith
<1>7. CASE MapRace(r)
  BY <1>0, <1>7 DEF MapRace
<1>8. CASE Timeout(r)
  BY <1>0, <1>8, ServerResponses DEF Timeout, ReplyWith
<1>9. CASE JobReturned(r)
  BY <1>0, <1>9 DEF JobReturned
<1>10. CASE CallReply(r)
  BY <1>0, <1>10 DEF CallReply
<1>11. CASE CallSet(r)
  BY <1>0, <1>11 DEF CallSet
<1>12. CASE CallSend(r)
  BY <1>0, <1>12, PublishOnce DEF CallSend
<1>13. CASE Deferred(r)
  BY <1>0, <1>13 DEF Deferred, Emit
<1>14. CASE Start(r)
  BY <1>0, <1>14 DEF Start
<1>15. ASSUME NEW v \in HandlerReplies, HandlerReply(r, v)
       PROVE  Protocol(r)'
  BY <1>0, <1>15, HandlerResponses DEF HandlerReply, JobReply
<1>16. CASE HandlerReturn(r)
  BY <1>0, <1>16, ServerResponses DEF HandlerReturn, JobReply
<1>17. ASSUME NEW p \in {"sound", "broken"}, HandlerPanic(r, p)
       PROVE  Protocol(r)'
  BY <1>0, <1>17, ServerResponses DEF HandlerPanic, JobReply
<1>18. CASE JobSet(r)
  BY <1>0, <1>18 DEF JobSet
<1>19. CASE JobSend(r)
  BY <1>0, <1>19, PublishOnce DEF JobSend
<1>20. CASE JobInterrupted(r)
  BY <1>0, <1>20 DEF JobInterrupted
<1>21. CASE Callout(r)
  BY <1>0, <1>21 DEF Callout, HandlerCalls, ResponseArrives, CalloutExpires
<1> QED
  BY <1>1, <1>2, <1>3, <1>4, <1>5, <1>6, <1>7, <1>8, <1>9, <1>10, <1>11,
     <1>12, <1>13, <1>14, <1>15, <1>16, <1>17, <1>18, <1>19, <1>20, <1>21
  DEF RequestStep, CallStep, JobStep, HandlerEnd

\* No step breaks the invariant.
LEMMA NextIInv == IInv /\ [Next]_vars => IInv'
<1> SUFFICES ASSUME IInv, [Next]_vars
             PROVE  IInv'
  OBVIOUS
<1>1. TypeOK'
  BY TypeNext
<1>2. ASSUME NEW r \in Requests
      PROVE  Protocol(r)'
  <2>0. Protocol(r)
    BY DEF IInv, ReplyProtocol, Protocol
  <2>1. CASE RequestStep(r)
    BY <2>1, ProtocolStep
  <2>2. ASSUME NEW q \in Requests, RequestStep(q), r # q
        PROVE  Protocol(r)'
    <3>1. TypeOK
      BY DEF IInv
    <3> QED
      BY <2>0, <2>2, <3>1, Frame
      DEF Protocol, Loaded, Won, Stored, Sent, Reported, Silent
  <2>3. ASSUME UNCHANGED <<callVars, jobVars, ctxVars, event>>
        PROVE  Protocol(r)'
    BY <2>0, <2>3 DEF Protocol, Loaded, Won, Stored, Sent, Reported, Silent,
                      callVars, jobVars, ctxVars
  <2>4. CASE Refill \/ RegisterEnd \/ \E m \in Methods : RegisterBegin(m)
    BY <2>3, <2>4 DEF Refill, RegisterBegin, RegisterEnd
  <2>5. CASE UNCHANGED vars
    BY <2>3, <2>5 DEF vars
  <2> QED
    BY <2>1, <2>2, <2>4, <2>5 DEF Next, Halted
<1> QED
  BY <1>1, <1>2 DEF IInv, ReplyProtocol, Protocol

\* The reply protocol holds in every reachable state.
THEOREM ReplyProtocolHolds == Spec => []IInv
  BY InitIInv, NextIInv, PTL DEF Spec

-----------------------------------------------------------------------------
(* What follows from it.                                                   *)

\* What Call knows of its job, and the job of its Call, at each of their
\* steps: the reply protocol itself.
THEOREM ProtocolKept == Spec => []ReplyProtocol
<1>1. IInv => ReplyProtocol
  BY DEF IInv
<1> QED
  BY <1>1, ReplyProtocolHolds, PTL

\* Every variable stays in its type.
THEOREM TypeCorrect == Spec => []TypeOK
<1>1. IInv => TypeOK
  BY DEF IInv
<1> QED
  BY <1>1, ReplyProtocolHolds, PTL

\* However the handler, the timeout and the recover of one request race, its
\* reply topic carries at most one message, the encoding of the response that
\* GetResponse returns.
THEOREM AtMostOneAnswer == Spec => []SentIsResponse
<1>1. IInv => SentIsResponse
  BY DEF IInv, ReplyProtocol, Sent, SentIsResponse
<1> QED
  BY <1>1, ReplyProtocolHolds, PTL

\* A call that returned is answered, or the winner of the race is about to
\* publish, or its response cannot be encoded.
THEOREM CallsAnswered == Spec => []DoneAnswered
<1>1. IInv => DoneAnswered
  BY OneMessage DEF IInv, ReplyProtocol, Sent, Reported, DoneAnswered
<1> QED
  BY <1>1, ReplyProtocolHolds, PTL

\* ErrNoReply is the answer only of methods that never called Reply.
THEOREM NoReplyIsSilence == Spec => []NoReplyMeansSilent
<1>1. IInv => NoReplyMeansSilent
  BY DEF IInv, ReplyProtocol, Silent, NoReplyMeansSilent
<1> QED
  BY <1>1, ReplyProtocolHolds, PTL

-----------------------------------------------------------------------------
(* Jobs that outlive their call.  A call leaves its job behind in one way  *)
(* only, by its timeout, and then replies with that.                       *)

Leaving == {"reply", "set", "send", "deferred", "done"}
Working == {"run", "call", "set", "send", "ret"}

Outlived ==
    \A r \in Requests :
        (pc[r] \in Leaving /\ job[r] \in Working) => out[r] = JobTimedOut

OInv == IInv /\ Outlived /\ DeathsExplained

\* No call leaves its job in another way.
LEMMA OutlivedNext == OInv /\ [Next]_vars => Outlived'
<1> SUFFICES ASSUME OInv, [Next]_vars, NEW r \in Requests,
                    pc'[r] \in Leaving, job'[r] \in Working
             PROVE  out'[r] = JobTimedOut
  BY DEF Outlived
<1> USE DEF OInv, IInv, TypeOK, Leaving, Working,
            callVars, jobVars, ctxVars, serverVars
<1>0. /\ pc[r] \in {"limit", "lookup", "queue"} => job[r] = "none"
      /\ (pc[r] \in Leaving /\ job[r] \in Working) => out[r] = JobTimedOut
  BY DEF ReplyProtocol, Won, Outlived
<1>1. CASE RequestStep(r)
  <2>1. CASE CallStep(r)
    BY <1>0, <2>1
    DEF CallStep, LimitAllow, LimitDeny, Found, NotFound, MapRace, Timeout,
        JobReturned, CallReply, CallSet, CallSend, Deferred, Emit, ReplyWith
  <2>2. CASE Start(r) \/ Reject(r) \/ \E m \in Methods : Receive(r, m)
    BY <2>2 DEF Start, Reject, Receive
  <2>3. CASE JobStep(r) \/ Callout(r)
    BY <1>0, <2>3
    DEF JobStep, JobSet, JobSend, JobInterrupted, Callout, HandlerCalls,
        ResponseArrives, CalloutExpires
  <2>4. CASE HandlerEnd(r) \/ \E v \in HandlerReplies : HandlerReply(r, v)
    BY <1>0, <2>4
    DEF HandlerEnd, HandlerReturn, HandlerPanic, HandlerReply, JobReply
  <2> QED
    BY <1>1, <2>1, <2>2, <2>3, <2>4 DEF RequestStep
<1>2. ASSUME NEW q \in Requests, RequestStep(q), r # q
      PROVE  out'[r] = JobTimedOut
  BY <1>0, <1>2, Frame
<1>3. CASE UNCHANGED <<callVars, jobVars>>
  BY <1>0, <1>3
<1>4. CASE Refill \/ RegisterEnd \/ \E m \in Methods : RegisterBegin(m)
  BY <1>3, <1>4 DEF Refill, RegisterBegin, RegisterEnd
<1> QED
  BY <1>1, <1>2, <1>3, <1>4 DEF Next, Halted, vars

\* In the deferred function a nil response means that the handler of a call
\* that timed out is between winning replyed and storing its response.
LEMMA NilWindow == IInv /\ Outlived => DeferredResponse
  BY DEF IInv, ReplyProtocol, Won, Stored, Outlived, Leaving, Working,
         DeferredResponse

\* The process dies where DeathsExplained says, and then nothing moves.
LEMMA DeathsNext == OInv /\ [Next]_vars => DeathsExplained'
<1> SUFFICES ASSUME OInv, [Next]_vars, crash' # "none"
             PROVE  DeathsExplained'
  BY DEF DeathsExplained
<1> USE DEF callVars, jobVars, ctxVars, serverVars
<1>1. CASE crash # "none"
  <2>1. UNCHANGED vars
    BY <1>1
    DEF Next, RequestStep, CallStep, JobStep, Callout, HandlerEnd, Receive,
        Reject, LimitAllow, LimitDeny, Found, NotFound, MapRace, Timeout,
        JobReturned, CallReply, CallSet, CallSend, Deferred, Start,
        HandlerReply, HandlerReturn, HandlerPanic, HandlerCalls,
        ResponseArrives, CalloutExpires, JobSet, JobSend, JobInterrupted,
        Refill, RegisterBegin, RegisterEnd, Halted
  <2> QED
    BY <2>1 DEF OInv, DeathsExplained, vars
<1>2. CASE crash = "none"
  <2>1. PICK r \in Requests : MapRace(r) \/ Deferred(r)
    BY <1>2
    DEF Next, RequestStep, CallStep, JobStep, Callout, HandlerEnd, Receive,
        Reject, LimitAllow, LimitDeny, Found, NotFound, Timeout, JobReturned,
        CallReply, CallSet, CallSend, Start, HandlerReply, HandlerReturn,
        HandlerPanic, HandlerCalls, ResponseArrives, CalloutExpires, JobReply,
        JobSet, JobSend, JobInterrupted, Refill, RegisterBegin, RegisterEnd,
        ReplyWith, Halted, vars
  <2>2. CASE MapRace(r)
    BY <2>2 DEF MapRace, DeathsExplained
  <2>3. CASE Deferred(r)
    <3>1. res[r] = NULL /\ pc[r] = "deferred" /\ UNCHANGED <<pc, out, job>>
      BY <1>2, <2>3 DEF Deferred, Emit
    <3>2. job[r] = "set" /\ out[r] = JobTimedOut
      BY <3>1, NilWindow DEF OInv, DeferredResponse
    <3> QED
      BY <3>1, <3>2 DEF DeathsExplained
  <2> QED
    BY <2>1, <2>2, <2>3
<1> QED
  BY <1>1, <1>2

\* Jobs outlive their calls by a timeout only, and the process dies in two
\* places only.
LEMMA OutlivedHolds == Spec => []OInv
<1>1. Init => OInv
  <2>1. Init => Outlived /\ DeathsExplained
    BY DEF Init, Outlived, Leaving, DeathsExplained
  <2> QED
    BY <2>1, InitIInv DEF OInv
<1>2. OInv /\ [Next]_vars => OInv'
  BY NextIInv, OutlivedNext, DeathsNext DEF OInv
<1> QED
  BY <1>1, <1>2, PTL DEF Spec

\* The deferred function of Call meets a nil response in one window only: the
\* handler of a call that timed out has won replyed and not yet run
\* setResponse.
THEOREM NilOnlyInWindow == Spec => []DeferredResponse
<1>1. OInv => DeferredResponse
  BY NilWindow DEF OInv
<1> QED
  BY <1>1, OutlivedHolds, PTL

\* The process dies only in that window, or in a lookup beside Register.
THEOREM DiesOnlyInWindows == Spec => []DeathsExplained
<1>1. OInv => DeathsExplained
  BY DEF OInv
<1> QED
  BY <1>1, OutlivedHolds, PTL

\* In the JSON binding the response of a method's own outbound call arrives
\* only after the method's call has timed out, was answered and reported: the
\* router that would deliver it is inside Call until then.
THEOREM CalloutsComeTooLate ==
    ASSUME Transport = "json"
    PROVE  Spec => CalloutsTooLate
<1> DEFINE Late ==
        \A r \in Requests :
            ResponseArrives(r) =>
                /\ pc[r] = "done" /\ out[r] = JobTimedOut
                /\ event[r] # NULL /\ event[r] = res[r]
<1>1. OInv => Late
  <2> SUFFICES ASSUME OInv, NEW r \in Requests, ResponseArrives(r)
               PROVE  /\ pc[r] = "done" /\ out[r] = JobTimedOut
                      /\ event[r] # NULL /\ event[r] = res[r]
    OBVIOUS
  <2>1. job[r] = "call" /\ pc[r] \in {"new", "done", "rejected"}
    BY DEF ResponseArrives, RouterFree
  <2>2. pc[r] = "done"
    BY <2>1 DEF OInv, IInv, ReplyProtocol, Won
  <2>3. out[r] = JobTimedOut
    BY <2>1, <2>2 DEF OInv, Outlived, Leaving, Working
  <2> QED
    BY <2>2, <2>3 DEF OInv, IInv, ReplyProtocol, Reported
<1>2. OInv /\ [Next]_vars => [Late]_vars
  BY <1>1
<1> QED
  BY <1>2, OutlivedHolds, PTL DEF Spec, CalloutsTooLate

-----------------------------------------------------------------------------
(* Server implements ReplyOnce.                                            *)

\* The two copies of the definitions of Reply agree.
LEMMA SameReply ==
    /\ Once!Response = Response
    /\ Once!BadRequest = BadRequest
    /\ \A v : Once!Encode(v) = Encode(v)
  BY DEF Once!Response, Response, Once!Cause, Cause, Once!Status, Status,
         Once!Payload, Payload, Once!BadRequest, BadRequest,
         Once!Encode, Encode, Once!MakeErrResponse, MakeErrResponse,
         Once!MakeOKResponse, MakeOKResponse, Once!ProtoBody, ProtoBody,
         Once!JsonBody, JsonBody

\* Every step of a request decides, publishes, reports or refuses once, or
\* changes nothing of what ReplyOnce speaks of.
LEMMA StepRefines ==
    ASSUME IInv, NEW r \in Requests, RequestStep(r)
    PROVE  [Once!Next]_(Once!vars)
<1> DEFINE Refused == {q \in Requests : pc[q] = "rejected"}
<1> USE DEF callVars, jobVars, ctxVars, serverVars
<1>0. Protocol(r) /\ TypeOK
  BY DEF IInv, ReplyProtocol, Protocol
<1>1. ASSUME UNCHANGED <<res, sent, event, Refused>>
      PROVE  UNCHANGED Once!vars
  BY <1>1 DEF Once!vars
<1>2. ASSUME NEW l \in PC, l # "rejected", pc[r] # "rejected",
             pc' = [pc EXCEPT ![r] = l]
      PROVE  UNCHANGED Refused
  BY <1>0, <1>2 DEF TypeOK
<1>3. CASE Reject(r)
  <2>1. Refused' = Refused \union {r} /\ r \notin Refused
    BY <1>0, <1>3 DEF Reject, TypeOK
  <2>2. res[r] = NULL /\ sent[r] = <<>> /\ event[r] = NULL
    BY <1>0, <1>3 DEF Reject, Protocol, Won, Stored, Sent, Reported
  <2>3. Once!Refuse(r)
    BY <1>3, <2>1, <2>2, SameReply DEF Reject, Once!Refuse
  <2> QED
    BY <2>3 DEF Once!Next
<1>4. CASE CallSet(r)
  <2>1. UNCHANGED Refused
    BY <1>2, <1>4 DEF CallSet, PC
  <2>2. res[r] = NULL /\ out[r] \in Response /\ r \notin Refused
    BY <1>0, <1>4 DEF CallSet, Protocol, Loaded, Stored
  <2>3. Once!Decide(r, out[r])
    BY <1>4, <2>1, <2>2 DEF CallSet, Once!Decide
  <2> QED
    BY <2>2, <2>3, SameReply DEF Once!Next
<1>5. CASE JobSet(r)
  <2>1. UNCHANGED Refused
    BY <1>5 DEF JobSet
  <2>2. res[r] = NULL /\ jobOut[r] \in Response /\ r \notin Refused
    BY <1>0, <1>5 DEF JobSet, Protocol, Loaded, Stored, Won
  <2>3. Once!Decide(r, jobOut[r])
    BY <1>5, <2>1, <2>2 DEF JobSet, Once!Decide
  <2> QED
    BY <2>2, <2>3, SameReply DEF Once!Next
<1>6. ASSUME NEW v \in Response, res[r] = v, sent[r] = <<>>, r \notin Refused,
             sent' = [sent EXCEPT ![r] = Publish(v, @)],
             UNCHANGED <<res, event, Refused>>
      PROVE  [Once!Next]_(Once!vars)
  <2>1. CASE Publishes(v)
    <3>1. sent' = [sent EXCEPT ![r] = <<Encode(v)>>]
      BY <1>6, <2>1, PublishOnce
    <3>2. Once!Publish(r)
      BY <1>6, <3>1, ResponseNotNull, SameReply DEF Once!Publish
    <3> QED
      BY <3>2 DEF Once!Next
  <2>2. CASE ~Publishes(v)
    <3>1. sent' = sent
      BY <1>0, <1>6, <2>2, PublishOnce DEF TypeOK
    <3> QED
      BY <1>1, <1>6, <3>1
  <2> QED
    BY <2>1, <2>2
<1>7. CASE CallSend(r)
  <2>1. UNCHANGED Refused
    BY <1>2, <1>7 DEF CallSend, PC
  <2>2. out[r] \in Response /\ res[r] = out[r] /\ sent[r] = <<>> /\ r \notin Refused
    BY <1>0, <1>7 DEF CallSend, Protocol, Loaded, Stored, Sent
  <2> QED
    BY <1>6, <1>7, <2>1, <2>2 DEF CallSend
<1>8. CASE JobSend(r)
  <2>1. UNCHANGED Refused
    BY <1>8 DEF JobSend
  <2>2. jobOut[r] \in Response /\ res[r] = jobOut[r] /\ sent[r] = <<>> /\ r \notin Refused
    BY <1>0, <1>8 DEF JobSend, Protocol, Loaded, Stored, Sent, Won
  <2> QED
    BY <1>6, <1>8, <2>1, <2>2 DEF JobSend
<1>9. CASE Deferred(r)
  <2>1. CASE res[r] = NULL
    BY <1>1, <1>9, <2>1 DEF Deferred, Emit
  <2>2. CASE res[r] # NULL
    <3>1. UNCHANGED Refused
      BY <1>2, <1>9, <2>2 DEF Deferred, Emit, PC
    <3>2. event[r] = NULL
      BY <1>0, <1>9 DEF Deferred, Emit, Protocol, Reported
    <3>3. Once!Report(r)
      BY <1>9, <2>2, <3>1, <3>2 DEF Deferred, Emit, Once!Report
    <3> QED
      BY <3>3 DEF Once!Next
  <2> QED
    BY <2>1, <2>2
<1>10. CASE \E m \in Methods : Receive(r, m)
  BY <1>1, <1>2, <1>10 DEF Receive, PC
<1>11. CASE LimitAllow(r) \/ Found(r) \/ CallReply(r) \/ Start(r)
  BY <1>1, <1>2, <1>11 DEF LimitAllow, Found, CallReply, Start, PC
<1>12. CASE LimitDeny(r) \/ NotFound(r) \/ Timeout(r)
  BY <1>1, <1>2, <1>12 DEF LimitDeny, NotFound, Timeout, ReplyWith, PC
<1>13. CASE JobReturned(r)
  BY <1>1, <1>2, <1>13 DEF JobReturned, PC
<1>14. CASE MapRace(r) \/ JobInterrupted(r) \/ HandlerEnd(r) \/ Callout(r)
            \/ \E v \in HandlerReplies : HandlerReply(r, v)
  BY <1>1, <1>14 DEF MapRace, JobInterrupted, HandlerEnd, HandlerReturn,
                     HandlerPanic, HandlerReply, JobReply, Callout,
                     HandlerCalls, ResponseArrives, CalloutExpires
<1> QED
  BY <1>3, <1>4, <1>5, <1>7, <1>8, <1>9, <1>10, <1>11, <1>12, <1>13, <1>14
  DEF RequestStep, CallStep, JobStep

\* Every step of the server is a step of ReplyOnce or a stutter.
LEMMA NextRefines == IInv /\ [Next]_vars => [Once!Next]_(Once!vars)
<1> SUFFICES ASSUME IInv, [Next]_vars
             PROVE  [Once!Next]_(Once!vars)
  OBVIOUS
<1>1. ASSUME NEW r \in Requests, RequestStep(r)
      PROVE  [Once!Next]_(Once!vars)
  BY <1>1, StepRefines
<1>2. ASSUME UNCHANGED <<callVars, ctxVars, event>>
      PROVE  UNCHANGED Once!vars
  BY <1>2 DEF Once!vars, callVars, ctxVars
<1>3. CASE Refill \/ RegisterEnd \/ \E m \in Methods : RegisterBegin(m)
  BY <1>2, <1>3 DEF Refill, RegisterBegin, RegisterEnd
<1>4. CASE UNCHANGED vars
  BY <1>2, <1>4 DEF vars
<1> QED
  BY <1>1, <1>3, <1>4 DEF Next, Halted

\* The server implements the one-shot reply: for each request one response is
\* decided, never changed, published at most once as it was decided, and
\* reported as it was decided.
THEOREM ImplementsReplyOnce == Spec => RepliesOnce
<1>1. Init => Once!Init
  BY DEF Init, Once!Init
<1> QED
  BY <1>1, NextRefines, ReplyProtocolHolds, PTL DEF Spec, RepliesOnce, Once!Spec

\* The answer, the recorded response and the event of a request are final: a
\* late result of a handler or a late timeout changes none of them.
THEOREM AnswersFinal == Spec => AnswerFinal
<1> DEFINE Final ==
        \A r \in Requests :
            /\ res[r] # NULL => res'[r] = res[r]
            /\ sent[r] # <<>> => sent'[r] = sent[r]
            /\ event[r] # NULL => event'[r] = event[r] /\ event[r] = res[r]
<1>1. IInv /\ [Next]_vars => [Final]_vars
  <2> SUFFICES ASSUME IInv, [Next]_vars
               PROVE  Final
    OBVIOUS
  <2>1. [Once!Next]_(Once!vars)
    BY NextRefines
  <2>2. \A r \in Requests : event[r] # NULL => event[r] = res[r]
    BY DEF IInv, ReplyProtocol, Reported
  <2>3. TypeOK
    BY DEF IInv
  <2>4. CASE Once!Next
    BY <2>2, <2>3, <2>4 DEF Once!Next, Once!Refuse, Once!Decide, Once!Publish,
                            Once!Report, TypeOK
  <2>5. CASE UNCHANGED Once!vars
    BY <2>2, <2>5 DEF Once!vars
  <2> QED
    BY <2>1, <2>4, <2>5
<1> QED
  BY <1>1, ReplyProtocolHolds, PTL DEF Spec, AnswerFinal
=============================================================================
