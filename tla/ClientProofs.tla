----------------------------- MODULE ClientProofs ------------------------------
(***************************************************************************)
(* TLAPS proofs about Client: for any number of calls and codecs, with and *)
(* without the pool, running calls do not share a codec, the response of   *)
(* another call comes from one that its context ended, and a call whose    *)
(* codec was never another call's returns what its own response says.      *)
(* Without the pool, as in the JSON binding, every call is such a call and *)
(* no reader sleeps beside a response: the client then implements          *)
(* CallOnce.                                                               *)
(***************************************************************************)
EXTENDS Client, TLAPS

Dialling == {"new", "hook", "codec"}
Reading == {"read", "recv", "data", "lookup", "fail", "body"}

\* A call has a codec, bound to a connection, from GetCodec on, and a reader
\* knows the connection it reads.
Coded ==
    \A c \in Calls :
        /\ pc[c] \in Dialling => reader[c] = "none" /\ codec[c] = NULL
        /\ pc[c] \notin Dialling =>
               codec[c] \in Codecs /\ codecConn[codec[c]] \in Calls
        /\ reader[c] \in Reading => source[c] \in Calls

\* The invariant of both bindings.
IInv == TypeOK /\ Coded /\ CodecExclusive

LEMMA InitIInv == Init => IInv
  BY ClientAssumption
  DEF Init, IInv, TypeOK, Coded, CodecExclusive, Live, Outcome, Answer, Dialling,
      Reading

-----------------------------------------------------------------------------
(* Types.                                                                  *)

\* Whatever callers, readers and the network do, no variable leaves its type.
LEMMA TypeNext ==
    ASSUME IInv, [Next]_vars
    PROVE  TypeOK'
<1> USE DEF TypeOK, At, ReaderAt, callVars, rpcVars, codecVars, connVars,
            subVars, netVars, linkVars
<1>0. TypeOK
  BY DEF IInv
<1>00. ASSUME NEW c \in Calls
       PROVE  [routed EXCEPT ![c] = connected] \in [Calls -> BOOLEAN]
  <2>1. routed \in [Calls -> BOOLEAN] /\ connected \in BOOLEAN
    BY <1>0
  <2> HIDE DEF TypeOK
  <2> QED
    BY <2>1, Zenon
<1>1. ASSUME NEW c \in Calls, Dial(c) \/ Hook(c)
      PROVE  TypeOK'
  <2>1. CASE Dial(c)
    BY <1>0, <1>00, <2>1 DEF Dial
  <2>2. CASE Hook(c)
    BY <1>0, <2>2 DEF Hook
  <2> QED
    BY <1>1, <2>1, <2>2
<1>2. ASSUME NEW c \in Calls, NEW k \in Codecs, GetCodec(c, k)
      PROVE  TypeOK'
  BY <1>0, <1>2 DEF GetCodec
<1>3. ASSUME NEW c \in Calls, Send(c)
      PROVE  TypeOK'
  BY <1>0, <1>3 DEF Send, WriteRequest, Written, Outcome
<1>4. ASSUME NEW c \in Calls, Return(c) \/ Deadline(c)
      PROVE  TypeOK'
  BY <1>0, <1>4 DEF Return, Deadline, Outcome
<1>5. ASSUME NEW c \in Calls, Close(c) \/ Unsubscribe(c) \/ Put(c)
      PROVE  TypeOK'
  <2>1. CASE Close(c) \/ Unsubscribe(c)
    BY <1>0, <2>1 DEF Close, Unsubscribe
  <2>2. CASE Put(c)
    <3>1. codec[c] \in Codecs
      BY <2>2 DEF Put, IInv, Coded, Dialling
    <3> QED
      BY <1>0, <2>2, <3>1 DEF Put
  <2> QED
    BY <1>5, <2>1, <2>2
<1>6. ASSUME NEW c \in Calls, Head(c) \/ Read(c) \/ Receive(c)
      PROVE  TypeOK'
  <2>1. reader[c] # "none" => codec[c] \in Codecs /\ codecConn[codec[c]] \in Calls
    BY DEF IInv, Coded
  <2> QED
    BY <1>0, <1>6, <2>1 DEF Head, Read, Receive
<1>7. ASSUME NEW c \in Calls,
             EndOfFile(c) \/ Unmarshal(c) \/ Undecodable(c) \/ Lookup(c)
      PROVE  TypeOK'
  <2>1. CASE EndOfFile(c)
    BY <1>0, <2>1 DEF EndOfFile, Terminate, Outcome
  <2>2. CASE Unmarshal(c)
    BY <1>0, <2>2 DEF Unmarshal, ReadAll
  <2>3. CASE Undecodable(c)
    <3>1. PICK r \in Calls \union {NULL} :
            codecRes' = [codecRes EXCEPT ![codec[c]] = r]
      BY <1>0, <2>3 DEF Undecodable
    <3> QED
      BY <1>0, <2>3, <3>1 DEF Undecodable, ReadAll, Terminate, Outcome
  <2>4. CASE Lookup(c)
    <3>1. PICK l \in {"head", "fail", "body"} : reader' = [reader EXCEPT ![c] = l]
      BY <2>4, Zenon DEF Lookup
    <3> QED
      BY <1>0, <2>4, <3>1 DEF Lookup
  <2> QED
    BY <1>7, <2>1, <2>2, <2>3, <2>4
<1>8. ASSUME NEW c \in Calls, Fail(c) \/ Body(c)
      PROVE  TypeOK'
  <2>1. reader[c] # "none" => codec[c] \in Codecs
    BY DEF IInv, Coded
  <2>2. \A k \in Codecs : Decoded(codecRes[k]) \subseteq Outcome
    BY <1>0 DEF Decoded, Outcome
  <2> QED
    BY <1>0, <1>8, <2>1, <2>2 DEF Fail, Body, Finish, Outcome
<1>9. ASSUME NEW c \in Calls, NetStep(c)
      PROVE  TypeOK'
  <2>1. CASE Deliver(c)
    BY <1>0, <2>1 DEF Deliver
  <2>2. CASE SendOnClosed(c)
    BY <1>0, <2>2 DEF SendOnClosed
  <2>3. CASE \E a \in Answers[c] : Respond(c, a)
    <3>1. PICK a \in Answer : answer' = [answer EXCEPT ![c] = a]
      BY <2>3, ClientAssumption DEF Respond, Answer
    <3> QED
      BY <1>0, <2>3, <3>1 DEF Respond
  <2>4. CASE Resubscribe(c)
    BY <1>0, <1>00, <2>4 DEF Resubscribe
  <2> QED
    BY <1>9, <2>1, <2>2, <2>3, <2>4 DEF NetStep
<1>10. CASE Drop \/ Connect
  <2>1. CASE Drop
    <3>1. drops' \in 0 .. MaxDrops
      BY <1>0, <2>1, ClientAssumption DEF Drop
    <3>2. routed' \in [Calls -> BOOLEAN]
      BY <2>1 DEF Drop
    <3> QED
      BY <1>0, <2>1, <3>1, <3>2 DEF Drop
  <2>2. CASE Connect
    BY <1>0, <2>2 DEF Connect
  <2> QED
    BY <1>10, <2>1, <2>2
<1>11. CASE Halted \/ Finished \/ UNCHANGED vars
  BY <1>0, <1>11 DEF Halted, Finished, vars
<1> QED
  BY <1>1, <1>2, <1>3, <1>4, <1>5, <1>6, <1>7, <1>8, <1>9, <1>10, <1>11
  DEF Next, CallerStep, ReaderStep

\* A codec that is in use stays bound.
LEMMA CodedNext ==
    ASSUME IInv, [Next]_vars
    PROVE  Coded'
<1> USE ClientAssumption
    DEF IInv, TypeOK, Coded, Dialling, Reading, At, ReaderAt, callVars, rpcVars,
        codecVars
<1>1. ASSUME NEW c \in Calls, CallerStep(c)
      PROVE  Coded'
  <2>1. ASSUME NEW k \in Codecs, GetCodec(c, k)
        PROVE  Coded'
    BY <2>1 DEF GetCodec
  <2>2. CASE Dial(c) \/ Hook(c) \/ Send(c)
    BY <2>2 DEF Dial, Hook, Send, WriteRequest
  <2>3. CASE Return(c) \/ Deadline(c) \/ Close(c) \/ Unsubscribe(c) \/ Put(c)
    BY <2>3 DEF Return, Deadline, Close, Unsubscribe, Put
  <2> QED
    BY <1>1, <2>1, <2>2, <2>3 DEF CallerStep
<1>2. ASSUME NEW c \in Calls, ReaderStep(c)
      PROVE  Coded'
  <2>1. CASE Head(c) \/ Read(c) \/ Receive(c) \/ EndOfFile(c)
    BY <2>1 DEF Head, Read, Receive, EndOfFile, Terminate
  <2>2. CASE Unmarshal(c) \/ Undecodable(c)
    BY <2>2 DEF Unmarshal, Undecodable, ReadAll, Terminate
  <2>3. CASE Lookup(c) \/ Fail(c) \/ Body(c)
    BY <2>3 DEF Lookup, Fail, Body, Finish
  <2> QED
    BY <1>2, <2>1, <2>2, <2>3 DEF ReaderStep
<1>3. ASSUME NEW c \in Calls, NetStep(c)
      PROVE  Coded'
  BY <1>3 DEF NetStep, Deliver, SendOnClosed, Respond, Resubscribe
<1>4. CASE Drop \/ Connect \/ Halted \/ Finished \/ UNCHANGED vars
  BY <1>4 DEF Drop, Connect, Halted, Finished, vars
<1> QED
  BY <1>1, <1>2, <1>3, <1>4 DEF Next

-----------------------------------------------------------------------------
(* The pool.                                                               *)

\* The codec that a call gets is in the pool or new, and so no running call's.
LEMMA ExclusiveNext ==
    ASSUME IInv, [Next]_vars
    PROVE  CodecExclusive'
<1> USE ClientAssumption
    DEF IInv, TypeOK, Coded, Dialling, CodecExclusive, Live, At, ReaderAt,
        callVars, rpcVars, codecVars, connVars
<1>1. ASSUME NEW c \in Calls, NEW k \in Codecs, GetCodec(c, k)
      PROVE  CodecExclusive'
  <2>1. \A d \in Calls : Live(d) => codec[d] # k
    BY <1>1 DEF GetCodec, Available, Fresh
  <2> QED
    BY <1>1, <2>1 DEF GetCodec
<1>2. ASSUME NEW c \in Calls, Put(c)
      PROVE  CodecExclusive'
  BY <1>2 DEF Put
<1>3. ASSUME NEW c \in Calls,
             Send(c) \/ Return(c) \/ Deadline(c) \/ Close(c) \/ Unsubscribe(c)
      PROVE  CodecExclusive'
  BY <1>3 DEF Send, Return, Deadline, Close, Unsubscribe
<1>4. ASSUME NEW c \in Calls, Dial(c) \/ Hook(c)
      PROVE  CodecExclusive'
  BY <1>4 DEF Dial, Hook
<1>5. CASE UNCHANGED <<pc, codec, codecConn, pool>>
  BY <1>5
<1>6. ASSUME NEW c \in Calls, ReaderStep(c) \/ NetStep(c)
      PROVE  UNCHANGED <<pc, codec, codecConn, pool>>
  BY <1>6 DEF ReaderStep, Head, Read, Receive, EndOfFile, Terminate, Unmarshal,
              Undecodable, Lookup, Fail, Body, Finish, NetStep, Deliver, SendOnClosed,
              Respond, Resubscribe
<1>7. CASE Drop \/ Connect \/ Halted \/ Finished \/ UNCHANGED vars
  BY <1>5, <1>7 DEF Drop, Connect, Halted, Finished, vars
<1> QED
  BY <1>1, <1>2, <1>3, <1>4, <1>5, <1>6, <1>7 DEF Next, CallerStep

LEMMA NextIInv ==
    ASSUME IInv, [Next]_vars
    PROVE  IInv'
  BY TypeNext, CodedNext, ExclusiveNext DEF IInv

\* The invariant of both bindings holds in every reachable state.
THEOREM CodecsHold == Spec => []IInv
  BY InitIInv, NextIInv, PTL DEF Spec

\* Every variable stays in its type.
THEOREM TypeCorrect == Spec => []TypeOK
<1>1. IInv => TypeOK
  BY DEF IInv
<1> QED
  BY <1>1, CodecsHold, PTL

\* A running call shares its codec with no running call and not with the pool.
THEOREM CodecsExclusive == Spec => []CodecExclusive
<1>1. IInv => CodecExclusive
  BY DEF IInv
<1> QED
  BY <1>1, CodecsHold, PTL

-----------------------------------------------------------------------------
(* With the pool: where the response of another call can come from.        *)

Unsent == {"new", "hook", "codec", "send"}

\* The response has arrived and some reader has taken it.
Spent(c) == ready[c] /\ ~unread[c]

\* A running call's reader stays on the call's connection; a call that sent a
\* request and has an outcome other than its context's end has no response left
\* on its connection.
Own(c) ==
    /\ pc[c] \in Unsent => net[c] = "none" /\ done[c] = "none" /\ ~pending[c]
    /\ ready[c] => net[c] = "gone"
    /\ unread[c] => ready[c]
    /\ pc[c] \in {"close", "unsub", "put", "returned"} <=> result[c] # "none"
    /\ done[c] # "ctx" /\ (result[c] = "ctx" => c \in Deadlines)
    /\ pc[c] \notin {"unsub", "put", "returned"} => open[c]
    /\ reader[c] = "data" => ready[source[c]]
    /\ router = c => ready[c]
    /\ (Live(c) /\ reader[c] \in Reading) => source[c] = c
    /\ (Live(c) /\ reader[c] \in {"lookup", "fail", "body"}) => Spent(c)
    /\ (pc[c] = "wait" /\ done[c] \notin {"none", "encode"}) => Spent(c)
    /\ result[c] \notin {"none", "ctx", "encode"} => Spent(c)
    /\ "encode" \in {done[c], result[c]} => net[c] = "none"

\* Whatever a codec is bound to, was read from or holds, belongs to a call
\* that has or had this codec.
Tied ==
    /\ \A c \in Calls :
        source[c] # NULL => codec[c] # NULL /\ codec[source[c]] = codec[c]
    /\ \A k \in Codecs : codecConn[k] # NULL => codec[codecConn[k]] = k
    /\ \A k \in Codecs :
        codecRes[k] # NULL => codec[codecRes[k]] = k /\ Spent(codecRes[k])

\* A response in a running call's codec that is not its own was left on the
\* connection of a call that its context ended.
LateOnly(c) ==
    /\ (Live(c) /\ reader[c] \in {"lookup", "body"}
        /\ codecRes[codec[c]] \notin {NULL, c}) =>
            result[codecRes[codec[c]]] = "ctx"
    /\ (pc[c] = "wait" /\ done[c] \in Calls \ {c}) =>
            result[done[c]] = "ctx" /\ codec[done[c]] = codec[c]
    /\ result[c] \in Calls \ {c} =>
            result[result[c]] = "ctx" /\ codec[result[c]] = codec[c]

LInv ==
    /\ IInv
    /\ \A c \in Calls : Own(c)
    /\ Tied
    /\ \A c \in Calls : LateOnly(c)

LEMMA InitLInv == Init => LInv
<1> SUFFICES ASSUME Init PROVE LInv
  OBVIOUS
<1>1. ASSUME NEW c \in Calls
      PROVE  Own(c) /\ LateOnly(c)
  BY ClientAssumption DEF Init, Own, LateOnly, Unsent, Spent, Live, Reading
<1>2. Tied
  BY DEF Init, Tied
<1> QED
  BY <1>1, <1>2, InitIInv DEF LInv

\* A step of a call, for the call.
LEMMA OwnNext ==
    ASSUME LInv, NEW c \in Calls,
           CallerStep(c) \/ ReaderStep(c) \/ NetStep(c)
    PROVE  Own(c)'
<1> USE ClientAssumption
    DEF LInv, IInv, TypeOK, Coded, Dialling, Reading, Unsent, CodecExclusive,
        Live, Own, Spent, At, ReaderAt, callVars, rpcVars, codecVars, connVars,
        subVars, netVars, linkVars
<1>1. CASE Dial(c) \/ Hook(c)
  BY <1>1 DEF Dial, Hook
<1>2. ASSUME NEW k \in Codecs, GetCodec(c, k)
      PROVE  Own(c)'
  BY <1>2 DEF GetCodec
<1>3. CASE Send(c)
  BY <1>3 DEF Send, WriteRequest, Written
<1>4. CASE Return(c) \/ Deadline(c)
  BY <1>4 DEF Return, Deadline
<1>5. CASE Close(c) \/ Unsubscribe(c) \/ Put(c)
  BY <1>5 DEF Close, Unsubscribe, Put
<1>6. CASE Head(c) \/ Read(c) \/ Receive(c)
  BY <1>6 DEF Head, Read, Receive
<1>7. CASE EndOfFile(c)
  BY <1>7 DEF EndOfFile, Terminate
<1>8. CASE Unmarshal(c)
  BY <1>8 DEF Unmarshal, ReadAll
<1>9. CASE Undecodable(c)
  BY <1>9 DEF Undecodable, ReadAll, Terminate
<1>10. CASE Lookup(c) \/ Fail(c) \/ Body(c)
  BY <1>10 DEF Lookup, Fail, Body, Finish, Decoded
<1>11. CASE NetStep(c)
  BY <1>11 DEF NetStep, Deliver, SendOnClosed, Respond, Resubscribe
<1> QED
  BY <1>1, <1>2, <1>3, <1>4, <1>5, <1>6, <1>7, <1>8, <1>9, <1>10, <1>11
  DEF CallerStep, ReaderStep

\* A step of another call, whose reader may be on this call's connection.
LEMMA OwnOther ==
    ASSUME LInv, NEW c \in Calls, NEW d \in Calls, c # d,
           CallerStep(d) \/ ReaderStep(d) \/ NetStep(d)
    PROVE  Own(c)'
<1> USE ClientAssumption
    DEF LInv, IInv, TypeOK, Coded, Dialling, Reading, Unsent, CodecExclusive,
        Live, Own, Spent, At, ReaderAt, callVars, rpcVars, codecVars, connVars,
        subVars, netVars, linkVars
<1>1. CASE Dial(d) \/ Hook(d)
  BY <1>1 DEF Dial, Hook
<1>2. ASSUME NEW k \in Codecs, GetCodec(d, k)
      PROVE  Own(c)'
  BY <1>2 DEF GetCodec
<1>3. CASE Send(d)
  BY <1>3 DEF Send, WriteRequest, Written
<1>4. CASE Return(d) \/ Deadline(d)
  BY <1>4 DEF Return, Deadline
<1>5. CASE Close(d) \/ Unsubscribe(d) \/ Put(d)
  BY <1>5 DEF Close, Unsubscribe, Put
<1>6. CASE Head(d) \/ Read(d) \/ Receive(d)
  BY <1>6 DEF Head, Read, Receive
<1>7. CASE EndOfFile(d)
  BY <1>7 DEF EndOfFile, Terminate
<1>8. CASE Unmarshal(d)
  BY <1>8 DEF Unmarshal, ReadAll
<1>9. CASE Undecodable(d)
  BY <1>9 DEF Undecodable, ReadAll, Terminate
<1>10. CASE Lookup(d) \/ Fail(d) \/ Body(d)
  BY <1>10 DEF Lookup, Fail, Body, Finish, Decoded
<1>11. CASE NetStep(d)
  BY <1>11 DEF NetStep, Deliver, SendOnClosed, Respond, Resubscribe
<1> QED
  BY <1>1, <1>2, <1>3, <1>4, <1>5, <1>6, <1>7, <1>8, <1>9, <1>10, <1>11
  DEF CallerStep, ReaderStep

\* Binding a codec, reading and unmarshalling stay among the codec's calls.
LEMMA TiedNext ==
    ASSUME LInv, NEW c \in Calls,
           CallerStep(c) \/ ReaderStep(c) \/ NetStep(c)
    PROVE  Tied'
<1> USE ClientAssumption
    DEF LInv, IInv, TypeOK, Coded, Dialling, Reading, Own, Tied, Spent, At,
        ReaderAt, callVars, rpcVars, codecVars, connVars, subVars, netVars,
        linkVars
<1>1. CASE UNCHANGED <<source, codec, codecConn, codecRes, ready, unread>>
  BY <1>1
<1>2. ASSUME NEW k \in Codecs, GetCodec(c, k)
      PROVE  Tied'
  BY <1>2 DEF GetCodec
<1>3. CASE Head(c)
  BY <1>3 DEF Head
<1>4. CASE Unmarshal(c) \/ Undecodable(c)
  BY <1>4 DEF Unmarshal, Undecodable, ReadAll, Terminate
<1>5. CASE Deliver(c)
  BY <1>5 DEF Deliver
<1> QED
  BY <1>1, <1>2, <1>3, <1>4, <1>5 DEF CallerStep, Dial, Hook, Send,
     WriteRequest, Return, Deadline, Close, Unsubscribe, Put, ReaderStep, Read,
     Receive, EndOfFile, Terminate, Lookup, Fail, Body, Finish, NetStep,
     SendOnClosed, Respond, Resubscribe

\* Only the reader of a call that ended early still finds a response of its
\* own for a codec that another call has.
LEMMA LateNext ==
    ASSUME LInv, NEW c \in Calls, NEW d \in Calls,
           CallerStep(d) \/ ReaderStep(d) \/ NetStep(d)
    PROVE  LateOnly(c)'
<1> USE ClientAssumption
    DEF LInv, IInv, TypeOK, Coded, Dialling, Reading, Unsent, CodecExclusive,
        Live, Own, Tied, LateOnly, Spent, At, ReaderAt, callVars, rpcVars,
        codecVars, connVars, subVars, netVars, linkVars
<1>1. CASE Dial(d) \/ Hook(d) \/ Send(d)
  BY <1>1 DEF Dial, Hook, Send, WriteRequest
<1>2. ASSUME NEW k \in Codecs, GetCodec(d, k)
      PROVE  LateOnly(c)'
  BY <1>2 DEF GetCodec
<1>3. CASE Return(d)
  BY <1>3 DEF Return
<1>4. CASE Deadline(d)
  BY <1>4 DEF Deadline
<1>5. CASE Close(d) \/ Unsubscribe(d) \/ Put(d)
  BY <1>5 DEF Close, Unsubscribe, Put
<1>6. CASE Head(d) \/ Read(d) \/ Receive(d)
  BY <1>6 DEF Head, Read, Receive
<1>7. CASE EndOfFile(d)
  BY <1>7 DEF EndOfFile, Terminate
<1>8. CASE Unmarshal(d)
  BY <1>8 DEF Unmarshal, ReadAll
<1>9. CASE Undecodable(d)
  BY <1>9 DEF Undecodable, ReadAll, Terminate
<1>10. CASE Lookup(d) \/ Fail(d) \/ Body(d)
  BY <1>10 DEF Lookup, Fail, Body, Finish, Decoded
<1>11. CASE NetStep(d)
  BY <1>11 DEF NetStep, Deliver, SendOnClosed, Respond, Resubscribe
<1> QED
  BY <1>1, <1>2, <1>3, <1>4, <1>5, <1>6, <1>7, <1>8, <1>9, <1>10, <1>11
  DEF CallerStep, ReaderStep

LEMMA NextLInv ==
    ASSUME LInv, [Next]_vars
    PROVE  LInv'
<1>1. IInv'
  BY NextIInv DEF LInv
<1>2. ASSUME NEW d \in Calls, CallerStep(d) \/ ReaderStep(d) \/ NetStep(d)
      PROVE  LInv'
  <2>1. \A c \in Calls : Own(c)'
    BY <1>2, OwnNext, OwnOther
  <2>2. Tied'
    BY <1>2, TiedNext
  <2>3. \A c \in Calls : LateOnly(c)'
    BY <1>2, LateNext
  <2> QED
    BY <1>1, <2>1, <2>2, <2>3 DEF LInv
<1>3. CASE UNCHANGED <<callVars, rpcVars, codecVars, connVars, router, netVars>>
  <2> USE <1>3 DEF LInv, callVars, rpcVars, codecVars, connVars, netVars
  <2>1. ASSUME NEW c \in Calls
        PROVE  Own(c)' /\ LateOnly(c)'
    BY DEF Own, LateOnly, Spent, Live
  <2>2. Tied'
    BY DEF Tied, Spent
  <2> QED
    BY <1>1, <2>1, <2>2
<1>4. CASE Drop \/ Connect \/ Halted \/ Finished \/ UNCHANGED vars
  BY <1>3, <1>4 DEF Drop, Connect, Halted, Finished, vars
<1> QED
  BY <1>2, <1>4 DEF Next

\* Hence the invariant holds in every reachable state.
LEMMA LateHolds == Spec => []LInv
<1>1. LInv /\ [Next]_vars => LInv'
  BY NextLInv
<1> QED
  BY <1>1, InitLInv, PTL DEF Spec

\* In both bindings a call gets the response of another call only from a call
\* that was ended by its context and had the same codec.
THEOREM ForeignIsLate == Spec => []ForeignOnlyLate
<1>1. LInv => ForeignOnlyLate
  BY DEF LInv, LateOnly, ForeignOnlyLate
<1> QED
  BY <1>1, LateHolds, PTL

\* So with the pool, too, the calls keep apart as long as no context ends.
THEOREM NoContextNoForeign ==
    ASSUME Deadlines = {}
    PROVE  Spec => []NoForeignReply
<1>1. LInv => NoForeignReply
  BY DEF LInv, Own, LateOnly, NoForeignReply
<1> QED
  BY <1>1, LateHolds, PTL

-----------------------------------------------------------------------------
(* A codec that stays one call's.                                          *)

\* What a call with a codec of its own gets comes from its own response: its
\* reader takes the response to the pending call and nothing else, and the
\* connection does not end under it.
Faithful(c) ==
    /\ (ready[c] /\ ~unread[c] /\ pending[c]) => reader[c] = "lookup"
    /\ reader[c] = "lookup" => answer[c] # "garbled"
    /\ reader[c] \in {"lookup", "fail", "body"} =>
           codecRes[codec[c]] = c /\ ready[c]
    /\ reader[c] = "fail" => answer[c] = "error"
    /\ reader[c] = "body" => answer[c] \in {"ok", "unfit"}
    /\ done[c] = "eof" => ~open[c]
    /\ done[c] \notin {"none", "eof", "encode"} => ready[c] /\ done[c] = Due(c)
    /\ result[c] \notin {"none", "ctx", "encode"} =>
           ready[c] /\ result[c] = Due(c)

AInv == LInv /\ \A c \in Calls : codec[c] # NULL /\ Alone(c) => Faithful(c)

LEMMA InitAInv == Init => AInv
<1>1. Init => \A c \in Calls : codec[c] = NULL
  BY DEF Init
<1> QED
  BY <1>1, InitLInv DEF AInv

\* Nothing of a call with a codec of its own is in another call's hands.
LEMMA Apart ==
    ASSUME LInv, NEW c \in Calls, codec[c] # NULL, Alone(c)
    PROVE  /\ codec[c] \in Codecs
           /\ codecConn[codec[c]] = c
           /\ codecRes[codec[c]] \in {NULL, c}
           /\ source[c] \in {NULL, c}
           /\ \A d \in Calls \ {c} : source[d] # c
  BY ClientAssumption DEF LInv, IInv, TypeOK, Coded, Tied, Alone

\* A call that has a codec and has it alone after a step had so before, or has
\* just got it.
LEMMA AloneBefore ==
    ASSUME LInv, NEW c \in Calls, NEW d \in Calls,
           CallerStep(d) \/ ReaderStep(d) \/ NetStep(d),
           codec'[c] # NULL, Alone(c)'
    PROVE  \/ codec[c] # NULL /\ Alone(c) /\ codec'[c] = codec[c]
           \/ codec[c] = NULL /\ c = d /\ \E k \in Codecs : GetCodec(c, k)
<1> USE ClientAssumption
    DEF LInv, IInv, TypeOK, Coded, Dialling, Alone, At, ReaderAt
<1>1. ASSUME NEW k \in Codecs, GetCodec(d, k)
      PROVE  /\ codec[d] = NULL /\ codec' = [codec EXCEPT ![d] = k]
  BY <1>1 DEF GetCodec
<1>2. CASE \E k \in Codecs : GetCodec(d, k)
  BY <1>1, <1>2
<1>3. CASE codec' = codec
  BY <1>3
<1> QED
  BY <1>2, <1>3 DEF CallerStep, Dial, Hook, Send, Return, Deadline, Close,
     Unsubscribe, Put, ReaderStep, Head, Read, Receive, EndOfFile, Terminate,
     Unmarshal, Undecodable, Lookup, Fail, Body, Finish, NetStep, Deliver,
     SendOnClosed, Respond, Resubscribe, codecVars

\* A step of the call itself.
LEMMA FaithfulNext ==
    ASSUME AInv, NEW c \in Calls,
           CallerStep(c) \/ ReaderStep(c) \/ NetStep(c),
           codec[c] # NULL, Alone(c)
    PROVE  Faithful(c)'
<1>0. Faithful(c)
  BY DEF AInv
<1>00. /\ codec[c] \in Codecs
       /\ codecConn[codec[c]] = c
       /\ codecRes[codec[c]] \in {NULL, c}
       /\ source[c] \in {NULL, c}
  BY Apart DEF AInv
<1> USE <1>0, <1>00, ClientAssumption
    DEF AInv, LInv, IInv, TypeOK, Coded, Dialling, Reading, Unsent, Own, Spent,
        Live, Faithful, Due, Answer, At, ReaderAt, callVars, rpcVars,
        codecVars, connVars, subVars, netVars, linkVars
<1>1. CASE Dial(c) \/ Hook(c) \/ \E k \in Codecs : GetCodec(c, k)
  BY <1>1 DEF Dial, Hook, GetCodec
<1>3. CASE Send(c)
  BY <1>3 DEF Send, WriteRequest, Written
<1>4. CASE Return(c) \/ Deadline(c)
  BY <1>4 DEF Return, Deadline
<1>5. CASE Close(c) \/ Unsubscribe(c) \/ Put(c)
  BY <1>5 DEF Close, Unsubscribe, Put
<1>6. CASE Head(c) \/ Read(c) \/ Receive(c)
  BY <1>6 DEF Head, Read, Receive
<1>7. CASE EndOfFile(c)
  BY <1>7 DEF EndOfFile, Terminate
<1>8. CASE Unmarshal(c)
  BY <1>8 DEF Unmarshal, ReadAll
<1>9. CASE Undecodable(c)
  BY <1>9 DEF Undecodable, ReadAll, Terminate
<1>10. CASE Lookup(c)
  <2>1. codecRes[codec[c]] = c /\ answer[c] # "garbled" /\ c # NULL
    BY <1>10 DEF Lookup
  <2>2. reader' = [reader EXCEPT ![c] =
                     IF ~pending[c] THEN "head"
                     ELSE IF answer[c] = "error" THEN "fail" ELSE "body"]
    <3> HIDE <1>0, <1>00 DEF AInv, LInv, IInv, TypeOK, Coded, Own, Faithful, Due
    <3>1. HasError(codecRes[codec[c]]) = {answer[c] = "error"}
      BY <2>1, Zenon DEF HasError
    <3> QED
      BY <1>10, <3>1, Zenon DEF Lookup
  <2> QED
    BY <1>10, <2>1, <2>2 DEF Lookup
<1>11. CASE Fail(c) \/ Body(c)
  BY <1>11 DEF Fail, Body, Finish, Decoded
<1>12. CASE NetStep(c)
  BY <1>12 DEF NetStep, Deliver, SendOnClosed, Respond, Resubscribe
<1> QED
  BY <1>1, <1>3, <1>4, <1>5, <1>6, <1>7, <1>8, <1>9, <1>10, <1>11, <1>12
  DEF CallerStep, ReaderStep

\* A step of another call does not reach it: that call has another codec and
\* reads another connection.
LEMMA FaithfulOther ==
    ASSUME AInv, NEW c \in Calls, NEW d \in Calls, c # d,
           CallerStep(d) \/ ReaderStep(d) \/ NetStep(d),
           codec[c] # NULL, Alone(c), Alone(c)'
    PROVE  Faithful(c)'
<1>0. Faithful(c)
  BY DEF AInv
<1>00. codec[c] \in Codecs /\ source[d] # c /\ codec[d] # codec[c]
  BY Apart DEF AInv, Alone
<1> USE <1>0, <1>00, ClientAssumption
    DEF AInv, LInv, IInv, TypeOK, Coded, Dialling, Reading, Faithful, Due, At,
        ReaderAt, callVars, rpcVars, codecVars, connVars, subVars, netVars,
        linkVars
<1>1. CASE Dial(d) \/ Hook(d)
  BY <1>1 DEF Dial, Hook
<1>2. ASSUME NEW k \in Codecs, GetCodec(d, k)
      PROVE  Faithful(c)'
  BY <1>2 DEF GetCodec
<1>3. CASE Send(d)
  BY <1>3 DEF Send, WriteRequest
<1>4. CASE Return(d) \/ Deadline(d)
  BY <1>4 DEF Return, Deadline
<1>5. CASE Close(d) \/ Unsubscribe(d) \/ Put(d)
  BY <1>5 DEF Close, Unsubscribe, Put
<1>6. CASE Head(d) \/ Read(d) \/ Receive(d)
  BY <1>6 DEF Head, Read, Receive
<1>7. CASE EndOfFile(d)
  BY <1>7 DEF EndOfFile, Terminate
<1>8. CASE Unmarshal(d)
  BY <1>8 DEF Unmarshal, ReadAll
<1>9. CASE Undecodable(d)
  BY <1>9 DEF Undecodable, ReadAll, Terminate
<1>10. CASE Lookup(d) \/ Fail(d) \/ Body(d)
  BY <1>10 DEF Lookup, Fail, Body, Finish
<1>11. CASE NetStep(d)
  BY <1>11 DEF NetStep, Deliver, SendOnClosed, Respond, Resubscribe
<1> QED
  BY <1>1, <1>2, <1>3, <1>4, <1>5, <1>6, <1>7, <1>8, <1>9, <1>10, <1>11
  DEF CallerStep, ReaderStep

LEMMA NextAInv ==
    ASSUME AInv, [Next]_vars
    PROVE  AInv'
<1>1. LInv'
  BY NextLInv DEF AInv
<1>2. ASSUME NEW c \in Calls, codec'[c] # NULL, Alone(c)'
      PROVE  Faithful(c)'
  <2>1. ASSUME NEW d \in Calls, CallerStep(d) \/ ReaderStep(d) \/ NetStep(d)
        PROVE  Faithful(c)'
    <3>1. CASE codec[c] # NULL /\ Alone(c)
      BY <1>2, <2>1, <3>1, FaithfulNext, FaithfulOther
    <3>2. ASSUME NEW k \in Codecs, GetCodec(c, k), codec[c] = NULL
          PROVE  Faithful(c)'
      BY <3>2, ClientAssumption
      DEF AInv, LInv, IInv, TypeOK, Own, Unsent, Spent, GetCodec, Faithful, At,
          callVars, rpcVars, connVars, netVars
    <3> QED
      BY <1>2, <2>1, <3>1, <3>2, AloneBefore DEF AInv
  <2>2. CASE UNCHANGED <<callVars, rpcVars, codecVars, connVars, router, netVars>>
    BY <1>2, <2>2 DEF AInv, Alone, Faithful, Due, callVars, rpcVars, codecVars,
                      connVars, netVars
  <2>3. CASE Drop \/ Connect \/ Halted \/ Finished \/ UNCHANGED vars
    BY <2>2, <2>3 DEF Drop, Connect, Halted, Finished, vars
  <2> QED
    BY <2>1, <2>3 DEF Next
<1> QED
  BY <1>1, <1>2 DEF AInv

LEMMA FaithfulHolds == Spec => []AInv
<1>1. AInv /\ [Next]_vars => AInv'
  BY NextAInv
<1> QED
  BY <1>1, InitAInv, PTL DEF Spec

\* In both bindings a call returns what its own response says unless its codec
\* also was another call's, its context ended or it sent nothing.
THEOREM OwnWhenAlone == Spec => []OwnUnlessReused
<1>1. AInv => OwnUnlessReused
  <2> SUFFICES ASSUME AInv, NEW c \in Calls, Alone(c),
                      result[c] \notin {"none", "ctx", "encode"}
               PROVE  ready[c] /\ result[c] = Due(c)
    BY DEF OwnUnlessReused
  <2>1. codec[c] # NULL
    BY ClientAssumption DEF AInv, LInv, IInv, Coded, Own, Dialling
  <2> QED
    BY <2>1 DEF AInv, Faithful
<1> QED
  BY <1>1, FaithfulHolds, PTL

-----------------------------------------------------------------------------
(* Without the pool: every codec stays one call's.                         *)

UInv == AInv /\ \A c \in Calls : codec[c] # NULL => Alone(c)

LEMMA InitUInv == Init => UInv
<1>1. Init => \A c \in Calls : codec[c] = NULL
  BY DEF Init
<1> QED
  BY <1>1, InitAInv DEF UInv

LEMMA NextUInv ==
    ASSUME ~Pooled, UInv, [Next]_vars
    PROVE  UInv'
<1>1. AInv'
  BY NextAInv DEF UInv
<1> USE ClientAssumption
    DEF UInv, AInv, LInv, IInv, TypeOK, Coded, Dialling, Alone, At, ReaderAt
<1>2. CASE codec' = codec
  BY <1>1, <1>2
<1>3. ASSUME NEW c \in Calls, NEW k \in Codecs, GetCodec(c, k)
      PROVE  UInv'
  <2>1. codecConn[k] = NULL /\ codec' = [codec EXCEPT ![c] = k]
    BY <1>3 DEF GetCodec, Available, Fresh
  <2>2. \A d \in Calls : codec[d] # k
    BY <2>1
  <2> QED
    BY <1>1, <2>1, <2>2
<1>4. ASSUME NEW c \in Calls, ReaderStep(c) \/ NetStep(c)
      PROVE  codec' = codec
  BY <1>4 DEF ReaderStep, Head, Read, Receive, EndOfFile, Terminate, Unmarshal,
     Undecodable, Lookup, Fail, Body, Finish, NetStep, Deliver, SendOnClosed,
     Respond, Resubscribe, codecVars
<1>5. ASSUME NEW c \in Calls, CallerStep(c)
      PROVE  codec' = codec \/ \E k \in Codecs : GetCodec(c, k)
  BY <1>5 DEF CallerStep, Dial, Hook, Send, Return, Deadline, Close,
     Unsubscribe, Put, codecVars
<1>6. CASE Drop \/ Connect \/ Halted \/ Finished \/ UNCHANGED vars
  BY <1>2, <1>6 DEF Drop, Connect, Halted, Finished, vars, codecVars
<1> QED
  BY <1>2, <1>3, <1>4, <1>5, <1>6 DEF Next

\* Without the pool no call shares its codec, and each is served faithfully.
THEOREM CallsPrivate ==
    ASSUME ~Pooled
    PROVE  Spec => []UInv
<1>1. UInv /\ [Next]_vars => UInv'
  BY NextUInv
<1> QED
  BY <1>1, InitUInv, PTL DEF Spec

\* What UInv says of one call.
LEMMA PrivateCall ==
    ASSUME UInv, NEW c \in Calls
    PROVE  /\ source[c] \in {NULL, c}
           /\ \A d \in Calls \ {c} : source[d] # c
           /\ codec[c] # NULL => Faithful(c)
  BY Apart, ClientAssumption DEF UInv, AInv, LInv, IInv, TypeOK, Tied

-----------------------------------------------------------------------------
(* Without the pool: the hand-over.                                        *)

\* A call that waits is in the pending map until its reader takes it out to
\* finish it; a reader that missed ready is met by the router.
Met(c) ==
    /\ pc[c] \notin Dialling => reader[c] # "none"
    /\ pc[c] = "send" => reader[c] # "end"
    /\ (pc[c] = "wait" /\ done[c] = "none" /\ ~pending[c]) =>
           reader[c] \in {"fail", "body"}
    /\ (pc[c] = "wait" /\ done[c] = "none") => reader[c] # "end"
    /\ (reader[c] = "recv" /\ ready[c]) => router = c

HInv == UInv /\ \A c \in Calls : Met(c)

LEMMA InitHInv == Init => HInv
<1>1. ASSUME Init, NEW c \in Calls
      PROVE  Met(c)
  BY <1>1 DEF Init, Met, Dialling
<1> QED
  BY <1>1, InitUInv DEF HInv

LEMMA OwnMet ==
    ASSUME HInv, NEW c \in Calls, CallerStep(c) \/ ReaderStep(c) \/ NetStep(c)
    PROVE  Met(c)'
<1>0. source[c] \in {NULL, c} /\ (codec[c] # NULL => Faithful(c))
  BY PrivateCall DEF HInv
<1> USE <1>0, ClientAssumption
    DEF HInv, UInv, AInv, LInv, IInv, TypeOK, Coded, Dialling, Reading, Own,
        Spent, Faithful, Met, Unsent, At, ReaderAt, callVars, rpcVars,
        codecVars, connVars, subVars, netVars, linkVars
<1>1. CASE Dial(c) \/ Hook(c)
  BY <1>1 DEF Dial, Hook
<1>2. ASSUME NEW k \in Codecs, GetCodec(c, k)
      PROVE  Met(c)'
  BY <1>2 DEF GetCodec
<1>3. CASE Send(c)
  BY <1>3 DEF Send, WriteRequest, Written
<1>4. CASE Return(c) \/ Deadline(c)
  BY <1>4 DEF Return, Deadline
<1>5. CASE Close(c) \/ Unsubscribe(c) \/ Put(c)
  BY <1>5 DEF Close, Unsubscribe, Put
<1>6. CASE Head(c) \/ Read(c) \/ Receive(c)
  BY <1>6 DEF Head, Read, Receive
<1>7. CASE EndOfFile(c)
  BY <1>7 DEF EndOfFile, Terminate
<1>8. CASE Unmarshal(c) \/ Undecodable(c)
  BY <1>8 DEF Unmarshal, Undecodable, ReadAll, Terminate
<1>9. CASE Lookup(c) \/ Fail(c) \/ Body(c)
  <2>1. CASE Lookup(c)
    <3>1. PICK l \in {"head", "fail", "body"} :
            /\ reader' = [reader EXCEPT ![c] = l]
            /\ pending[c] => l # "head"
      BY <2>1, Zenon DEF Lookup
    <3> QED
      BY <2>1, <3>1 DEF Lookup
  <2>2. CASE Fail(c) \/ Body(c)
    BY <2>2 DEF Fail, Body, Finish, Decoded
  <2> QED
    BY <1>9, <2>1, <2>2
<1>10. CASE NetStep(c)
  BY <1>10 DEF NetStep, Deliver, SendOnClosed, Respond, Resubscribe
<1> QED
  BY <1>1, <1>2, <1>3, <1>4, <1>5, <1>6, <1>7, <1>8, <1>9, <1>10
  DEF CallerStep, ReaderStep

LEMMA OtherMet ==
    ASSUME HInv, NEW c \in Calls, NEW d \in Calls, c # d,
           CallerStep(d) \/ ReaderStep(d) \/ NetStep(d)
    PROVE  Met(c)'
<1>0. source[d] # c
  BY PrivateCall DEF HInv
<1> USE <1>0, ClientAssumption
    DEF HInv, UInv, AInv, LInv, IInv, TypeOK, Coded, Dialling, Reading, Met,
        At, ReaderAt, callVars, rpcVars, codecVars, connVars, subVars, netVars,
        linkVars
<1>1. CASE CallerStep(d)
  BY <1>1 DEF CallerStep, Dial, Hook, GetCodec, Send, WriteRequest, Return,
              Deadline, Close, Unsubscribe, Put
<1>2. CASE ReaderStep(d)
  BY <1>2 DEF ReaderStep, Head, Read, Receive, EndOfFile, Terminate, Unmarshal,
              Undecodable, ReadAll, Lookup, Fail, Body, Finish
<1>3. CASE NetStep(d)
  BY <1>3 DEF NetStep, Deliver, SendOnClosed, Respond, Resubscribe
<1> QED
  BY <1>1, <1>2, <1>3

LEMMA NextHInv ==
    ASSUME ~Pooled, HInv, [Next]_vars
    PROVE  HInv'
<1>1. UInv'
  BY NextUInv DEF HInv
<1>2. ASSUME NEW c \in Calls
      PROVE  Met(c)'
  <2>1. ASSUME NEW d \in Calls, CallerStep(d) \/ ReaderStep(d) \/ NetStep(d)
        PROVE  Met(c)'
    BY <2>1, OwnMet, OtherMet
  <2>2. CASE Drop \/ Connect \/ Halted \/ Finished \/ UNCHANGED vars
    BY <2>2 DEF HInv, Met, Drop, Connect, Halted, Finished, vars, callVars,
                rpcVars, connVars
  <2> QED
    BY <2>1, <2>2 DEF Next
<1> QED
  BY <1>1, <1>2 DEF HInv

\* Without the pool no response that arrived is left to a reader that sleeps:
\* what DeliveredReturns needs besides the scheduler.
THEOREM WakeupsKept ==
    ASSUME ~Pooled
    PROVE  Spec => []NoLostWakeup
<1>1. HInv => NoLostWakeup
  <2> SUFFICES ASSUME HInv, NEW c \in Calls, ready[c], pc[c] = "wait",
                      done[c] = "none"
               PROVE  \/ reader[c] \in {"head", "read", "data", "lookup",
                                        "fail", "body"}
                      \/ reader[c] = "recv" /\ router = c /\ open[c]
    BY DEF NoLostWakeup
  <2> QED
    BY DEF HInv, UInv, AInv, LInv, IInv, TypeOK, Met, Own, Dialling
<1>2. HInv /\ [Next]_vars => HInv'
  BY NextHInv
<1> QED
  BY <1>1, <1>2, InitHInv, PTL DEF Spec

-----------------------------------------------------------------------------
(* Without the pool: every step is one of CallOnce.                        *)

\* What CallOnce sees of the client.
sentCalls == {c \in Calls : net[c] # "none"}
Kind(a) == IF a \in {"ok", "error"} THEN a ELSE "bad"
arrivals == [c \in Calls |-> IF ~ready[c] THEN "none" ELSE Kind(answer[c])]

LEMMA PromiseVars ==
    Promise!vars = <<sentCalls, arrivals, result>>
  BY DEF Promise!vars, sentCalls, arrivals, Kind

\* Every step of a call is one of CallOnce or a stutter.
LEMMA StepRefines ==
    ASSUME UInv, NEW c \in Calls, CallerStep(c) \/ ReaderStep(c) \/ NetStep(c)
    PROVE  [Promise!Next]_(Promise!vars)
<1> USE DEF sentCalls, arrivals, Kind, At, ReaderAt
<1>0. /\ net \in [Calls -> {"none", "request", "response", "gone"}]
      /\ result \in [Calls -> Outcome \union {"none"}]
      /\ ready \in [Calls -> BOOLEAN] /\ answer \in [Calls -> Answer]
  BY DEF UInv, AInv, LInv, IInv, TypeOK
<1>00. Own(c)
  BY DEF UInv, AInv, LInv
<1>1. ASSUME UNCHANGED <<ready, answer, result, net>>
      PROVE  UNCHANGED Promise!vars
  BY <1>1 DEF Promise!vars
<1>2. CASE Dial(c) \/ Hook(c) \/ \E k \in Codecs : GetCodec(c, k)
  BY <1>1, <1>2 DEF Dial, Hook, GetCodec, connVars, netVars
<1>3. CASE Send(c)
  <2>1. UNCHANGED <<ready, answer, result>> /\ pc[c] = "send"
        /\ (net' = net \/ net' = [net EXCEPT ![c] = Written])
    BY <1>3 DEF Send, WriteRequest, connVars
  <2>2. CASE net' = net
    BY <1>1, <2>1, <2>2
  <2>3. CASE net' = [net EXCEPT ![c] = Written]
    <3>1. sentCalls' = sentCalls \union {c} /\ c \notin sentCalls
      BY <1>0, <1>00, <2>1, <2>3 DEF Own, Unsent, Written
    <3>2. result[c] = "none"
      BY <1>00, <2>1 DEF Own
    <3>3. Promise!Send(c)
      BY <2>1, <3>1, <3>2 DEF Promise!Send
    <3> QED
      BY <3>3 DEF Promise!Next
  <2> QED
    BY <2>1, <2>2, <2>3
<1>4. CASE Return(c) \/ Deadline(c)
  <2>1. UNCHANGED <<ready, answer, net>> /\ pc[c] = "wait"
    BY <1>4 DEF Return, Deadline, connVars, netVars
  <2>2. sentCalls' = sentCalls /\ arrivals' = arrivals
    BY <2>1
  <2>3. result[c] = "none" /\ open[c]
    BY <1>00, <2>1 DEF Own
  <2>4. ASSUME NEW o, result' = [result EXCEPT ![c] = o]
        PROVE  Promise!ReturnAs(c, o)
    BY <2>2, <2>3, <2>4 DEF Promise!ReturnAs
  <2>5. CASE Return(c)
    <3>1. done[c] # "none" /\ result' = [result EXCEPT ![c] = done[c]]
      BY <2>5 DEF Return
    <3>2. codec[c] # NULL
      BY <2>1, ClientAssumption DEF UInv, AInv, LInv, IInv, Coded, Dialling
    <3>3. Faithful(c)
      BY <3>2, PrivateCall
    <3>4. \/ done[c] = c /\ arrivals[c] = "ok"
          \/ done[c] = "error" /\ arrivals[c] = "error"
          \/ done[c] = "decode" /\ arrivals[c] = "bad"
          \/ done[c] = "encode" /\ c \notin sentCalls
      BY <1>0, <1>00, <2>3, <3>1, <3>3 DEF Own, Faithful, Due, Answer
    <3>5. Promise!Return(c)
      BY <2>4, <3>1, <3>4 DEF Promise!Return
    <3> QED
      BY <3>5 DEF Promise!Next
  <2>6. CASE Deadline(c)
    <3>1. c \in Deadlines /\ result' = [result EXCEPT ![c] = "ctx"]
      BY <2>6 DEF Deadline
    <3>2. Promise!Return(c)
      BY <2>4, <3>1 DEF Promise!Return
    <3> QED
      BY <3>2 DEF Promise!Next
  <2> QED
    BY <1>4, <2>5, <2>6
<1>5. CASE Close(c) \/ Unsubscribe(c) \/ Put(c)
  BY <1>1, <1>5 DEF Close, Unsubscribe, Put, connVars, netVars
<1>6. CASE ReaderStep(c)
  <2>1. UNCHANGED <<ready, answer, result, net>>
    BY <1>6 DEF ReaderStep, Head, Read, Receive, EndOfFile, Terminate,
                Unmarshal, Undecodable, Lookup, Fail, Body, Finish, callVars,
                connVars, netVars
  <2> QED
    BY <1>1, <2>1
<1>7. CASE Deliver(c)
  <2>1. /\ UNCHANGED <<answer, result>> /\ net[c] = "response"
        /\ net' = [net EXCEPT ![c] = "gone"]
        /\ ready' = [ready EXCEPT ![c] = TRUE]
    BY <1>7 DEF Deliver, callVars
  <2>2. ~ready[c]
    BY <1>00, <2>1 DEF Own
  <2>3. /\ arrivals[c] = "none"
        /\ arrivals' = [arrivals EXCEPT ![c] = Kind(answer[c])]
    BY <1>0, <2>1, <2>2
  <2>4. sentCalls' = sentCalls /\ c \in sentCalls
    BY <1>0, <2>1
  <2>5. PICK a \in {"ok", "error", "bad"} : a = Kind(answer[c])
    OBVIOUS
  <2>6. Promise!Arrive(c, a)
    BY <2>1, <2>3, <2>4, <2>5 DEF Promise!Arrive
  <2>7. \E b \in {"ok", "error", "bad"} : Promise!Arrive(c, b)
    BY <2>6, Zenon
  <2>8. Promise!Next
    BY <2>7, Zenon DEF Promise!Next
  <2> QED
    BY <2>8
<1>8. ASSUME NEW a \in Answers[c], Respond(c, a)
      PROVE  UNCHANGED Promise!vars
  <2>1. /\ UNCHANGED <<ready, result>> /\ net[c] = "request"
        /\ net' = [net EXCEPT ![c] = "response"]
        /\ answer' = [answer EXCEPT ![c] = a]
    BY <1>8 DEF Respond, callVars, connVars
  <2>2. ~ready[c]
    BY <1>00, <2>1 DEF Own
  <2>3. sentCalls' = sentCalls /\ arrivals' = arrivals
    BY <1>0, <2>1, <2>2
  <2> QED
    BY <2>1, <2>3, PromiseVars DEF Promise!vars
<1>9. CASE SendOnClosed(c) \/ Resubscribe(c)
  <2>1. UNCHANGED <<ready, answer, result, net>>
    BY <1>9 DEF SendOnClosed, Resubscribe, callVars, connVars, netVars
  <2> QED
    BY <1>1, <2>1
<1> QED
  BY <1>2, <1>3, <1>4, <1>5, <1>6, <1>7, <1>8, <1>9 DEF CallerStep, NetStep

LEMMA NextRefines ==
    ASSUME UInv, [Next]_vars
    PROVE  [Promise!Next]_(Promise!vars)
<1>1. ASSUME NEW c \in Calls, CallerStep(c) \/ ReaderStep(c) \/ NetStep(c)
      PROVE  [Promise!Next]_(Promise!vars)
  BY <1>1, StepRefines
<1>2. CASE Drop \/ Connect \/ Halted \/ Finished \/ UNCHANGED vars
  <2>1. UNCHANGED <<ready, answer, result, net>>
    BY <1>2 DEF Drop, Connect, Halted, Finished, vars, callVars, connVars,
                netVars
  <2> QED
    BY <2>1 DEF Promise!vars
<1> QED
  BY <1>1, <1>2 DEF Next

\* Without the pool the client implements CallOnce: each call returns once,
\* with what its own response says or that it could not be decoded, with its
\* context's end, or, having sent nothing, with the error of encoding.
THEOREM ImplementsCallOnce ==
    ASSUME ~Pooled
    PROVE  Spec => CallsOnce
<1>1. Init => Promise!Init
  BY DEF Init, Promise!Init
<1>2. UInv /\ [Next]_vars => UInv' /\ [Promise!Next]_(Promise!vars)
  BY NextUInv, NextRefines
<1> QED
  BY <1>1, <1>2, InitUInv, PTL DEF Spec, CallsOnce, Promise!Spec
=============================================================================
