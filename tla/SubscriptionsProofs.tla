-------------------------- MODULE SubscriptionsProofs -------------------------
(***************************************************************************)
(* TLAPS proofs about Subscriptions: for any number of goroutines, topics  *)
(* and lost connections, the map knows what is subscribed and a removal of *)
(* all topics leaves nothing behind, with the exception that the           *)
(* properties name.                                                        *)
(***************************************************************************)
EXTENDS Subscriptions, TLAPS

\* The invariant that is inductive: a removal leaves the map only once its
\* topic is unsubscribed or known to be tangled (RemovalsSent).
IInv == TypeOK /\ Tracked /\ UnsubscribedAll /\ RemovalsSent

\* The initial states satisfy the invariant.
LEMMA InitIInv == Init => IInv
  BY SubscriptionsAssumption
  DEF Init, IInv, TypeOK, PC, Kinds, Tracked, UnsubscribedAll, RemovalsSent

\* No step takes a variable out of its type, nor leaves a subscription or a
\* pending token behind when the connection is gone.
LEMMA TypeNext ==
    ASSUME TypeOK, [Next]_vars
    PROVE  TypeOK'
<1> USE SubscriptionsAssumption DEF TypeOK, PC, Kinds, Goto, linkVars, history
<1>1. ASSUME NEW o \in Ops, Call(o)
      PROVE  TypeOK'
  BY <1>1 DEF Call, Begin, Subscribe, Unsubscribe, UnsubscribeAll
<1>2. ASSUME NEW o \in Ops, NEW t \in Topics,
             Visit(o, t) \/ Store(o, t) \/ Delete(o, t)
      PROVE  TypeOK'
  BY <1>2 DEF Visit, Store, Delete
<1>3. ASSUME NEW o \in Ops, RangeDone(o) \/ Return(o)
      PROVE  TypeOK'
  BY <1>3 DEF RangeDone, Return
<1>4. ASSUME NEW o \in Ops, SendNothing(o)
      PROVE  TypeOK'
  BY <1>4 DEF SendNothing, Sent
<1>5. ASSUME NEW o \in Ops, SendSubscribe(o)
      PROVE  TypeOK'
  <2>1. PICK granted \in SUBSET topics[o] : subs' = subs \union granted
    BY <1>5 DEF SendSubscribe
  <2>2. subs' \subseteq Topics /\ tangled' \subseteq Topics
    BY <1>5, <2>1 DEF SendSubscribe
  <2>3. again' \in [Ops -> SUBSET Topics]
    BY <1>5 DEF SendSubscribe
  <2> QED
    BY <1>5, <2>2, <2>3 DEF SendSubscribe, Sent
<1>6. ASSUME NEW o \in Ops, SendUnsubscribe(o)
      PROVE  TypeOK'
  BY <1>6 DEF SendUnsubscribe, Sent
<1>7. ASSUME NEW o \in Ops, TokenDone(o) \/ ContextDone(o)
      PROVE  TypeOK'
  BY <1>7 DEF TokenDone, ContextDone, ReturnWith
<1>8. ASSUME NEW o \in Ops, Answer(o)
      PROVE  TypeOK'
  BY <1>8 DEF Answer
<1>9. CASE Drop
  BY <1>9 DEF Drop
<1>10. CASE Reconnect
  BY <1>10 DEF Reconnect, opVars
<1>11. CASE UNCHANGED vars
  BY <1>11 DEF vars, opVars
<1> QED
  BY <1>1, <1>2, <1>3, <1>4, <1>5, <1>6, <1>7, <1>8, <1>9, <1>10, <1>11
  DEF Next, Step

-----------------------------------------------------------------------------
(* The steps that touch neither subs nor subscribeMap.                     *)

\* What a waiting variant returns, and the broker's answer, concern nothing
\* but the token and the result.
Waiting(o) == TokenDone(o) \/ ContextDone(o) \/ Return(o) \/ Answer(o)

LEMMA WaitingKeeps ==
    ASSUME IInv, NEW o \in Ops, Waiting(o)
    PROVE  Tracked' /\ UnsubscribedAll' /\ RemovalsSent'
<1> USE DEF IInv, TypeOK, PC, Goto, linkVars, history, Waiting, TokenDone,
            ContextDone, Return, Answer, ReturnWith
<1>1. Tracked'
  BY DEF Tracked, Storing
<1>2. UnsubscribedAll'
  BY DEF UnsubscribedAll
<1>3. RemovalsSent'
  BY DEF RemovalsSent
<1> QED
  BY <1>1, <1>2, <1>3

\* A call that begins takes nothing from the calls that run.
LEMMA CallKeeps ==
    ASSUME IInv, NEW o \in Ops, Call(o)
    PROVE  Tracked' /\ UnsubscribedAll' /\ RemovalsSent'
<1> USE DEF IInv, TypeOK, PC, Goto, linkVars, history, Begin, Subscribe,
            Unsubscribe, UnsubscribeAll
<1>1. ASSUME NEW wait \in BOOLEAN, NEW ts \in SUBSET Topics,
             Subscribe(o, ts, wait)
      PROVE  Tracked' /\ UnsubscribedAll' /\ RemovalsSent'
  BY <1>1 DEF Tracked, Storing, UnsubscribedAll, RemovalsSent
<1>2. ASSUME NEW wait \in BOOLEAN, NEW t \in Topics, Unsubscribe(o, t, wait)
      PROVE  Tracked' /\ UnsubscribedAll' /\ RemovalsSent'
  BY <1>2 DEF Tracked, Storing, UnsubscribedAll, RemovalsSent
<1>3. ASSUME NEW wait \in BOOLEAN, UnsubscribeAll(o, wait)
      PROVE  Tracked' /\ UnsubscribedAll' /\ RemovalsSent'
  BY <1>3 DEF Tracked, Storing, UnsubscribedAll, RemovalsSent
<1> QED
  BY <1>1, <1>2, <1>3 DEF Call

\* What Range meets is moved to the topics; what it does not meet any more
\* was owed only if its removal is tangled.
LEMMA RangeKeeps ==
    ASSUME IInv, NEW o \in Ops,
           (\E t \in Topics : Visit(o, t)) \/ RangeDone(o)
    PROVE  Tracked' /\ UnsubscribedAll' /\ RemovalsSent'
<1> USE DEF IInv, TypeOK, PC, Goto, linkVars, history, Visit, RangeDone
<1>1. Tracked'
  BY DEF Tracked, Storing
<1>2. UnsubscribedAll'
  BY DEF UnsubscribedAll
<1>3. RemovalsSent'
  BY DEF RemovalsSent
<1> QED
  BY <1>1, <1>2, <1>3

-----------------------------------------------------------------------------
(* The steps of the packets.                                               *)

\* Without a connection nothing is subscribed, and there is nothing to track.
LEMMA UnlinkedKeeps ==
    ASSUME IInv, TypeOK', link = "down" \/ link' = "down",
           (\E o \in Ops : SendNothing(o)) \/ Drop \/ Reconnect
    PROVE  Tracked' /\ UnsubscribedAll' /\ RemovalsSent'
<1>1. subs' = {}
  BY DEF IInv, TypeOK, SendNothing, Drop, Reconnect
<1> QED
  BY <1>1 DEF Tracked, UnsubscribedAll, RemovalsSent

\* A subscription is tracked by its caller and noted by the removals under way.
LEMMA SubscribeKeeps ==
    ASSUME IInv, NEW o \in Ops, SendSubscribe(o)
    PROVE  Tracked' /\ UnsubscribedAll' /\ RemovalsSent'
<1> USE DEF IInv, TypeOK, PC, Goto, linkVars, SendSubscribe, Sent
<1>1. \A t \in subs' : t \in subs \/ t \in topics[o]
  OBVIOUS
<1>2. /\ todo' = [todo EXCEPT ![o] = topics[o]]
      /\ pc'[o] \in {"wait", "update"}
      /\ \A p \in Ops : p # o => pc'[p] = pc[p] /\ todo'[p] = todo[p]
      /\ UNCHANGED <<kind, topics, subscribeMap, owed>>
  OBVIOUS
<1>3. Tracked'
  <2> SUFFICES ASSUME NEW t \in subs'
               PROVE  t \in subscribeMap \/ t \in tangled' \/ Storing(t)'
    BY <1>2 DEF Tracked
  <2>1. CASE t \in topics[o]
    BY <1>2, <2>1 DEF Storing
  <2>2. CASE t \notin topics[o]
    BY <1>1, <1>2, <2>2 DEF Tracked, Storing
  <2> QED
    BY <2>1, <2>2
<1>4. \A p \in Ops : /\ again[p] \subseteq again'[p]
                     /\ pc[p] # "idle" => topics[o] \subseteq again'[p]
  OBVIOUS
<1>5. \A t \in tangled : t \in tangled' \/ t \in topics[o]
  OBVIOUS
<1>6. UnsubscribedAll'
  BY <1>1, <1>2, <1>4, <1>5 DEF UnsubscribedAll
<1>7. ASSUME NEW p \in Ops, NEW t \in subs',
             kind[p] # "sub", pc'[p] \in {"wait", "update"}, t \in todo'[p]
      PROVE  t \in tangled'
  <2>1. p # o /\ Removing(t)
    BY <1>2, <1>7 DEF Removing
  <2>2. CASE t \in topics[o]
    BY <2>1, <2>2
  <2>3. CASE t \notin topics[o]
    BY <1>1, <1>2, <1>7, <2>1, <2>3 DEF RemovalsSent
  <2> QED
    BY <2>2, <2>3
<1>8. ASSUME NEW p \in Ops, NEW t \in subs',
             kind[p] = "all", pc'[p] \in {"range", "send"}, t \in owed[p]
      PROVE  \/ t \in topics[p] \union again'[p] \union tangled'
             \/ pc'[p] = "range" /\ t \in todo'[p] \intersect subscribeMap
  <2>1. p # o
    BY <1>8
  <2>2. CASE t \in topics[o]
    BY <1>2, <1>4, <1>8, <2>1, <2>2
  <2>3. CASE t \notin topics[o]
    BY <1>1, <1>2, <1>4, <1>5, <1>8, <2>1, <2>3 DEF RemovalsSent
  <2> QED
    BY <2>2, <2>3
<1>9. RemovalsSent'
  BY <1>2, <1>7, <1>8 DEF RemovalsSent
<1> QED
  BY <1>3, <1>6, <1>9

\* A removal that is sent takes all its topics from the broker.
LEMMA UnsubscribeKeeps ==
    ASSUME IInv, NEW o \in Ops, SendUnsubscribe(o)
    PROVE  Tracked' /\ UnsubscribedAll' /\ RemovalsSent'
<1> USE DEF IInv, TypeOK, PC, Goto, linkVars, SendUnsubscribe, Sent
<1>1. Tracked'
  BY DEF Tracked, Storing
<1>2. UnsubscribedAll'
  BY DEF UnsubscribedAll, RemovalsSent
<1>3. RemovalsSent'
  BY DEF RemovalsSent
<1> QED
  BY <1>1, <1>2, <1>3

-----------------------------------------------------------------------------
(* The steps of the map.                                                   *)

\* What is stored is no longer about to be.
LEMMA StoreKeeps ==
    ASSUME IInv, NEW o \in Ops, NEW s \in Topics, Store(o, s)
    PROVE  Tracked' /\ UnsubscribedAll' /\ RemovalsSent'
<1> USE DEF IInv, TypeOK, PC, Goto, linkVars, history, Store
<1>1. Tracked'
  BY DEF Tracked, Storing
<1>2. UnsubscribedAll'
  BY DEF UnsubscribedAll
<1>3. RemovalsSent'
  BY DEF RemovalsSent
<1> QED
  BY <1>1, <1>2, <1>3

\* What is deleted is not subscribed, or is tangled.
LEMMA DeleteKeeps ==
    ASSUME IInv, NEW o \in Ops, NEW s \in Topics, Delete(o, s)
    PROVE  Tracked' /\ UnsubscribedAll' /\ RemovalsSent'
<1> USE DEF IInv, TypeOK, PC, Goto, linkVars, history, Delete
<1>0. s \in subs => s \in tangled
  BY DEF RemovalsSent
<1>1. Tracked'
  BY <1>0 DEF Tracked, Storing
<1>2. UnsubscribedAll'
  BY DEF UnsubscribedAll
<1>3. RemovalsSent'
  BY <1>0 DEF RemovalsSent
<1> QED
  BY <1>1, <1>2, <1>3

-----------------------------------------------------------------------------
\* Every step preserves the invariant.
LEMMA NextIInv ==
    ASSUME IInv, [Next]_vars
    PROVE  IInv'
<1>0. TypeOK'
  BY TypeNext DEF IInv
<1> SUFFICES Tracked' /\ UnsubscribedAll' /\ RemovalsSent'
  BY <1>0 DEF IInv
<1>1. ASSUME NEW o \in Ops, Call(o) \/ Step(o) \/ Answer(o)
      PROVE  Tracked' /\ UnsubscribedAll' /\ RemovalsSent'
  <2>1. CASE Call(o)
    BY <2>1, CallKeeps
  <2>2. CASE Waiting(o)
    BY <2>2, WaitingKeeps
  <2>3. CASE (\E t \in Topics : Visit(o, t)) \/ RangeDone(o)
    BY <2>3, RangeKeeps
  <2>4. CASE SendNothing(o)
    BY <1>0, <2>4, UnlinkedKeeps DEF SendNothing
  <2>5. CASE SendSubscribe(o)
    BY <2>5, SubscribeKeeps
  <2>6. CASE SendUnsubscribe(o)
    BY <2>6, UnsubscribeKeeps
  <2>7. CASE \E t \in Topics : Store(o, t)
    BY <2>7, StoreKeeps
  <2>8. CASE \E t \in Topics : Delete(o, t)
    BY <2>8, DeleteKeeps
  <2> QED
    BY <1>1, <2>1, <2>2, <2>3, <2>4, <2>5, <2>6, <2>7, <2>8 DEF Step, Waiting
<1>2. CASE Drop \/ Reconnect
  BY <1>0, <1>2, UnlinkedKeeps DEF Drop, Reconnect
<1>3. CASE UNCHANGED vars
  BY <1>3 DEF IInv, vars, opVars, linkVars, history, Tracked, Storing,
              UnsubscribedAll, RemovalsSent
<1> QED
  BY <1>1, <1>2, <1>3 DEF Next

\* The invariant holds in every reachable state.
THEOREM SubscriptionsHold == Spec => []IInv
  BY InitIInv, NextIInv, PTL DEF Spec

-----------------------------------------------------------------------------
(* What follows from it.                                                   *)

\* Every variable stays in its type, and a lost connection leaves neither a
\* subscription nor a token that waits.
THEOREM TypeCorrect == Spec => []TypeOK
<1>1. IInv => TypeOK
  BY DEF IInv
<1> QED
  BY <1>1, SubscriptionsHold, PTL

\* However calls overlap, fail or run into a lost connection, what is
\* subscribed is in subscribeMap or about to be, unless it was subscribed
\* while its removal was under way.
THEOREM SubscribedIsTracked == Spec => []Tracked
<1>1. IInv => Tracked
  BY DEF IInv
<1> QED
  BY <1>1, SubscriptionsHold, PTL

\* UnsubscribeAll misses none of the topics that it found subscribed.
THEOREM NothingLeft == Spec => []UnsubscribedAll
<1>1. IInv => UnsubscribedAll
  BY DEF IInv
<1> QED
  BY <1>1, SubscriptionsHold, PTL

\* A topic whose removal is under way is subscribed only if it was subscribed
\* again meanwhile.
THEOREM RemovalsReachTheBroker == Spec => []RemovalsSent
<1>1. IInv => RemovalsSent
  BY DEF IInv
<1> QED
  BY <1>1, SubscriptionsHold, PTL
=============================================================================
