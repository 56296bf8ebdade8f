---------------------------- MODULE AdapterProofs ----------------------------
(***************************************************************************)
(* Proofs about Adapter, for any set of callers and any number of retry    *)
(* loops: one inductive invariant for the connection and one for the       *)
(* registries, neither of which needs the other, since neither part writes *)
(* what the other's invariant is about; one for the handlers on top of the *)
(* registries', and one that bounds how many goroutines they start, on top *)
(* of both.                                                                *)
(***************************************************************************)
EXTENDS Adapter, FiniteSetTheorems, TLAPS

-----------------------------------------------------------------------------
(* The connection.                                                         *)

Labels == {"new", "first", "head", "ask", "connect", "token", "end"}

\* While nobody has stopped the loops, only one of them waits for a token, and
\* paho is connecting for it.
OneAttempt ==
    \A l \in Loops :
        (~stop /\ loop[l] = "token") =>
            /\ link = "connecting"
            /\ \A k \in Loops : loop[k] = "token" => k = l

LoopInv ==
    /\ link \in {"disconnected", "connecting", "connected", "reconnecting"}
    /\ loop \in [Loops -> Labels]
    /\ closing # "no" => stop
    /\ OneAttempt

\* The retry loops keep the invariant, one of their actions at a time.
LEMMA LoopStepInv ==
    ASSUME LoopInv, NEW l \in Loops, EnsureConnected(l) \/ LoopStep(l)
    PROVE  LoopInv'
<1> USE DEF LoopInv, OneAttempt, Labels, LoopAt, Goto,
            linkVars, Elsewhere
<1>1. CASE EnsureConnected(l)
  BY <1>1 DEF EnsureConnected
<1>2. CASE Ask(l)
  BY <1>2 DEF Ask, IsConnectionOpen
<1>3. CASE Head(l)
  BY <1>3 DEF Head
<1>4. CASE Connect(l)
  <2>1. CASE link = "disconnected"
    BY <1>4, <2>1 DEF Connect
  <2>2. CASE link # "disconnected"
    BY <1>4, <2>2 DEF Connect
  <2> QED
    BY <2>1, <2>2
<1>5. CASE ConnectOk(l)
  BY <1>5 DEF ConnectOk, LinkUp
<1>6. CASE ConnectFail(l)
  BY <1>6 DEF ConnectFail
<1>7. CASE Aborted(l)
  BY <1>7 DEF Aborted
<1> QED
  BY <1>1, <1>2, <1>3, <1>4, <1>5, <1>6, <1>7 DEF LoopStep

\* Registering and running callbacks does not touch the connection.
LEMMA CallbacksApart ==
    ASSUME \/ \E c \in Callers : RegisterStep(c) \/ Run(c) \/ RacingWrite(c)
           \/ \E e \in Events : HandlerStep(e)
    PROVE  UNCHANGED <<linkVars, loopVars>>
<1>1. ASSUME NEW c \in Callers, RegisterStep(c)
      PROVE  UNCHANGED <<linkVars, loopVars>>
  BY <1>1 DEF RegisterStep, OnConnectOnce, CheckDown, CheckUp, Insert, Assign,
              Off, Remove
<1>2. ASSUME NEW c \in Callers, Run(c)
      PROVE  UNCHANGED <<linkVars, loopVars>>
  BY <1>2 DEF Run, Remove
<1>3. ASSUME NEW c \in Callers, RacingWrite(c)
      PROVE  UNCHANGED <<linkVars, loopVars>>
  BY <1>3 DEF RacingWrite, WriteRace
<1>4. ASSUME NEW e \in Events, HandlerStep(e)
      PROVE  UNCHANGED <<linkVars, loopVars>>
  BY <1>4 DEF HandlerStep, RangeBegin, Visit, RangeDone
<1> QED
  BY <1>1, <1>2, <1>3, <1>4

\* So do paho's own steps and Disconnect.
LEMMA LoopInvInductive == LoopInv /\ [Next]_vars => LoopInv'
<1> SUFFICES ASSUME LoopInv, [Next]_vars PROVE LoopInv'
  OBVIOUS
<1>1. CASE \E l \in Loops : EnsureConnected(l) \/ LoopStep(l)
  BY <1>1, LoopStepInv
<1>2. ASSUME UNCHANGED <<linkVars, loopVars>>
      PROVE  LoopInv'
  BY <1>2 DEF LoopInv, OneAttempt, linkVars, loopVars
<1>3. CASE Drop \/ Reconnect
  BY <1>3 DEF Drop, Reconnect, LinkUp, LoopInv, OneAttempt,
              loopVars
<1>4. CASE StopRetry \/ Disconnect
  BY <1>4 DEF StopRetry, Disconnect, LoopInv, OneAttempt,
              linkVars
<1>5. CASE UNCHANGED vars
  BY <1>2, <1>5 DEF vars
<1> QED
  BY <1>1, <1>2, <1>3, <1>4, <1>5, CallbacksApart DEF Next, Halted

\* Hence it holds of every reachable state.
LEMMA LoopInvInvariant == Spec => []LoopInv
<1>1. Init => LoopInv
  BY DEF Init, LoopInv, OneAttempt, Labels
<1> QED
  BY <1>1, LoopInvInductive, PTL DEF Spec

\* ConnectAndWaitForSuccess returns with the link up, because it was told to
\* stop, or to a link that paho is reconnecting.
THEOREM LoopsWait == Spec => WaitsForSuccess
<1> DEFINE Up == \A l \in Loops :
                   Returns(l) => link' = "connected" \/ stop \/ link = "reconnecting"
<1>1. LoopInv /\ [Next]_vars => [Up]_vars
  <2> SUFFICES ASSUME LoopInv, [Next]_vars, NEW l \in Loops, Returns(l)
               PROVE  link' = "connected" \/ stop \/ link = "reconnecting"
    OBVIOUS
  <2>1. ASSUME NEW k \in Loops, EnsureConnected(k) \/ LoopStep(k)
        PROVE  link' = "connected" \/ stop \/ link = "reconnecting"
    <3>1. loop \in [Loops -> Labels] /\ k = l
      BY <2>1 DEF LoopInv, Returns, EnsureConnected, LoopStep, Ask, Head, Connect,
         ConnectOk, ConnectFail, Aborted, Goto
    <3> QED
      BY <2>1, <3>1 DEF LoopInv, OneAttempt, Returns, EnsureConnected, LoopStep,
         Ask, Head, Connect, ConnectOk, ConnectFail, Aborted, LinkUp, LoopAt,
         Goto, linkVars, IsConnectionOpen
  <2>2. CASE UNCHANGED loop
    BY <2>2 DEF Returns
  <2>3. CASE Drop \/ Reconnect \/ StopRetry \/ Disconnect
    BY <2>2, <2>3 DEF Drop, Reconnect, StopRetry, Disconnect, loopVars
  <2>4. CASE UNCHANGED <<linkVars, loopVars>> \/ UNCHANGED vars
    BY <2>2, <2>4 DEF vars, loopVars
  <2> QED
    BY <2>1, <2>3, <2>4, CallbacksApart DEF Next, Halted
<1> QED
  BY <1>1, LoopInvInvariant, PTL DEF Spec, WaitsForSuccess

\* Disconnect is final once no retry loop is past its check of the flag.
THEOREM DisconnectIsFinal == Spec => DisconnectFinal
<1>1. LoopInv /\ [Next]_vars => [Down => Down']_vars
  <2> SUFFICES ASSUME LoopInv, [Next]_vars, Down PROVE Down'
    OBVIOUS
  <2> USE DEF Down
  <2>1. ASSUME NEW l \in Loops, EnsureConnected(l) \/ LoopStep(l)
        PROVE  Down'
    <3>1. stop /\ loop \in [Loops -> Labels]
      BY DEF LoopInv
    <3> QED
      BY <2>1, <3>1 DEF EnsureConnected, LoopStep, Ask, Head, Connect,
         ConnectOk, ConnectFail, Aborted, LoopAt, Goto, linkVars, Labels,
         IsConnectionOpen
  <2>2. ASSUME UNCHANGED <<linkVars, loopVars>>
        PROVE  Down'
    BY <2>2 DEF linkVars, loopVars
  <2>3. CASE Drop \/ Reconnect \/ StopRetry \/ Disconnect
    BY <2>3 DEF Drop, Reconnect, StopRetry, Disconnect
  <2>4. CASE UNCHANGED vars
    BY <2>2, <2>4 DEF vars
  <2> QED
    BY <2>1, <2>2, <2>3, <2>4, CallbacksApart DEF Next, Halted
<1> QED
  BY <1>1, LoopInvInvariant, PTL DEF Spec, DisconnectFinal

-----------------------------------------------------------------------------
(* The registries.                                                         *)

Registries == UNION {[D -> Callers] : D \in SUBSET Nat}

PCs == [Callers -> {"new", "check", "insert", "assign", "done", "left"}]

RegistryTypes ==
    /\ pc \in PCs
    /\ index \in [Callers -> Nat \union {NULL}]
    /\ count \in [Events -> Nat]
    /\ callbaks \in [Events -> Registries]

\* An index is given once, below the count.
Indices(c) ==
    /\ pc[c] = "check" => c \in Onces \ Losts
    /\ pc[c] = "assign" => c \in Onces
    /\ pc[c] \in {"new", "check", "insert"} => index[c] = NULL
    /\ index[c] # NULL =>
        /\ index[c] < count[Event(c)]
        /\ \A d \in Callers \ {c} : Event(d) = Event(c) => index[d] # index[c]

\* Only a wrapper of OnConnectOnce or OnConnectLostOnce can take an entry from
\* somebody else, and only the entry 0.
Kept(c) ==
    (c \notin Onces /\ pc[c] = "done") =>
        /\ index[c] # NULL
        /\ \/ index[c] = 0 /\ \E d \in Onces : Event(d) = Event(c)
           \/ /\ index[c] \in DOMAIN callbaks[Event(c)]
              /\ callbaks[Event(c)][index[c]] = c

RegistryInv ==
    /\ RegistryTypes
    /\ \A c \in Callers : Indices(c) /\ Kept(c)

\* What Remove does to the registries: an entry goes, the others stay.
LEMMA RemoveEntry ==
    ASSUME RegistryTypes, NEW e \in Events, NEW i, Remove(e, i)
    PROVE  /\ callbaks' \in [Events -> Registries]
           /\ \A f \in Events : \A j \in DOMAIN callbaks[f] :
                (f # e \/ j # i) =>
                    /\ j \in DOMAIN callbaks'[f]
                    /\ callbaks'[f][j] = callbaks[f][j]
<1> DEFINE cut == Restrict(callbaks[e], DOMAIN callbaks[e] \ {i})
<1>1. callbaks' = [callbaks EXCEPT ![e] = cut]
  BY DEF Remove
<1>2. PICK D \in SUBSET Nat : callbaks[e] \in [D -> Callers]
  BY DEF RegistryTypes, Registries
<1>3. cut \in [D \ {i} -> Callers]
  BY <1>2 DEF Restrict
<1>4. cut \in Registries
  BY <1>3 DEF Registries
<1>5. callbaks' \in [Events -> Registries]
  BY <1>1, <1>4 DEF RegistryTypes
<1>6. \A j \in DOMAIN callbaks[e] : j # i => j \in DOMAIN cut /\ cut[j] = callbaks[e][j]
  BY DEF Restrict
<1> HIDE DEF cut
<1> QED
  BY <1>1, <1>5, <1>6 DEF RegistryTypes

\* How a caller may move without a new index.
Moves(c) ==
    \/ pc'[c] = pc[c]
    \/ pc'[c] = "left"
    \/ /\ pc'[c] \in {"check", "insert"}
       /\ index[c] = NULL
       /\ pc'[c] = "check" => c \in Onces \ Losts
    \/ pc'[c] = "done" /\ c \in Onces

\* Such moves keep the invariant when the registries stay as they are ...
LEMMA MovesKeep ==
    ASSUME RegistryInv, UNCHANGED <<mapVars, index>>, pc' \in PCs,
           \A c \in Callers : Moves(c)
    PROVE  RegistryInv'
<1>1. RegistryTypes'
  BY DEF RegistryInv, RegistryTypes, PCs, mapVars
<1>2. ASSUME NEW c \in Callers
      PROVE  Indices(c)' /\ Kept(c)'
  BY <1>2 DEF RegistryInv, Indices, Kept, Event, mapVars, Moves
<1> QED
  BY <1>1, <1>2 DEF RegistryInv

\* ... and when an entry is removed that is nobody's who still counts on it,
\* but for index 0.
LEMMA RemoveKeeps ==
    ASSUME RegistryInv, NEW e \in Events, NEW i, Remove(e, i),
           UNCHANGED index, pc' \in PCs, \A c \in Callers : Moves(c),
           \A c \in Callers \ Onces :
               (Event(c) = e /\ pc'[c] = "done" /\ index[c] = i /\ i # NULL)
                   => i = 0 /\ \E d \in Onces : Event(d) = e
    PROVE  RegistryInv'
<1>1. callbaks' \in [Events -> Registries] /\ count' = count
  BY RemoveEntry DEF RegistryInv, Remove
<1>2. RegistryTypes'
  BY <1>1 DEF RegistryInv, RegistryTypes, PCs
<1>3. ASSUME NEW c \in Callers
      PROVE  Indices(c)' /\ Kept(c)'
  <2>1. Indices(c)'
    BY <1>1 DEF RegistryInv, Indices, Event, Moves
  <2>2. Kept(c)'
    <3> SUFFICES ASSUME c \notin Onces, pc'[c] = "done"
                 PROVE  /\ index[c] # NULL
                        /\ \/ index[c] = 0 /\ \E d \in Onces : Event(d) = Event(c)
                           \/ /\ index[c] \in DOMAIN callbaks'[Event(c)]
                              /\ callbaks'[Event(c)][index[c]] = c
      BY DEF Kept, Event
    <3>1. /\ pc[c] = "done" /\ Event(c) \in Events
          /\ index[c] # NULL
          /\ \/ index[c] = 0 /\ \E d \in Onces : Event(d) = Event(c)
             \/ /\ index[c] \in DOMAIN callbaks[Event(c)]
                /\ callbaks[Event(c)][index[c]] = c
      BY DEF RegistryInv, Kept, Moves, Event, Events
    <3>2. CASE Event(c) = e /\ index[c] = i
      BY <3>1, <3>2
    <3>3. CASE Event(c) # e \/ index[c] # i
      BY <3>1, <3>3, RemoveEntry DEF RegistryInv
    <3> QED
      BY <3>2, <3>3
  <2> QED
    BY <2>1, <2>2
<1> QED
  BY <1>2, <1>3 DEF RegistryInv

\* The section under the mutex gives the next index to one caller.
LEMMA InsertKeeps ==
    ASSUME RegistryInv, NEW c \in Callers, Insert(c)
    PROVE  RegistryInv'
<1> DEFINE e == Event(c)
           i == count[e]
           grown == [j \in DOMAIN callbaks[e] \union {i} |->
                        IF j = i THEN c ELSE callbaks[e][j]]
<1>1. /\ callbaks' = [callbaks EXCEPT ![e] = grown]
      /\ count' = [count EXCEPT ![e] = i + 1]
      /\ index' = [index EXCEPT ![c] = i]
      /\ pc' = [pc EXCEPT ![c] = IF c \in Onces THEN "assign" ELSE "done"]
  BY DEF Insert
<1>2. e \in Events /\ i \in Nat
  BY DEF RegistryInv, RegistryTypes, Event, Events
<1>3. grown \in Registries
  <2>1. PICK D \in SUBSET Nat : callbaks[e] \in [D -> Callers]
    BY <1>2 DEF RegistryInv, RegistryTypes, Registries
  <2>2. grown \in [D \union {i} -> Callers]
    BY <2>1
  <2>3. D \union {i} \in SUBSET Nat
    BY <2>1, <1>2
  <2> HIDE DEF grown, i
  <2> QED
    BY <2>2, <2>3 DEF Registries
<1>4. \A f \in Events : \A j \in DOMAIN callbaks[f] :
        (f # e \/ j # i) => /\ j \in DOMAIN callbaks'[f]
                            /\ callbaks'[f][j] = callbaks[f][j]
  BY <1>1, <1>2 DEF RegistryInv, RegistryTypes
<1>5. i \in DOMAIN callbaks'[e] /\ callbaks'[e][i] = c
  BY <1>1, <1>2 DEF RegistryInv, RegistryTypes
<1> HIDE DEF grown
<1>6. RegistryTypes'
  BY <1>1, <1>2, <1>3 DEF RegistryInv, RegistryTypes, PCs
<1>7. index[c] = NULL
  BY DEF RegistryInv, Indices, Insert, AtInsert, CallerAt
<1>8. ASSUME NEW d \in Callers
      PROVE  Indices(d)' /\ Kept(d)'
  <2>1. CASE d = c
    <3>1. Indices(c)'
      BY <1>1, <1>2, AdapterAssumption
         DEF RegistryInv, RegistryTypes, PCs, Indices, Event
    <3>2. Kept(c)'
      BY <1>1, <1>2, <1>5, AdapterAssumption
         DEF RegistryInv, RegistryTypes, Kept, Event
    <3> QED
      BY <2>1, <3>1, <3>2
  <2>2. CASE d # c
    <3>1. /\ pc'[d] = pc[d] /\ index'[d] = index[d] /\ Event(d)' = Event(d)
          /\ index'[c] = i /\ Event(c)' = e /\ Event(d) \in Events
          /\ count'[Event(d)] >= count[Event(d)]
      BY <1>1, <1>2, <2>2 DEF RegistryInv, RegistryTypes, Event, Events
    <3>2. index[d] # NULL => index[d] \in Nat /\ index[d] < count[Event(d)]
                             /\ count[Event(d)] \in Nat
                             /\ count'[Event(d)] \in Nat
      BY <1>6, <3>1 DEF RegistryInv, RegistryTypes, Indices
    <3>3. Indices(d)'
      <4>1. ASSUME index[d] # NULL, NEW b \in Callers \ {d},
                   Event(b) = Event(d)
            PROVE  index'[b] # index[d]
        BY <1>1, <3>1, <3>2, <4>1 DEF RegistryInv, RegistryTypes, Indices
      <4>2. index[d] # NULL => index[d] < count'[Event(d)]
        BY <3>1, <3>2
      <4> QED
        BY <3>1, <4>1, <4>2 DEF RegistryInv, Indices, Event
    <3>4. Kept(d)'
      <4> SUFFICES ASSUME d \notin Onces, pc[d] = "done",
                          ~ (index[d] = 0 /\ \E b \in Onces : Event(b) = Event(d))
                   PROVE  /\ index[d] \in DOMAIN callbaks'[Event(d)]
                          /\ callbaks'[Event(d)][index[d]] = d
        BY <3>1 DEF RegistryInv, Kept, Event
      <4>1. /\ index[d] # NULL /\ index[d] \in DOMAIN callbaks[Event(d)]
            /\ callbaks[Event(d)][index[d]] = d
        BY DEF RegistryInv, Kept
      <4>2. Event(d) # e \/ index[d] # i
        BY <1>2, <3>2, <4>1
      <4> QED
        BY <1>4, <3>1, <4>1, <4>2
    <3> QED
      BY <3>3, <3>4
  <2> QED
    BY <2>1, <2>2
<1> QED
  BY <1>6, <1>8 DEF RegistryInv

\* Every step keeps the registries' invariant.
LEMMA RegistryInvInductive == RegistryInv /\ [Next]_vars => RegistryInv'
<1> SUFFICES ASSUME RegistryInv, [Next]_vars PROVE RegistryInv'
  OBVIOUS
<1>1. ASSUME UNCHANGED <<mapVars, callerVars>>
      PROVE  RegistryInv'
  BY <1>1 DEF RegistryInv, RegistryTypes, Indices, Kept, Event, mapVars,
              callerVars
<1>2. CASE \E l \in Loops : EnsureConnected(l) \/ LoopStep(l)
  BY <1>1, <1>2 DEF EnsureConnected, LoopStep, Ask, Head, Connect, ConnectOk,
     ConnectFail, Aborted, LinkUp, Fire, Elsewhere
<1>3. CASE Drop \/ Reconnect \/ StopRetry \/ Disconnect
  BY <1>1, <1>3 DEF Drop, Reconnect, StopRetry, Disconnect, LinkUp, Fire,
     Elsewhere
<1>4. CASE \E e \in Events : HandlerStep(e)
  BY <1>1, <1>4 DEF HandlerStep, RangeBegin, Visit, RangeDone
<1>5. ASSUME NEW c \in Callers, RegisterStep(c)
      PROVE  RegistryInv'
  <2>1. CASE OnConnectOnce(c) \/ CheckDown(c) \/ Assign(c)
    <3>1. UNCHANGED <<mapVars, index>>
      BY <2>1 DEF OnConnectOnce, CheckDown, Assign
    <3>2. pc' \in PCs
      BY <2>1 DEF OnConnectOnce, CheckDown, Assign, RegistryInv, RegistryTypes,
         PCs
    <3>3. \A d \in Callers : Moves(d)
      BY <2>1 DEF OnConnectOnce, CheckDown, AtCheck, CallerAt, Assign,
         RegistryInv, RegistryTypes, PCs, Indices, Moves
    <3> QED
      BY <3>1, <3>2, <3>3, MovesKeep
  <2>2. CASE CheckUp(c)
    <3>1. /\ pc' \in PCs /\ UNCHANGED index
          /\ c \in Onces => Remove("connect", 0) /\ Event(c) = "connect"
          /\ c \notin Onces => UNCHANGED mapVars
      BY <2>2 DEF CheckUp, AtCheck, CallerAt, SubID, RegistryInv,
         RegistryTypes, PCs, Indices, Event
    <3>2. \A d \in Callers : Moves(d)
      BY <2>2 DEF CheckUp, AtCheck, CallerAt, RegistryInv, RegistryTypes, PCs,
         Indices, Moves
    <3>3. "connect" \in Events
      BY DEF Events
    <3> QED
      BY <3>1, <3>2, <3>3, RemoveKeeps, MovesKeep
  <2>3. CASE Insert(c)
    BY <2>3, InsertKeeps
  <2>4. CASE Off(c)
    <3>1. /\ Remove(Event(c), index[c]) /\ UNCHANGED index
          /\ pc' = [pc EXCEPT ![c] = "left"] /\ Event(c) \in Events
      BY <2>4 DEF Off, Event, Events
    <3>2. pc' \in PCs /\ \A d \in Callers : Moves(d)
      BY <3>1 DEF RegistryInv, RegistryTypes, PCs, Moves
    <3>3. \A d \in Callers \ Onces :
            ~ (/\ Event(d) = Event(c) /\ pc'[d] = "done"
               /\ index[d] = index[c] /\ index[c] # NULL)
      BY <3>1 DEF RegistryInv, RegistryTypes, PCs, Indices
    <3> QED
      BY <3>1, <3>2, <3>3, RemoveKeeps
  <2> QED
    BY <1>5, <2>1, <2>2, <2>3, <2>4 DEF RegisterStep
<1>6. ASSUME NEW c \in Callers, Run(c)
      PROVE  RegistryInv'
  <2>1. CASE c \in Onces
    <3>1. /\ Remove(Event(c), SubID(c)) /\ UNCHANGED <<pc, index>>
          /\ Event(c) \in Events
          /\ SubID(c) = 0 \/ SubID(c) = index[c]
      BY <1>6, <2>1 DEF Run, callerVars, SubID, Event, Events
    <3>2. pc' \in PCs /\ \A d \in Callers : Moves(d)
      BY <3>1 DEF RegistryInv, RegistryTypes, Moves
    <3>3. \A d \in Callers \ Onces :
            (Event(d) = Event(c) /\ index[d] = SubID(c) /\ SubID(c) # NULL)
                => SubID(c) = 0 /\ \E b \in Onces : Event(b) = Event(c)
      BY <2>1, <3>1 DEF RegistryInv, Indices
    <3> QED
      BY <3>1, <3>2, <3>3, RemoveKeeps
  <2>2. CASE c \notin Onces
    BY <1>1, <1>6, <2>2 DEF Run
  <2> QED
    BY <2>1, <2>2
<1>7. ASSUME NEW c \in Callers, RacingWrite(c)
      PROVE  RegistryInv'
  BY <1>1, <1>7 DEF RacingWrite, WriteRace
<1>8. CASE UNCHANGED vars
  BY <1>1, <1>8 DEF vars
<1> QED
  BY <1>2, <1>3, <1>4, <1>5, <1>6, <1>7, <1>8 DEF Next, Halted

\* Hence it holds of every reachable state.
LEMMA RegistryInvInvariant == Spec => []RegistryInv
<1>1. Init => RegistryInv
  <2> SUFFICES ASSUME Init PROVE RegistryInv
    OBVIOUS
  <2>1. <<>> \in Registries
    BY DEF Registries
  <2>2. RegistryTypes
    BY <2>1 DEF Init, RegistryTypes, PCs
  <2>3. \A c \in Callers : Indices(c) /\ Kept(c)
    BY DEF Init, Indices, Kept
  <2> QED
    BY <2>2, <2>3 DEF RegistryInv
<1> QED
  BY <1>1, RegistryInvInductive, PTL DEF Spec

\* A registration outlives everything the other callers, the handlers and the
\* callbacks do, but for a once-callback that takes index 0 for its own.
THEOREM RegistrationsKept == Spec => []KeepsRegistration
<1>1. RegistryInv => KeepsRegistration
  BY DEF RegistryInv, Kept, KeepsRegistration
<1> QED
  BY <1>1, RegistryInvInvariant, PTL
-----------------------------------------------------------------------------
(* What the handlers do.                                                   *)

HandlerTypes ==
    /\ due \in [Events -> Nat]
    /\ ranging \in [Events -> BOOLEAN]
    /\ todo \in [Events -> SUBSET Nat]
    /\ spawned \in [Callers -> Nat]
    /\ ran \in [Callers -> BOOLEAN]
    /\ armed \in [Callers -> {"no", "yes", "missed"}]
    /\ \A e \in Events : ~ranging[e] => todo[e] = {}

\* An entry of a registry is its caller's only one, under the caller's index,
\* and the handler visits entries only.
Entries ==
    \A e \in Events :
        /\ todo[e] \subseteq DOMAIN callbaks[e]
        /\ \A i \in DOMAIN callbaks[e] :
            Event(callbaks[e][i]) = e /\ index[callbaks[e][i]] = i

\* NotForgotten, for one caller; an event can only find what was inserted.
Remembered(c) ==
    /\ armed[c] = "yes" => index[c] # NULL
    /\ (armed[c] = "yes" /\ Registered(c) /\ ~ran[c]) => Coming(c)

\* On a client that is connected OnConnect has run the callback before it
\* registers it, or the connection was made since it looked; a callback that is
\* registered was run, or was there when the connection was made.
Looked(c) ==
    /\ pc[c] \notin {"check", "assign"}
    /\ (PahoIsConnected /\ pc[c] = "insert") => ran[c] \/ armed[c] = "missed"
    /\ (PahoIsConnected /\ Registered(c)) => ran[c] \/ armed[c] # "no"

Watched == Callers \ (Onces \union Losts)

Invoked(c) == Remembered(c) /\ (c \in Watched => Looked(c))

HandlerInv ==
    /\ HandlerTypes
    /\ Entries
    /\ \A c \in Callers : Invoked(c)

InvokedInv == RegistryInv /\ HandlerInv

\* The entries of a registry are callers, under natural numbers.
LEMMA EntriesTyped ==
    ASSUME InvokedInv
    PROVE  \A f \in Events : /\ DOMAIN callbaks[f] \in SUBSET Nat
                             /\ \A j \in DOMAIN callbaks[f] :
                                    callbaks[f][j] \in Callers
<1> SUFFICES ASSUME NEW f \in Events
             PROVE  /\ DOMAIN callbaks[f] \in SUBSET Nat
                    /\ \A j \in DOMAIN callbaks[f] : callbaks[f][j] \in Callers
  OBVIOUS
<1>1. PICK D \in SUBSET Nat : callbaks[f] \in [D -> Callers]
  BY DEF InvokedInv, RegistryInv, RegistryTypes, Registries
<1> QED
  BY <1>1

\* The registry holds no entry of a caller that has not inserted one.
LEMMA EntryOfCaller ==
    ASSUME InvokedInv, NEW c \in Callers, Registered(c)
    PROVE  /\ index[c] \in DOMAIN callbaks[Event(c)]
           /\ callbaks[Event(c)][index[c]] = c
           /\ index[c] \in Nat
           /\ pc[c] \notin {"new", "check", "insert"}
<1>1. PICK i \in DOMAIN callbaks[Event(c)] : callbaks[Event(c)][i] = c
  BY DEF Registered
<1>2. Event(c) \in Events
  BY DEF Event, Events
<1>3. index[c] = i /\ i \in Nat
  <2>1. index[c] = i
    BY <1>1, <1>2 DEF InvokedInv, HandlerInv, Entries
  <2> QED
    BY <1>1, <1>2, <2>1, EntriesTyped
<1> QED
  BY <1>1, <1>3, AdapterAssumption DEF InvokedInv, RegistryInv, Indices

\* The initial states satisfy the invariant.
LEMMA InitInvoked == Init => InvokedInv
<1> SUFFICES ASSUME Init PROVE InvokedInv
  OBVIOUS
<1>1. RegistryInv
  <2>1. <<>> \in Registries
    BY DEF Registries
  <2> QED
    BY <2>1 DEF Init, RegistryInv, RegistryTypes, PCs, Indices, Kept
<1>2. HandlerTypes /\ Entries
  BY DEF Init, HandlerTypes, Entries
<1>3. \A c \in Callers : Invoked(c)
  BY DEF Init, Invoked, Remembered, Looked, PahoIsConnected
<1> QED
  BY <1>1, <1>2, <1>3 DEF InvokedInv, HandlerInv

\* What a step between two events has to leave a caller for it to stay
\* remembered.
LEMMA StillInvoked ==
    ASSUME NEW c \in Callers, Invoked(c), PahoIsConnected' => PahoIsConnected,
           armed'[c] = armed[c], index[c] # NULL => index'[c] # NULL,
           ran[c] => ran'[c],
           Registered(c)' => Registered(c),
           (Registered(c)' /\ ~ran'[c] /\ Coming(c)) => Coming(c)',
           c \in Watched =>
               \/ pc'[c] = pc[c]
               \/ pc'[c] = "left"
               \/ pc'[c] = "insert" /\ (PahoIsConnected => ran'[c])
    PROVE  Invoked(c)'
BY DEF Invoked, Remembered, Looked, Watched

\* A connection lost or made; losing it leaves the callbacks of OnConnect as
\* they are.
LEMMA FireKeeps ==
    ASSUME InvokedInv, NEW e \in Events, Fire(e),
           \/ e = "connect"
           \/ e = "lost" /\ PahoIsConnected
    PROVE  HandlerInv'
<1>0. /\ due' = [due EXCEPT ![e] = @ + 1]
      /\ ran' = [c \in Callers |-> Event(c) # e /\ ran[c]]
      /\ armed' = [c \in Callers |-> IF Event(c) = e THEN Met(c) ELSE armed[c]]
      /\ UNCHANGED <<callbaks, count, pc, index, ranging, todo, spawned>>
  BY DEF Fire, mapVars, callerVars
<1>1. HandlerTypes'
  <2>1. ran' \in [Callers -> BOOLEAN]
    BY <1>0, Zenon
  <2>2. armed' \in [Callers -> {"no", "yes", "missed"}]
    BY <1>0 DEF InvokedInv, HandlerInv, HandlerTypes, Met
  <2>3. due' \in [Events -> Nat]
    BY <1>0 DEF InvokedInv, HandlerInv, HandlerTypes
  <2> QED
    BY <1>0, <2>1, <2>2, <2>3 DEF InvokedInv, HandlerInv, HandlerTypes
<1>2. Entries'
  BY <1>0 DEF InvokedInv, HandlerInv, Entries, Event
<1>3. ASSUME NEW c \in Callers
      PROVE  Invoked(c)'
  <2>0. /\ Event(c) \in Events /\ Event(c)' = Event(c) /\ Invoked(c)
        /\ Registered(c)' <=> Registered(c)
    BY <1>0 DEF Event, Events, InvokedInv, HandlerInv, Registered
  <2>1. CASE Event(c) = e
    <3>1. due'[Event(c)] > 0 /\ armed'[c] = Met(c)
      BY <1>0, <2>0, <2>1 DEF InvokedInv, HandlerInv, HandlerTypes
    <3>2. Registered(c) => armed'[c] = "yes" /\ index[c] # NULL
      BY <3>1, EntryOfCaller, AdapterAssumption DEF Met
    <3>3. ~Registered(c) => armed'[c] # "yes"
      BY <3>1 DEF Met
    <3>4. pc[c] = "insert" => armed'[c] = "missed"
      BY <3>1, EntryOfCaller DEF Met
    <3> QED
      BY <1>0, <2>0, <3>1, <3>2, <3>3, <3>4
      DEF Invoked, Remembered, Looked, Coming, Watched
  <2>2. CASE Event(c) # e
    <3>1. ran'[c] = ran[c] /\ armed'[c] = armed[c]
          /\ due'[Event(c)] = due[Event(c)]
      BY <1>0, <2>0, <2>2 DEF InvokedInv, HandlerInv, HandlerTypes
    <3>2. Coming(c)' <=> Coming(c)
      BY <1>0, <2>0, <3>1 DEF Coming
    <3>3. c \in Watched => PahoIsConnected
      BY <2>2 DEF Watched, Event
    <3> QED
      BY <1>0, <2>0, <3>1, <3>2, <3>3 DEF Invoked, Remembered, Looked
  <2> QED
    BY <2>1, <2>2
<1> QED
  BY <1>1, <1>2, <1>3 DEF HandlerInv

\* What an entry's removal takes from the handler is no longer registered.
LEMMA RemoveInvoked ==
    ASSUME InvokedInv, NEW e \in Events, NEW i, Remove(e, i), UNCHANGED index,
           pc' \in PCs, spawned' \in [Callers -> Nat],
           ran' \in [Callers -> BOOLEAN],
           \A c \in Callers :
               /\ c \in Watched => pc'[c] = pc[c] \/ pc'[c] = "left"
               /\ ran[c] => ran'[c]
               /\ ran'[c] \/ spawned'[c] = spawned[c]
    PROVE  HandlerInv'
<1>0. /\ callbaks' = [callbaks EXCEPT ![e] = Restrict(@, DOMAIN @ \ {i})]
      /\ todo' = [todo EXCEPT ![e] = @ \ {i}]
      /\ UNCHANGED <<link, due, ranging, armed>>
  BY DEF Remove, linkVars
<1>1. HandlerTypes'
  BY <1>0 DEF InvokedInv, HandlerInv, HandlerTypes
<1>2. \A f \in Events : \A j \in DOMAIN callbaks'[f] :
        /\ j \in DOMAIN callbaks[f] /\ callbaks'[f][j] = callbaks[f][j]
        /\ f = e => j # i
  BY <1>0 DEF Restrict, InvokedInv, RegistryInv, RegistryTypes
<1>3. Entries'
  <2>1. \A f \in Events : todo'[f] \subseteq DOMAIN callbaks'[f]
    BY <1>0 DEF Restrict, InvokedInv, HandlerInv, HandlerTypes, RegistryInv,
                RegistryTypes, Entries
  <2> QED
    BY <1>2, <2>1 DEF InvokedInv, HandlerInv, Entries, Event
<1>4. ASSUME NEW c \in Callers
      PROVE  Invoked(c)'
  <2>0. Event(c) \in Events /\ Event(c)' = Event(c) /\ Invoked(c)
    BY DEF Event, Events, InvokedInv, HandlerInv
  <2>1. Registered(c)' => Registered(c) /\ (index[c] # i \/ e # Event(c))
    <3> SUFFICES ASSUME NEW j \in DOMAIN callbaks'[Event(c)],
                        callbaks'[Event(c)][j] = c
                 PROVE  Registered(c) /\ (index[c] # i \/ e # Event(c))
      BY <2>0 DEF Registered
    <3>1. /\ j \in DOMAIN callbaks[Event(c)] /\ callbaks[Event(c)][j] = c
          /\ e = Event(c) => j # i
      BY <1>2, <2>0
    <3>2. index[c] = j
      BY <2>0, <3>1 DEF InvokedInv, HandlerInv, Entries
    <3> QED
      BY <3>1, <3>2 DEF Registered
  <2>2. (Coming(c) /\ ~ran'[c] /\ (index[c] # i \/ e # Event(c))) => Coming(c)'
    BY <1>0, <2>0 DEF Coming, InvokedInv, HandlerInv, HandlerTypes
  <2>3. (PahoIsConnected' <=> PahoIsConnected) /\ armed'[c] = armed[c]
    BY <1>0 DEF PahoIsConnected
  <2> QED
    BY <2>0, <2>1, <2>2, <2>3, StillInvoked
<1> QED
  BY <1>1, <1>3, <1>4 DEF HandlerInv

\* A new entry disturbs no other and comes after the caller has looked.
LEMMA InsertInvoked ==
    ASSUME InvokedInv, NEW c \in Callers, Insert(c)
    PROVE  HandlerInv'
<1> DEFINE e == Event(c)
           i == count[e]
<1>0. /\ callbaks' = [callbaks EXCEPT ![e] =
                        [j \in DOMAIN callbaks[e] \union {i} |->
                            IF j = i THEN c ELSE callbaks[e][j]]]
      /\ index' = [index EXCEPT ![c] = i]
      /\ pc' = [pc EXCEPT ![c] = IF c \in Onces THEN "assign" ELSE "done"]
      /\ todo' = todo \/ (ranging[e] /\ todo' = [todo EXCEPT ![e] = @ \union {i}])
      /\ UNCHANGED <<link, due, ranging, spawned, ran, armed>>
  BY DEF Insert, linkVars, runVars
<1>1. e \in Events /\ i \in Nat
  BY DEF InvokedInv, RegistryInv, RegistryTypes, Event, Events
<1>2. HandlerTypes'
  BY <1>0, <1>1 DEF InvokedInv, HandlerInv, HandlerTypes
<1>3. pc[c] \in {"new", "insert"} /\ index[c] = NULL
  BY DEF Insert, AtInsert, CallerAt, InvokedInv, RegistryInv, Indices
<1>4. \A f \in Events : \A j \in DOMAIN callbaks[f] : callbaks[f][j] # c
  <2> SUFFICES ASSUME NEW f \in Events, NEW j \in DOMAIN callbaks[f],
                      callbaks[f][j] = c
               PROVE  FALSE
    OBVIOUS
  <2>1. Event(c) = f
    BY DEF InvokedInv, HandlerInv, Entries
  <2>2. Registered(c)
    BY <2>1 DEF Registered
  <2> QED
    BY <1>3, <2>2, EntryOfCaller
<1>5. \A f \in Events : \A j \in DOMAIN callbaks'[f] :
        \/ f = e /\ j = i /\ callbaks'[f][j] = c
        \/ /\ j \in DOMAIN callbaks[f] /\ callbaks'[f][j] = callbaks[f][j]
  BY <1>0, <1>1 DEF InvokedInv, RegistryInv, RegistryTypes
<1>6. \A d \in Callers : d # c => index'[d] = index[d] /\ pc'[d] = pc[d]
  BY <1>0 DEF InvokedInv, RegistryInv, RegistryTypes, PCs
<1>7. index'[c] = i /\ pc'[c] = (IF c \in Onces THEN "assign" ELSE "done")
  BY <1>0 DEF InvokedInv, RegistryInv, RegistryTypes, PCs
<1>8. \A f \in Events : \A j \in DOMAIN callbaks[f] : callbaks[f][j] \in Callers
  BY EntriesTyped
<1>9. \A f \in Events : todo'[f] \subseteq DOMAIN callbaks'[f]
  BY <1>0, <1>1 DEF InvokedInv, HandlerInv, HandlerTypes, RegistryInv,
                    RegistryTypes, Entries
<1> HIDE DEF i
<1>10. Entries'
  <2> SUFFICES ASSUME NEW f \in Events, NEW j \in DOMAIN callbaks'[f]
               PROVE  Event(callbaks'[f][j]) = f /\ index'[callbaks'[f][j]] = j
    BY <1>9 DEF Entries, Event
  <2>1. CASE f = e /\ j = i /\ callbaks'[f][j] = c
    BY <1>7, <2>1
  <2>2. CASE j \in DOMAIN callbaks[f] /\ callbaks'[f][j] = callbaks[f][j]
    BY <1>4, <1>6, <1>8, <2>2 DEF InvokedInv, HandlerInv, Entries
  <2> QED
    BY <1>5, <2>1, <2>2
<1>11. ASSUME NEW d \in Callers
       PROVE  Invoked(d)'
  <2>0. Event(d) \in Events /\ Event(d)' = Event(d) /\ Invoked(d)
    BY DEF Event, Events, InvokedInv, HandlerInv
  <2>1. PahoIsConnected' <=> PahoIsConnected
    BY <1>0 DEF PahoIsConnected
  <2>2. CASE d = c
    <3>1. armed'[c] # "yes" /\ armed'[c] = armed[c] /\ ran'[c] = ran[c]
      BY <1>0, <1>3, <2>0, <2>2 DEF Invoked, Remembered
    <3>2. c \in Watched => pc[c] = "insert" /\ pc'[c] = "done"
      BY <1>7 DEF Insert, AtInsert, CallerAt, Watched
    <3> QED
      BY <2>0, <2>1, <2>2, <3>1, <3>2 DEF Invoked, Remembered, Looked
  <2>3. CASE d # c
    <3>1. Registered(d)' => Registered(d)
      <4> SUFFICES ASSUME NEW j \in DOMAIN callbaks'[Event(d)],
                          callbaks'[Event(d)][j] = d
                   PROVE  Registered(d)
        BY <2>0 DEF Registered
      <4> QED
        BY <1>5, <2>0, <2>3 DEF Registered
    <3>2. Coming(d) => Coming(d)'
      BY <1>0, <1>1, <1>6, <2>0, <2>3
      DEF Coming, InvokedInv, HandlerInv, HandlerTypes
    <3> QED
      BY <1>0, <1>6, <2>0, <2>1, <2>3, <3>1, <3>2, StillInvoked
  <2> QED
    BY <2>2, <2>3
<1> QED
  BY <1>2, <1>10, <1>11 DEF HandlerInv

\* The handler: it takes up every registered callback, and starts it.
LEMMA HandlerInvoked ==
    ASSUME InvokedInv, NEW e \in Events, HandlerStep(e)
    PROVE  HandlerInv'
<1>0. /\ UNCHANGED <<link, callbaks, index, pc, ran, armed>>
      /\ due \in [Events -> Nat] /\ ranging \in [Events -> BOOLEAN]
      /\ todo \in [Events -> SUBSET Nat] /\ spawned \in [Callers -> Nat]
  BY DEF HandlerStep, RangeBegin, Visit, RangeDone, linkVars, mapVars,
         callerVars, runVars, InvokedInv, HandlerInv, HandlerTypes
<1>1. \A f \in Events : /\ DOMAIN callbaks[f] \in SUBSET Nat
                        /\ \A j \in DOMAIN callbaks[f] : callbaks[f][j] \in Callers
  BY EntriesTyped
<1>2. Entries'
  <2>1. \A f \in Events : todo'[f] \subseteq DOMAIN callbaks[f]
    BY <1>0 DEF HandlerStep, RangeBegin, Visit, RangeDone, InvokedInv,
                HandlerInv, Entries
  <2> QED
    BY <1>0, <2>1 DEF InvokedInv, HandlerInv, Entries, Event
<1>3. ASSUME \A c \in Callers : (Coming(c) /\ Registered(c)) => Coming(c)'
      PROVE  \A c \in Callers : Invoked(c)'
  <2> SUFFICES ASSUME NEW c \in Callers PROVE Invoked(c)'
    OBVIOUS
  <2>1. /\ Registered(c)' <=> Registered(c)
        /\ PahoIsConnected' <=> PahoIsConnected
        /\ Invoked(c)
    BY <1>0 DEF Registered, Event, PahoIsConnected, InvokedInv, HandlerInv
  <2> QED
    BY <1>0, <1>3, <2>1, StillInvoked
<1>4. CASE RangeBegin(e)
  <2>1. HandlerTypes'
    BY <1>0, <1>1, <1>4 DEF RangeBegin, InvokedInv, HandlerInv, HandlerTypes,
                            runVars
  <2>2. ASSUME NEW c \in Callers, Coming(c), Registered(c)
        PROVE  Coming(c)'
    <3>1. Event(c) \in Events /\ Event(c)' = Event(c)
      BY DEF Event, Events
    <3>2. index[c] \in DOMAIN callbaks[Event(c)]
      BY <2>2, EntryOfCaller
    <3>3. e = Event(c) => index[c] \in todo'[Event(c)]
      BY <1>0, <1>4, <3>1, <3>2 DEF RangeBegin
    <3>4. e # Event(c) => due'[Event(c)] = due[Event(c)]
                          /\ todo'[Event(c)] = todo[Event(c)]
      BY <1>0, <1>4, <3>1 DEF RangeBegin
    <3> QED
      BY <1>0, <1>4, <2>2, <3>1, <3>3, <3>4 DEF Coming, RangeBegin, runVars
  <2> QED
    BY <1>2, <1>3, <2>1, <2>2 DEF HandlerInv
<1>5. CASE Visit(e)
  <2>0. PICK i \in todo[e] :
          /\ todo' = [todo EXCEPT ![e] = @ \ {i}]
          /\ spawned' = [spawned EXCEPT ![callbaks[e][i]] = @ + 1]
    BY <1>5 DEF Visit
  <2>1. HandlerTypes'
    <3>1. spawned' \in [Callers -> Nat]
      <4>1. callbaks[e][i] \in Callers
        BY <1>1 DEF InvokedInv, HandlerInv, Entries
      <4>2. spawned[callbaks[e][i]] + 1 \in Nat
        BY <1>0, <4>1
      <4> QED
        BY <1>0, <2>0, <4>1, <4>2
    <3>2. todo' \in [Events -> SUBSET Nat]
      <4>1. todo[e] \ {i} \in SUBSET Nat
        BY <1>0
      <4> QED
        BY <1>0, <2>0, <4>1
    <3> QED
      BY <1>0, <1>5, <2>0, <3>1, <3>2
      DEF Visit, InvokedInv, HandlerInv, HandlerTypes
  <2>2. ASSUME NEW c \in Callers, Coming(c), Registered(c)
        PROVE  Coming(c)'
    <3>1. Event(c) \in Events /\ Event(c)' = Event(c)
      BY DEF Event, Events
    <3>2. callbaks[Event(c)][index[c]] = c
      BY <2>2, EntryOfCaller
    <3>3. (e = Event(c) /\ index[c] = i) => spawned'[c] > 0
      BY <1>0, <2>0, <3>1, <3>2
    <3>4. (e # Event(c) \/ index[c] # i) =>
            (index[c] \in todo[Event(c)] => index[c] \in todo'[Event(c)])
      BY <1>0, <2>0, <3>1
    <3>5. due' = due /\ (spawned[c] > 0 => spawned'[c] > 0)
      BY <1>0, <1>5, <2>0 DEF Visit
    <3> QED
      BY <1>0, <2>2, <3>1, <3>3, <3>4, <3>5 DEF Coming
  <2> QED
    BY <1>2, <1>3, <2>1, <2>2 DEF HandlerInv
<1>6. CASE RangeDone(e)
  <2>1. HandlerTypes'
    BY <1>0, <1>6 DEF RangeDone, InvokedInv, HandlerInv, HandlerTypes, runVars
  <2>2. \A c \in Callers : Coming(c)' <=> Coming(c)
    BY <1>0, <1>6 DEF RangeDone, Coming, Event, runVars
  <2> QED
    BY <1>2, <1>3, <2>1, <2>2 DEF HandlerInv
<1> QED
  BY <1>4, <1>5, <1>6 DEF HandlerStep

\* Steps that leave callbacks and registries alone, and do not connect.
LEMMA LinkApart ==
    ASSUME InvokedInv, UNCHANGED <<mapVars, callerVars, handlerVars, runVars>>,
           PahoIsConnected' => PahoIsConnected
    PROVE  HandlerInv'
<1> USE DEF mapVars, callerVars, handlerVars, runVars
<1>1. HandlerTypes' /\ Entries'
  BY DEF InvokedInv, HandlerInv, HandlerTypes, Entries, Event
<1>2. ASSUME NEW c \in Callers
      PROVE  Invoked(c)'
  <2>1. (Registered(c)' <=> Registered(c)) /\ (Coming(c)' <=> Coming(c))
    BY DEF Registered, Event, Coming
  <2> QED
    BY <2>1, StillInvoked DEF InvokedInv, HandlerInv
<1> QED
  BY <1>1, <1>2 DEF HandlerInv

\* The callers' own steps.
LEMMA RegisterInvoked ==
    ASSUME InvokedInv, RegistryInv', NEW c \in Callers,
           RegisterStep(c) \/ Run(c)
    PROVE  HandlerInv'
<1>0. /\ pc \in PCs /\ pc' \in PCs /\ spawned \in [Callers -> Nat]
      /\ ran \in [Callers -> BOOLEAN]
  BY DEF InvokedInv, HandlerInv, HandlerTypes, RegistryInv, RegistryTypes
<1>1. ASSUME UNCHANGED <<link, mapVars, index, handlerVars, armed>>,
             ran' \in [Callers -> BOOLEAN], spawned' \in [Callers -> Nat],
             \A d \in Callers :
                /\ ran[d] => ran'[d]
                /\ ran'[d] \/ spawned'[d] = spawned[d]
                /\ d \in Watched =>
                     \/ pc'[d] = pc[d]
                     \/ pc'[d] = "insert" /\ (PahoIsConnected => ran'[d])
      PROVE  HandlerInv'
  <2>1. HandlerTypes' /\ Entries'
    BY <1>1 DEF InvokedInv, HandlerInv, HandlerTypes, Entries, Event, mapVars,
                handlerVars
  <2>2. ASSUME NEW d \in Callers
        PROVE  Invoked(d)'
    <3>1. /\ Registered(d)' <=> Registered(d)
          /\ (Coming(d) /\ ~ran'[d]) => Coming(d)'
          /\ PahoIsConnected' <=> PahoIsConnected
          /\ armed'[d] = armed[d]
      BY <1>1 DEF Registered, Event, Coming, PahoIsConnected, mapVars, handlerVars
    <3> QED
      BY <1>1, <3>1, StillInvoked DEF InvokedInv, HandlerInv
  <2> QED
    BY <2>1, <2>2 DEF HandlerInv
<1>2. CASE OnConnectOnce(c)
  <2>1. ran' \in [Callers -> BOOLEAN]
    <3>1. PahoIsConnected \in BOOLEAN
      BY DEF PahoIsConnected
    <3>2. ran' = [ran EXCEPT ![c] = PahoIsConnected]
      BY <1>2 DEF OnConnectOnce
    <3> QED
      BY <1>0, <3>1, <3>2
  <2>2. \A d \in Callers : d # c => ran'[d] = ran[d] /\ pc'[d] = pc[d]
    BY <1>0, <1>2 DEF OnConnectOnce, PCs
  <2>3. c \notin Watched /\ UNCHANGED <<link, mapVars, index, handlerVars, spawned, armed>>
    BY <1>2 DEF OnConnectOnce, Watched, linkVars
  <2>4. HandlerTypes' /\ Entries'
    BY <2>1, <2>3 DEF InvokedInv, HandlerInv, HandlerTypes, Entries, Event,
                      mapVars, handlerVars
  <2>5. ASSUME NEW d \in Callers
        PROVE  Invoked(d)'
    <3>1. /\ Registered(d)' <=> Registered(d)
          /\ Coming(d)' <=> Coming(d)
          /\ PahoIsConnected' <=> PahoIsConnected
      BY <2>3 DEF Registered, Event, Coming, PahoIsConnected, mapVars, handlerVars
    <3>2. CASE d # c
      BY <2>2, <2>3, <3>1, <3>2, StillInvoked DEF InvokedInv, HandlerInv
    <3>3. CASE d = c
      <4>1. ~Registered(c)
        BY <1>2, EntryOfCaller DEF OnConnectOnce, CallerAt
      <4> QED
        BY <2>3, <3>1, <3>3, <4>1 DEF InvokedInv, HandlerInv, Invoked, Remembered
    <3> QED
      BY <3>2, <3>3
  <2> QED
    BY <2>4, <2>5 DEF HandlerInv
<1>3. CASE CheckDown(c)
  BY <1>0, <1>1, <1>3 DEF CheckDown, linkVars, runVars, PCs
<1>4. CASE CheckUp(c)
  <2>1. ran' \in [Callers -> BOOLEAN] /\ spawned' = spawned /\ index' = index
        /\ \A d \in Callers : ran[d] => ran'[d]
    BY <1>0, <1>4 DEF CheckUp
  <2>2. CASE c \in Onces
    <3>1. Remove("connect", SubID(c)) /\ "connect" \in Events
      BY <1>4, <2>2 DEF CheckUp, Events
    <3>2. \A d \in Watched : pc'[d] = pc[d]
      BY <1>0, <1>4, <2>2 DEF CheckUp, Watched, PCs
    <3> QED
      BY <1>0, <2>1, <3>1, <3>2, RemoveInvoked
  <2>3. CASE c \notin Onces
    <3>1. UNCHANGED <<link, mapVars, handlerVars, armed>>
      BY <1>4, <2>3 DEF CheckUp, linkVars
    <3>2. \A d \in Callers : pc'[d] = pc[d] \/ (pc'[d] = "insert" /\ ran'[d])
      BY <1>0, <1>4 DEF CheckUp, PCs
    <3> QED
      BY <1>0, <1>1, <2>1, <3>1, <3>2
  <2> QED
    BY <2>2, <2>3
<1>5. CASE Insert(c)
  BY <1>5, InsertInvoked
<1>6. CASE Assign(c)
  <2>1. c \notin Watched
    BY <1>6 DEF Assign, CallerAt, InvokedInv, HandlerInv, Invoked, Looked
  <2> QED
    BY <1>0, <1>1, <1>6, <2>1 DEF Assign, linkVars, runVars, PCs
<1>7. CASE Off(c)
  <2>1. Remove(Event(c), index[c]) /\ Event(c) \in Events
    BY <1>7 DEF Off, Event, Events
  <2>2. \A d \in Callers : pc'[d] = pc[d] \/ pc'[d] = "left"
    BY <1>0, <1>7 DEF Off, PCs
  <2> QED
    BY <1>0, <1>7, <2>1, <2>2, RemoveInvoked DEF Off
<1>8. CASE Run(c)
  <2>1. /\ ran' = [ran EXCEPT ![c] = TRUE]
        /\ spawned' = [spawned EXCEPT ![c] = @ - 1]
        /\ spawned[c] > 0 /\ UNCHANGED <<pc, index>>
    BY <1>8 DEF Run, callerVars
  <2>2. ran' \in [Callers -> BOOLEAN] /\ spawned' \in [Callers -> Nat]
    BY <1>0, <2>1
  <2>3. \A d \in Callers : (ran[d] => ran'[d]) /\ (ran'[d] \/ spawned'[d] = spawned[d])
    BY <1>0, <2>1
  <2>4. CASE c \in Onces
    <3>1. Remove(Event(c), SubID(c)) /\ Event(c) \in Events
      BY <1>8, <2>4 DEF Run, Event, Events
    <3> QED
      BY <1>0, <2>1, <2>2, <2>3, <3>1, RemoveInvoked
  <2>5. CASE c \notin Onces
    <3>1. UNCHANGED <<link, mapVars, handlerVars, armed>>
      BY <1>8, <2>5 DEF Run, linkVars
    <3> QED
      BY <1>1, <2>1, <2>2, <2>3, <3>1
  <2> QED
    BY <2>4, <2>5
<1> QED
  BY <1>2, <1>3, <1>4, <1>5, <1>6, <1>7, <1>8 DEF RegisterStep

\* Every step preserves the invariant.
LEMMA InvokedInductive == InvokedInv /\ [Next]_vars => InvokedInv'
<1> SUFFICES ASSUME InvokedInv, [Next]_vars PROVE InvokedInv'
  OBVIOUS
<1>0. RegistryInv'
  BY RegistryInvInductive DEF InvokedInv
<1> SUFFICES HandlerInv'
  BY <1>0 DEF InvokedInv
<1>1. ASSUME NEW l \in Loops, EnsureConnected(l) \/ LoopStep(l)
      PROVE  HandlerInv'
  <2>1. CASE ConnectOk(l)
    BY <2>1, FireKeeps DEF ConnectOk, LinkUp, Events
  <2>2. CASE ~ConnectOk(l)
    <3>1. UNCHANGED <<mapVars, callerVars, handlerVars, runVars>>
          /\ (PahoIsConnected' => PahoIsConnected)
      BY <1>1, <2>2 DEF EnsureConnected, LoopStep, Ask, Head, Connect,
         ConnectFail, Aborted, Elsewhere, linkVars, PahoIsConnected
    <3> QED
      BY <3>1, LinkApart
  <2> QED
    BY <2>1, <2>2
<1>2. CASE Drop \/ Reconnect
  BY <1>2, FireKeeps DEF Drop, Reconnect, LinkUp, Events, PahoIsConnected
<1>3. CASE StopRetry \/ Disconnect
  BY <1>3, LinkApart DEF StopRetry, Disconnect, Elsewhere, linkVars,
                         PahoIsConnected
<1>4. ASSUME NEW c \in Callers, RegisterStep(c) \/ Run(c)
      PROVE  HandlerInv'
  BY <1>0, <1>4, RegisterInvoked
<1>5. ASSUME NEW c \in Callers, RacingWrite(c)
      PROVE  HandlerInv'
  BY <1>5, LinkApart DEF RacingWrite, WriteRace, linkVars, PahoIsConnected
<1>6. ASSUME NEW e \in Events, HandlerStep(e)
      PROVE  HandlerInv'
  BY <1>6, HandlerInvoked
<1>7. CASE UNCHANGED vars
  BY <1>7, LinkApart DEF vars, linkVars, PahoIsConnected
<1> QED
  BY <1>1, <1>2, <1>3, <1>4, <1>5, <1>6, <1>7 DEF Next, Halted

\* Hence it holds of every reachable state.
LEMMA InvokedInvariant == Spec => []InvokedInv
BY InitInvoked, InvokedInductive, PTL DEF Spec

\* The handlers, ranging without the mutex, lose no callback that was there
\* when the event happened: it is run, or on its way.
THEOREM CallbacksNotForgotten == Spec => []NotForgotten
<1>1. InvokedInv => NotForgotten
  BY DEF InvokedInv, HandlerInv, Invoked, Remembered, NotForgotten
<1> QED
  BY <1>1, InvokedInvariant, PTL

\* Once OnConnect has returned on a client that is connected, and the handlers
\* are quiet, its callback was run for this connection, but for a connection
\* made between its two steps, and but for a once-callback that took index 0.
THEOREM ConnectedCallbacksInvoked == Spec => []ConnectedInvoked
<1>1. InvokedInv => ConnectedInvoked
  <2> SUFFICES ASSUME InvokedInv, NEW c \in Callers \ (Onces \union Losts),
                      pc[c] = "done", link = "connected", Quiet,
                      armed[c] # "missed"
               PROVE  ran[c] \/ ~Registered(c)
    BY DEF ConnectedInvoked
  <2>1. Event(c) \in Events /\ c \in Watched /\ Invoked(c)
        /\ armed[c] \in {"no", "yes", "missed"}
    BY DEF Event, Events, Watched, InvokedInv, HandlerInv, HandlerTypes
  <2>2. ~Coming(c)
    BY <2>1 DEF Coming, Quiet, InvokedInv, HandlerInv, HandlerTypes
  <2> QED
    BY <2>1, <2>2 DEF Invoked, Remembered, Looked, PahoIsConnected
<1> QED
  BY <1>1, InvokedInvariant, PTL
-----------------------------------------------------------------------------
(* How many goroutines the handlers can start.                             *)

Inserted(e) == {c \in Callers : Event(c) = e /\ index[c] # NULL}
Ended == {l \in Loops : loop[l] = "end"}

\* A bound on how often an event has happened: a loop that connects ends, and
\* a connection made by itself follows a loss.
Times(e) ==
    IF e = "lost" THEN drops
    ELSE IF link = "reconnecting" THEN Cardinality(Ended) + drops - 1
    ELSE Cardinality(Ended) + drops

\* The handler that is ranging may still come to the callback.
Awaited(c) ==
    \/ index[c] \in todo[Event(c)]
    \/ index[c] = NULL /\ ranging[Event(c)]

\* Each event is good for one goroutine per callback: it is still due, or the
\* handler is on its way to the callback, or it has passed it.
Bounded(c) ==
    /\ spawned[c] + due[Event(c)] <= Times(Event(c))
    /\ Awaited(c) => spawned[c] + due[Event(c)] < Times(Event(c))

LinkTypes ==
    /\ drops \in 0 .. MaxDrops
    /\ stop \in BOOLEAN
    /\ closing \in {"no", "stopped", "done"}
    /\ crash \in {"none", "mapRace"}
    /\ link = "reconnecting" => drops > 0

BoundInv ==
    /\ LinkTypes
    /\ \A e \in Events : count[e] = Cardinality(Inserted(e))
    /\ \A c \in Callers : Bounded(c)

\* A part of a finite set is no larger.
LEMMA Counts ==
    ASSUME NEW S, IsFiniteSet(S), NEW T \in SUBSET S
    PROVE  /\ IsFiniteSet(T)
           /\ Cardinality(T) \in Nat
           /\ Cardinality(S) \in Nat
           /\ Cardinality(T) <= Cardinality(S)
BY FS_Subset, FS_CardinalityType

\* The initial states are within the bound.
LEMMA InitBound == Init => BoundInv
<1> SUFFICES ASSUME Init PROVE BoundInv
  OBVIOUS
<1>1. \A e : Inserted(e) = {}
  BY DEF Init, Inserted
<1>2. Ended = {}
  BY DEF Init, Ended
<1>3. \A e \in Events : count[e] = Cardinality(Inserted(e))
  BY <1>1, FS_EmptySet DEF Init
<1>4. LinkTypes
  <2>1. stop \in BOOLEAN
    BY Zenon DEF Init
  <2>2. drops \in 0 .. MaxDrops
    BY AdapterAssumption DEF Init
  <2> QED
    BY <2>1, <2>2 DEF Init, LinkTypes
<1>5. \A c \in Callers : Bounded(c)
  <2>1. Times("lost") = 0 /\ Times("connect") = 0
    BY <1>2, FS_EmptySet DEF Init, Times
  <2> SUFFICES ASSUME NEW c \in Callers PROVE Bounded(c)
    OBVIOUS
  <2>2. Event(c) \in {"lost", "connect"} /\ Event(c) \in Events
    BY DEF Event, Events
  <2>3. spawned[c] = 0 /\ due[Event(c)] = 0
    BY <2>2 DEF Init
  <2>4. ~Awaited(c)
    BY <2>2, Zenon DEF Init, Awaited
  <2> QED
    BY <2>1, <2>2, <2>3, <2>4 DEF Bounded
<1> QED
  BY <1>3, <1>4, <1>5 DEF BoundInv

\* A loop's step is no loss, and a connection only when the loop ends with it.
LEMMA LoopTimes ==
    ASSUME LoopInv, LinkTypes, NEW l \in Loops, EnsureConnected(l) \/ LoopStep(l)
    PROVE  /\ LinkTypes'
           /\ Times("lost")' = Times("lost")
           /\ Times("connect") \in Int /\ Times("connect")' \in Int
           /\ Times("connect")' >= Times("connect")
           /\ ConnectOk(l) => Times("connect")' = Times("connect") + 1
<1> USE DEF EnsureConnected, LoopStep, Ask, Head, Connect, ConnectFail, Aborted,
            ConnectOk, LinkUp, Fire, LoopAt, Goto, linkVars, Elsewhere
<1>1. /\ drops' = drops /\ crash' = crash
      /\ stop' = stop /\ closing' = closing
      /\ link' = "reconnecting" => link = "reconnecting"
      /\ ConnectOk(l) => link = "connecting" /\ link' = "connected"
    BY DEF LinkTypes
<1>2. LinkTypes'
  BY <1>1 DEF LinkTypes
<1>3. /\ \A k \in Loops : k # l => loop'[k] = loop[k]
      /\ loop[l] # "end"
      /\ ConnectOk(l) => loop'[l] = "end"
  BY DEF LoopInv, Labels
<1> USE DEF LoopInv
<1> HIDE DEF EnsureConnected, LoopStep, Ask, Head, Connect, ConnectFail, Aborted,
            ConnectOk, LinkUp, Fire, LoopAt, Goto, linkVars, Elsewhere
<1>4. /\ Ended \in SUBSET Ended' /\ Ended' \in SUBSET Loops /\ l \notin Ended
      /\ ConnectOk(l) => Ended' = Ended \union {l}
  BY <1>3 DEF Ended
<1>5. /\ IsFiniteSet(Ended) /\ Cardinality(Ended) \in Nat
      /\ Cardinality(Ended') \in Nat /\ Cardinality(Ended) <= Cardinality(Ended')
      /\ ConnectOk(l) => Cardinality(Ended') = Cardinality(Ended) + 1
  <2>1. IsFiniteSet(Ended') /\ IsFiniteSet(Ended)
    BY <1>4, Counts, AdapterAssumption
  <2> QED
    BY <1>4, <2>1, Counts, FS_AddElement
<1> QED
  BY <1>1, <1>2, <1>5 DEF Times, LinkTypes

\* So with paho's own steps and Disconnect.
LEMMA LinkTimes ==
    ASSUME LoopInv, LinkTypes, Drop \/ Reconnect \/ StopRetry \/ Disconnect
    PROVE  /\ LinkTypes'
           /\ Times("connect") \in Int /\ Times("connect")' \in Int
           /\ Times("lost")' = IF Drop THEN Times("lost") + 1 ELSE Times("lost")
           /\ Times("connect")' >= Times("connect")
           /\ Reconnect => Times("connect")' = Times("connect") + 1
<1>1. loop' = loop
  BY DEF Drop, Reconnect, StopRetry, Disconnect, loopVars
<1>2. Ended' = Ended /\ Ended \in SUBSET Loops
  BY <1>1 DEF Ended
<1>3. Cardinality(Ended) \in Nat
  BY <1>2, Counts, AdapterAssumption
<1>4. /\ Drop => link = "connected" /\ link' = "reconnecting" /\ drops' = drops + 1
      /\ Reconnect => link = "reconnecting" /\ link' = "connected"
      /\ ~Drop => drops' = drops /\ link' \in {"connected", "disconnected", link}
  BY DEF Drop, Reconnect, StopRetry, Disconnect, LinkUp, linkVars
<1>5. LinkTypes'
  <2> USE DEF Drop, Reconnect, StopRetry, Disconnect, LinkUp, Fire, Elsewhere,
              linkVars, loopVars
  <2>1. stop' \in BOOLEAN
    BY Zenon DEF LinkTypes
  <2>2. drops' \in 0 .. MaxDrops
    BY AdapterAssumption DEF LinkTypes
  <2>3. closing' \in {"no", "stopped", "done"} /\ crash' = crash
    BY DEF LinkTypes
  <2>4. drops' >= drops /\ drops \in Nat
    BY AdapterAssumption DEF LinkTypes
  <2> HIDE DEF Drop, Reconnect, StopRetry, Disconnect, LinkUp, Fire, Elsewhere
  <2> QED
    BY <1>4, <2>1, <2>2, <2>3, <2>4 DEF LinkTypes
<1> QED
  BY <1>2, <1>3, <1>4, <1>5, AdapterAssumption DEF Times, LinkTypes

\* An event that happens is one more that its handlers are due for.
LEMMA FireBound ==
    ASSUME InvokedInv, HandlerTypes', NEW e \in Events, Fire(e),
           \A c \in Callers : Bounded(c),
           \A f \in Events : /\ Times(f) \in Int /\ Times(f)' \in Int
                             /\ Times(f)' >= Times(f),
           Times(e)' = Times(e) + 1
    PROVE  \A c \in Callers : Bounded(c)'
<1> SUFFICES ASSUME NEW c \in Callers PROVE Bounded(c)'
  OBVIOUS
<1>1. /\ due' = [due EXCEPT ![e] = @ + 1]
      /\ UNCHANGED <<index, ranging, todo, spawned>>
  BY DEF Fire, callerVars
<1>2. Event(c) \in Events /\ Event(c)' = Event(c) /\ Bounded(c)
  BY DEF Event, Events
<1>3. due[Event(c)] \in Nat /\ spawned[c] \in Nat
  BY <1>2 DEF InvokedInv, HandlerInv, HandlerTypes
<1>4. due'[Event(c)] = IF Event(c) = e THEN due[Event(c)] + 1 ELSE due[Event(c)]
  BY <1>1, <1>2 DEF InvokedInv, HandlerInv, HandlerTypes
<1>5. Awaited(c)' <=> Awaited(c)
  BY <1>1, <1>2 DEF Awaited
<1>6. /\ Times(Event(c)) \in Int /\ Times(Event(c))' \in Int
      /\ Times(Event(c))' >= Times(Event(c))
      /\ Event(c) = e => Times(Event(c))' = Times(Event(c)) + 1
  BY <1>2
<1> QED
  BY <1>1, <1>2, <1>3, <1>4, <1>5, <1>6 DEF Bounded

\* Between the events nothing is added that was not due or awaited.
LEMMA QuietBound ==
    ASSUME InvokedInv, \A c \in Callers : Bounded(c),
           \A f \in Events : /\ Times(f) \in Int /\ Times(f)' \in Int
                             /\ Times(f)' >= Times(f),
           UNCHANGED <<index, due, ranging>>,
           \A f \in Events : todo'[f] \subseteq todo[f],
           \A c \in Callers : spawned'[c] \in Nat /\ spawned'[c] <= spawned[c]
    PROVE  \A c \in Callers : Bounded(c)'
<1> SUFFICES ASSUME NEW c \in Callers PROVE Bounded(c)'
  OBVIOUS
<1>1. Event(c) \in Events /\ Event(c)' = Event(c) /\ Bounded(c)
  BY DEF Event, Events
<1>2. due[Event(c)] \in Nat /\ spawned[c] \in Nat
  BY <1>1 DEF InvokedInv, HandlerInv, HandlerTypes
<1>3. Awaited(c)' => Awaited(c)
  BY <1>1 DEF Awaited
<1>4. /\ Times(Event(c)) \in Int /\ Times(Event(c))' \in Int
      /\ Times(Event(c))' >= Times(Event(c))
  BY <1>1
<1> QED
  BY <1>1, <1>2, <1>3, <1>4 DEF Bounded

\* The handler turns an event that is due into callbacks that it is to visit,
\* and each visit into a goroutine.
LEMMA HandlerBound ==
    ASSUME InvokedInv, \A c \in Callers : Bounded(c),
           \A f \in Events : Times(f) \in Int /\ Times(f)' = Times(f),
           NEW e \in Events, HandlerStep(e)
    PROVE  \A c \in Callers : Bounded(c)'
<1> SUFFICES ASSUME NEW c \in Callers PROVE Bounded(c)'
  OBVIOUS
<1>0. index' = index
  BY DEF HandlerStep, RangeBegin, Visit, RangeDone, callerVars
<1>1. Event(c) \in Events /\ Event(c)' = Event(c) /\ Bounded(c)
  BY DEF Event, Events
<1>2. /\ due \in [Events -> Nat] /\ ranging \in [Events -> BOOLEAN]
      /\ todo \in [Events -> SUBSET Nat] /\ spawned \in [Callers -> Nat]
      /\ due[Event(c)] \in Nat /\ spawned[c] \in Nat
  BY <1>1 DEF InvokedInv, HandlerInv, HandlerTypes
<1>3. Times(Event(c)) \in Int /\ Times(Event(c))' = Times(Event(c))
  BY <1>1
<1>4. CASE RangeBegin(e)
  <2>1. spawned' = spawned
    BY <1>4 DEF RangeBegin, runVars
  <2>2. Event(c) = e => due'[Event(c)] = due[Event(c)] - 1
    BY <1>2, <1>4 DEF RangeBegin
  <2>3. Event(c) # e => /\ due'[Event(c)] = due[Event(c)]
                        /\ Awaited(c)' <=> Awaited(c)
    BY <1>0, <1>1, <1>2, <1>4 DEF RangeBegin, Awaited
  <2> QED
    BY <1>1, <1>2, <1>3, <2>1, <2>2, <2>3 DEF Bounded
<1>5. CASE Visit(e)
  <2>0. PICK i \in todo[e] :
          /\ todo' = [todo EXCEPT ![e] = @ \ {i}]
          /\ spawned' = [spawned EXCEPT ![callbaks[e][i]] = @ + 1]
    BY <1>5 DEF Visit
  <2>1. due' = due /\ ranging' = ranging
    BY <1>5 DEF Visit
  <2>2. /\ i \in DOMAIN callbaks[e] /\ i \in Nat /\ callbaks[e][i] \in Callers
        /\ Event(callbaks[e][i]) = e /\ index[callbaks[e][i]] = i
    BY <1>2, EntriesTyped DEF InvokedInv, HandlerInv, Entries
  <2>3. Awaited(c)' => Awaited(c)
    BY <1>0, <1>1, <1>2, <2>0, <2>1 DEF Awaited
  <2>4. CASE c = callbaks[e][i]
    <3>1. Awaited(c) /\ ~Awaited(c)'
      BY <1>0, <1>1, <1>2, <2>0, <2>2, <2>4, AdapterAssumption DEF Awaited
    <3>2. spawned'[c] = spawned[c] + 1
      BY <1>2, <2>0, <2>4
    <3> QED
      BY <1>1, <1>2, <1>3, <2>1, <3>1, <3>2 DEF Bounded
  <2>5. CASE c # callbaks[e][i]
    <3>1. spawned'[c] = spawned[c]
      BY <1>2, <2>0, <2>5
    <3> QED
      BY <1>1, <1>2, <1>3, <2>1, <2>3, <3>1 DEF Bounded
  <2> QED
    BY <2>4, <2>5
<1>6. CASE RangeDone(e)
  <2>1. due' = due /\ spawned' = spawned /\ todo' = todo
        /\ ranging' = [ranging EXCEPT ![e] = FALSE]
    BY <1>6 DEF RangeDone, runVars
  <2>2. ranging'[Event(c)] => ranging[Event(c)]
    BY <1>1, <1>2, <2>1, Zenon
  <2>3. Awaited(c)' => Awaited(c)
    BY <1>0, <1>1, <2>1, <2>2 DEF Awaited
  <2> QED
    BY <1>1, <1>2, <1>3, <2>1, <2>3 DEF Bounded
<1> QED
  BY <1>4, <1>5, <1>6 DEF HandlerStep

\* A new entry is visited by the handler that was ranging, if at all.
LEMMA InsertBound ==
    ASSUME InvokedInv, BoundInv, NEW c \in Callers, Insert(c),
           \A f \in Events : Times(f) \in Int /\ Times(f)' = Times(f)
    PROVE  /\ \A e \in Events : count'[e] = Cardinality(Inserted(e)')
           /\ \A d \in Callers : Bounded(d)'
<1> DEFINE e == Event(c)
           i == count[e]
<1>0. /\ index' = [index EXCEPT ![c] = i]
      /\ count' = [count EXCEPT ![e] = i + 1]
      /\ todo' = todo \/ (ranging[e] /\ todo' = [todo EXCEPT ![e] = @ \union {i}])
      /\ UNCHANGED <<due, ranging, spawned>>
  BY DEF Insert, runVars
<1>1. e \in Events /\ i \in Nat /\ e' = e
  BY DEF InvokedInv, RegistryInv, RegistryTypes, Event, Events
<1>2. index[c] = NULL
  BY DEF Insert, AtInsert, CallerAt, InvokedInv, RegistryInv, Indices
<1>3. index \in [Callers -> Nat \union {NULL}] /\ count \in [Events -> Nat]
      /\ todo \in [Events -> SUBSET Nat]
  BY DEF InvokedInv, RegistryInv, RegistryTypes, HandlerInv, HandlerTypes
<1>4. i \notin todo[e]
  <2> SUFFICES ASSUME i \in todo[e] PROVE FALSE
    OBVIOUS
  <2>1. /\ i \in DOMAIN callbaks[e] /\ callbaks[e][i] \in Callers
        /\ Event(callbaks[e][i]) = e /\ index[callbaks[e][i]] = i
    BY <1>1, EntriesTyped DEF InvokedInv, HandlerInv, Entries
  <2> QED
    BY <1>1, <2>1, AdapterAssumption DEF InvokedInv, RegistryInv, Indices
<1>5. ASSUME NEW f \in Events
      PROVE  count'[f] = Cardinality(Inserted(f)')
  <2>1. Inserted(f) \in SUBSET Callers
    BY DEF Inserted
  <2>2. IsFiniteSet(Inserted(f)) /\ count[f] = Cardinality(Inserted(f))
    BY <2>1, Counts, AdapterAssumption DEF BoundInv
  <2>3. CASE f = e
    <3>1. Inserted(f)' = Inserted(f) \union {c} /\ c \notin Inserted(f)
      BY <1>0, <1>1, <1>2, <1>3, <2>3, AdapterAssumption DEF Inserted, Event
    <3> QED
      <4>1. Cardinality(Inserted(f) \union {c}) = Cardinality(Inserted(f)) + 1
        BY <2>2, <3>1, FS_AddElement
      <4>2. count'[f] = count[f] + 1
        BY <1>0, <1>1, <1>3, <2>3
      <4> QED
        BY <2>2, <3>1, <4>1, <4>2
  <2>4. CASE f # e
    <3>1. Inserted(f)' = Inserted(f)
      BY <1>0, <1>3, <2>4 DEF Inserted, Event
    <3> QED
      BY <1>0, <1>3, <2>2, <2>4, <3>1
  <2> QED
    BY <2>3, <2>4
<1>6. ASSUME NEW d \in Callers
      PROVE  Bounded(d)'
  <2>1. Event(d) \in Events /\ Event(d)' = Event(d) /\ Bounded(d)
    BY DEF Event, Events, BoundInv
  <2>2. Times(Event(d)) \in Int /\ Times(Event(d))' = Times(Event(d))
    BY <2>1
  <2>3. Awaited(d)' => Awaited(d)
    <3>1. CASE d = c
      BY <1>0, <1>1, <1>2, <1>3, <1>4, <2>1, <3>1, AdapterAssumption DEF Awaited
    <3>2. CASE d # c
      <4>1. index'[d] = index[d]
        BY <1>0, <1>3, <3>2
      <4>2. Event(d) = e => index[d] # i
        BY <1>1, <1>3, AdapterAssumption DEF InvokedInv, RegistryInv, Indices
      <4> HIDE DEF i
      <4> QED
        BY <1>0, <1>1, <1>3, <2>1, <4>1, <4>2 DEF Awaited
    <3> QED
      BY <3>1, <3>2
  <2> QED
    BY <1>0, <2>1, <2>2, <2>3 DEF Bounded
<1> QED
  BY <1>5, <1>6

\* Every step keeps the bound.
LEMMA BoundInductive ==
    ASSUME LoopInv, InvokedInv, InvokedInv', BoundInv, [Next]_vars
    PROVE  BoundInv'
<1>0. /\ LinkTypes /\ \A c \in Callers : Bounded(c)
      /\ due \in [Events -> Nat] /\ todo \in [Events -> SUBSET Nat]
      /\ spawned \in [Callers -> Nat] /\ spawned' \in [Callers -> Nat]
      /\ Events = {"lost", "connect"}
  BY DEF BoundInv, InvokedInv, HandlerInv, HandlerTypes, Events
<1>1. \A f \in Events : Times(f) \in Int
  <2>1. Ended \in SUBSET Loops
    BY DEF Ended
  <2>2. Cardinality(Ended) \in Nat
    BY <2>1, Counts, AdapterAssumption
  <2> QED
    BY <1>0, <2>2, AdapterAssumption DEF Times, LinkTypes
<1>2. ASSUME UNCHANGED <<count, index>>
      PROVE  \A e \in Events : count'[e] = Cardinality(Inserted(e)')
  <2>1. \A e \in Events : Inserted(e)' = Inserted(e)
    BY <1>2 DEF Inserted, Event
  <2> QED
    BY <1>2, <2>1 DEF BoundInv
<1>3. ASSUME UNCHANGED <<linkVars, loopVars>>
      PROVE  \A f \in Events : Times(f) \in Int /\ Times(f)' = Times(f)
                               /\ Times(f)' \in Int /\ Times(f)' >= Times(f)
  BY <1>1, <1>3 DEF Times, Ended, linkVars, loopVars
<1>4. ASSUME UNCHANGED <<linkVars, loopVars>>, crash' \in {"none", "mapRace"}
      PROVE  LinkTypes'
  BY <1>0, <1>4 DEF LinkTypes, linkVars, loopVars
<1>5. ASSUME NEW l \in Loops, EnsureConnected(l) \/ LoopStep(l)
      PROVE  BoundInv'
  <2>1. /\ LinkTypes'
        /\ \A f \in Events : /\ Times(f) \in Int /\ Times(f)' \in Int
                             /\ Times(f)' >= Times(f)
    BY <1>0, <1>1, <1>5, LoopTimes
  <2>2. UNCHANGED <<count, index>>
    BY <1>5 DEF EnsureConnected, LoopStep, Ask, Head, Connect, ConnectOk,
       ConnectFail, Aborted, LinkUp, Fire, Elsewhere, mapVars, callerVars
  <2>3. \A c \in Callers : Bounded(c)'
    <3>1. CASE ConnectOk(l)
      <4>1. Fire("connect") /\ Times("connect")' = Times("connect") + 1
        BY <1>0, <1>5, <3>1, LoopTimes DEF ConnectOk, LinkUp
      <4>2. HandlerTypes'
        BY DEF InvokedInv, HandlerInv
      <4> QED
        BY <1>0, <2>1, <4>1, <4>2, FireBound
    <3>2. CASE ~ConnectOk(l)
      <4>1. UNCHANGED <<index, due, ranging, todo, spawned>>
        BY <1>5, <3>2 DEF EnsureConnected, LoopStep, Ask, Head, Connect,
           ConnectFail, Aborted, Elsewhere, callerVars, handlerVars, runVars
      <4> QED
        BY <1>0, <2>1, <4>1, QuietBound
    <3> QED
      BY <3>1, <3>2
  <2> QED
    BY <1>2, <2>1, <2>2, <2>3 DEF BoundInv
<1>6. CASE Drop \/ Reconnect \/ StopRetry \/ Disconnect
  <2>1. /\ LinkTypes'
        /\ \A f \in Events : /\ Times(f) \in Int /\ Times(f)' \in Int
                             /\ Times(f)' >= Times(f)
        /\ Drop => Times("lost")' = Times("lost") + 1
        /\ Reconnect => Times("connect")' = Times("connect") + 1
    BY <1>0, <1>1, <1>6, LinkTimes
  <2>2. UNCHANGED <<count, index>>
    BY <1>6 DEF Drop, Reconnect, StopRetry, Disconnect, LinkUp, Fire, Elsewhere,
       mapVars, callerVars
  <2>3. \A c \in Callers : Bounded(c)'
    <3>1. CASE Drop \/ Reconnect
      <4>1. HandlerTypes'
        BY DEF InvokedInv, HandlerInv
      <4>2. \/ Fire("lost") /\ Times("lost")' = Times("lost") + 1
            \/ Fire("connect") /\ Times("connect")' = Times("connect") + 1
        BY <2>1, <3>1 DEF Drop, Reconnect, LinkUp
      <4> QED
        BY <1>0, <2>1, <4>1, <4>2, FireBound
    <3>2. CASE StopRetry \/ Disconnect
      <4>1. UNCHANGED <<index, due, ranging, todo, spawned>>
        BY <3>2 DEF StopRetry, Disconnect, Elsewhere, callerVars, handlerVars,
           runVars
      <4> QED
        BY <1>0, <2>1, <4>1, QuietBound
    <3> QED
      BY <1>6, <3>1, <3>2
  <2> QED
    BY <1>2, <2>1, <2>2, <2>3 DEF BoundInv
<1>7. ASSUME NEW c \in Callers, RegisterStep(c) \/ Run(c)
      PROVE  BoundInv'
  <2>0. UNCHANGED <<linkVars, loopVars>>
    BY <1>7, CallbacksApart
  <2>1. crash' = crash
    BY <1>7 DEF RegisterStep, OnConnectOnce, CheckDown, CheckUp, Insert, Assign,
       Off, Run, Remove
  <2>2. LinkTypes'
    BY <1>0, <1>4, <2>0, <2>1 DEF LinkTypes
  <2>3. CASE Insert(c)
    BY <1>3, <2>0, <2>2, <2>3, InsertBound DEF BoundInv
  <2>4. CASE ~Insert(c)
    <3>1. UNCHANGED <<count, index, due, ranging>>
      BY <1>7, <2>4 DEF RegisterStep, OnConnectOnce, CheckDown, CheckUp, Assign,
         Off, Run, Remove, mapVars, callerVars, handlerVars
    <3>2. \A f \in Events : todo'[f] \subseteq todo[f]
      <4>1. \/ todo' = todo
            \/ \E e, i : todo' = [todo EXCEPT ![e] = @ \ {i}]
        BY <1>7, <2>4 DEF RegisterStep, OnConnectOnce, CheckDown, CheckUp,
           Assign, Off, Run, Remove, handlerVars
      <4> QED
        BY <1>0, <4>1
    <3>3. \A d \in Callers : spawned'[d] \in Nat /\ spawned'[d] <= spawned[d]
      <4>1. \/ spawned' = spawned
            \/ spawned' = [spawned EXCEPT ![c] = @ - 1]
        BY <1>7, <2>4 DEF RegisterStep, OnConnectOnce, CheckDown, CheckUp,
           Assign, Off, Run, runVars
      <4> QED
        BY <1>0, <4>1
    <3>4. \A d \in Callers : Bounded(d)'
      BY <1>0, <1>3, <2>0, <3>1, <3>2, <3>3, QuietBound
    <3> QED
      BY <1>2, <2>2, <3>1, <3>4 DEF BoundInv
  <2> QED
    BY <2>3, <2>4
<1>8. ASSUME NEW e \in Events, HandlerStep(e)
      PROVE  BoundInv'
  <2>0. UNCHANGED <<linkVars, loopVars>>
    BY <1>8, CallbacksApart
  <2>1. UNCHANGED <<count, index, crash>>
    BY <1>8 DEF HandlerStep, RangeBegin, Visit, RangeDone, mapVars, callerVars
  <2>2. LinkTypes'
    BY <1>0, <1>4, <2>0, <2>1 DEF LinkTypes
  <2>3. \A c \in Callers : Bounded(c)'
    BY <1>0, <1>3, <1>8, <2>0, HandlerBound
  <2> QED
    BY <1>2, <2>1, <2>2, <2>3 DEF BoundInv
<1>9. ASSUME UNCHANGED <<linkVars, loopVars, mapVars, callerVars, handlerVars,
                         runVars>>,
             crash' \in {"none", "mapRace"}
      PROVE  BoundInv'
  <2>1. UNCHANGED <<count, index, due, ranging, todo, spawned>>
    BY <1>9 DEF mapVars, callerVars, handlerVars, runVars
  <2>2. \A c \in Callers : Bounded(c)'
    BY <1>0, <1>3, <1>9, <2>1, QuietBound
  <2> QED
    BY <1>2, <1>4, <1>9, <2>1, <2>2 DEF BoundInv
<1>10. ASSUME NEW c \in Callers, RacingWrite(c)
       PROVE  BoundInv'
  BY <1>9, <1>10 DEF RacingWrite, WriteRace
<1>11. CASE UNCHANGED vars
  BY <1>0, <1>9, <1>11 DEF vars, LinkTypes
<1> QED
  BY <1>5, <1>6, <1>7, <1>8, <1>10, <1>11 DEF Next, Halted

\* Every variable of the adapter keeps its type: in particular the counters
\* never pass the callers, the handlers visit entries only, and the goroutines
\* waiting for one callback are at most the losses and connections there were.
THEOREM TypeCorrect == Spec => []TypeOK
<1>1. (LoopInv /\ InvokedInv /\ BoundInv) => TypeOK
  <2> SUFFICES ASSUME LoopInv, InvokedInv, BoundInv PROVE TypeOK
    OBVIOUS
  <2>1. /\ link \in {"disconnected", "connecting", "connected", "reconnecting"}
        /\ loop \in [Loops -> {"new", "first", "head", "ask", "connect", "token",
                               "end"}]
    BY DEF LoopInv, Labels
  <2>2. LinkTypes
    BY DEF BoundInv
  <2>3. ASSUME NEW e \in Events
        PROVE  /\ count[e] \in 0 .. Cardinality(Callers)
               /\ DOMAIN callbaks[e] \subseteq 0 .. count[e] - 1
               /\ \A i \in DOMAIN callbaks[e] : callbaks[e][i] \in Callers
               /\ todo[e] \subseteq DOMAIN callbaks[e]
               /\ due[e] \in Nat
    <3>1. Inserted(e) \in SUBSET Callers
      BY DEF Inserted
    <3>2. count[e] \in 0 .. Cardinality(Callers)
      BY <3>1, Counts, AdapterAssumption DEF BoundInv
    <3>3. /\ \A i \in DOMAIN callbaks[e] : callbaks[e][i] \in Callers
          /\ DOMAIN callbaks[e] \in SUBSET Nat
      BY EntriesTyped
    <3>4. ASSUME NEW i \in DOMAIN callbaks[e]
          PROVE  i \in 0 .. count[e] - 1
      <4>1. /\ callbaks[e][i] \in Callers /\ i \in Nat
            /\ Event(callbaks[e][i]) = e /\ index[callbaks[e][i]] = i
        BY <3>3 DEF InvokedInv, HandlerInv, Entries
      <4>2. i < count[e] /\ count[e] \in Nat
        BY <4>1, AdapterAssumption DEF InvokedInv, RegistryInv, RegistryTypes,
           Indices
      <4> QED
        BY <4>1, <4>2
    <3> QED
      BY <3>2, <3>3, <3>4 DEF InvokedInv, HandlerInv, Entries, HandlerTypes
  <2>4. spawned \in [Callers -> 0 .. MaxDrops + Cardinality(Loops)]
    <3> SUFFICES ASSUME NEW c \in Callers
                 PROVE  spawned[c] \in 0 .. MaxDrops + Cardinality(Loops)
      BY DEF InvokedInv, HandlerInv, HandlerTypes
    <3>1. Event(c) \in Events /\ Bounded(c)
      BY DEF Event, Events, BoundInv
    <3>2. spawned[c] \in Nat /\ due[Event(c)] \in Nat
      BY <3>1 DEF InvokedInv, HandlerInv, HandlerTypes
    <3>3. Ended \in SUBSET Loops
      BY DEF Ended
    <3>4. /\ Cardinality(Ended) \in Nat /\ Cardinality(Loops) \in Nat
          /\ Cardinality(Ended) <= Cardinality(Loops)
      BY <3>3, Counts, AdapterAssumption
    <3>5. /\ Times(Event(c)) \in Int
          /\ Times(Event(c)) <= MaxDrops + Cardinality(Loops)
      BY <2>2, <3>4, AdapterAssumption DEF Times, LinkTypes
    <3> QED
      BY <3>1, <3>2, <3>4, <3>5, AdapterAssumption DEF Bounded
  <2> QED
    BY <2>1, <2>2, <2>3, <2>4 DEF TypeOK, LinkTypes, InvokedInv, RegistryInv,
       RegistryTypes, PCs, HandlerInv, HandlerTypes
<1>2. BoundInv /\ LoopInv /\ InvokedInv /\ InvokedInv' /\ [Next]_vars => BoundInv'
  BY BoundInductive
<1> QED
  BY <1>1, <1>2, InitBound, LoopInvInvariant, InvokedInvariant, PTL DEF Spec
=============================================================================
