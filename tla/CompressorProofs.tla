-------------------------- MODULE CompressorProofs ---------------------------
(***************************************************************************)
(* TLAPS proofs about Compressor: for any number of goroutines over one    *)
(* codec and pools of any size, what a use holds is its own, a compressor  *)
(* returns its own complete stream, a message whose buffer was not taken   *)
(* again carries its own body, and decompression is not disturbed at all.  *)
(***************************************************************************)
EXTENDS Compressor, SequenceTheorems, TLAPS

\* The invariant that is inductive: types and ownership, and the two results
\* that speak of uses that are over.
IInv ==
    TypeOK /\ Exclusive /\ PoolProtocol /\ IntactUnlessReused /\ DecodesOwn

-----------------------------------------------------------------------------
(* Bodies.                                                                 *)

\* The bodies that the steps write down.
LEMMA Bodies ==
    ASSUME NEW u \in Uses
    PROVE  <<>> \in Body /\ <<u>> \in Body /\ Own(u) \in Body
  BY DEF Body, Own

\* A first part and a second one.
LEMMA Parts ==
    ASSUME NEW u \in Uses
    PROVE  /\ Append(<<>>, u) = <<u>>
           /\ Append(<<u>>, u) = Own(u)
           /\ Len(Own(u)) = 2
<1>1. /\ <<>> \in Seq(Uses) /\ Len(<<>>) = 0
      /\ <<u>> \in Seq(Uses) /\ Len(<<u>>) = 1 /\ <<u>>[1] = u
      /\ <<u, u>> \in Seq(Uses) /\ Len(<<u, u>>) = 2
      /\ <<u, u>>[1] = u /\ <<u, u>>[2] = u
  OBVIOUS
<1>2. Append(<<>>, u) = <<u>>
  <2>1. /\ Append(<<>>, u) \in Seq(Uses) /\ Len(Append(<<>>, u)) = 1
        /\ Append(<<>>, u)[1] = u
    BY <1>1, AppendProperties
  <2>2. \A i \in 1 .. Len(<<u>>) : <<u>>[i] = Append(<<>>, u)[i]
    BY <1>1, <2>1
  <2> QED
    BY <1>1, <2>1, <2>2, SeqEqual
<1>3. Append(<<u>>, u) = <<u, u>>
  <2>1. /\ Append(<<u>>, u) \in Seq(Uses) /\ Len(Append(<<u>>, u)) = 2
        /\ Append(<<u>>, u)[1] = u /\ Append(<<u>>, u)[2] = u
    BY <1>1, AppendProperties
  <2>2. \A i \in 1 .. Len(<<u, u>>) : <<u, u>>[i] = Append(<<u>>, u)[i]
    BY <1>1, <2>1
  <2> QED
    BY <1>1, <2>1, <2>2, SeqEqual
<1> QED
  BY <1>1, <1>2, <1>3 DEF Own

\* Overwriting a part of a body leaves a body of that length.
LEMMA Overwritten ==
    ASSUME NEW s \in Body, NEW u \in Uses, NEW i \in 1 .. Len(s)
    PROVE  /\ [s EXCEPT ![i] = u] \in Body
           /\ Len([s EXCEPT ![i] = u]) = Len(s)
  BY ExceptSeq DEF Body

\* The initial states satisfy the invariant.
LEMMA InitIInv == Init => IInv
<1> SUFFICES ASSUME Init PROVE IInv
  OBVIOUS
<1>1. <<>> \in Body
  BY DEF Body
<1>2. TypeOK
  BY <1>1 DEF Init, TypeOK, PC, Encoding
<1>3. Exclusive /\ PoolProtocol /\ IntactUnlessReused /\ DecodesOwn
  BY DEF Init, Exclusive, PoolProtocol, Holds, Streams, Reads, Lends,
         IntactUnlessReused, DecodesOwn, Compressing, Decompressing
<1> QED
  BY <1>2, <1>3 DEF IInv

-----------------------------------------------------------------------------
(* Type correctness.                                                       *)

\* A use that is about to write finds room in its buffer.
LEMMA Room ==
    ASSUME IInv, NEW u \in Uses, pc[u] \in {"write", "close"}
    PROVE  Len(content[buffer[u]]) < 2
<1>1. content[buffer[u]] = <<>> \/ content[buffer[u]] = <<u>>
  BY DEF IInv, PoolProtocol, Streams
<1> QED
  BY <1>1

\* Writing a part keeps the types, as long as the buffer has room for it.
LEMMA WriteType ==
    ASSUME TypeOK, PoolProtocol, NEW u \in Uses, NEW b \in Slots,
           WritePart(u, b), Len(content[b]) < 2
    PROVE  /\ content' \in [Slots -> Body]
           /\ bytes' \in [Uses -> Body]
           /\ alias' \in [Uses -> Slots \union {NULL}]
           /\ \A v \in Uses : Len(bytes'[v]) = Len(bytes[v])
<1>1. content[b] \in Body /\ Len(content[b]) \in Nat
  BY DEF TypeOK, Body
<1>2. Append(content[b], u) \in Body
  BY <1>1 DEF Body
<1>3. content' \in [Slots -> Body]
  BY <1>2 DEF TypeOK, WritePart
<1>4. ASSUME NEW v \in Uses, alias[v] = b
      PROVE  /\ [bytes[v] EXCEPT ![Len(content[b]) + 1] = u] \in Body
             /\ Len([bytes[v] EXCEPT ![Len(content[b]) + 1] = u]) = Len(bytes[v])
  <2>1. bytes[v] \in Body /\ Len(bytes[v]) = 2
    BY <1>4, CompressorAssumption DEF TypeOK, PoolProtocol, Lends
  <2>2. Len(content[b]) + 1 \in 1 .. Len(bytes[v])
    BY <1>1, <2>1
  <2> QED
    BY <2>1, <2>2, Overwritten
<1>5. /\ bytes' \in [Uses -> Body]
      /\ \A v \in Uses : Len(bytes'[v]) = Len(bytes[v])
  BY <1>4 DEF TypeOK, WritePart
<1> QED
  BY <1>3, <1>5 DEF TypeOK, WritePart

\* Whatever the uses do with the pools, no variable leaves its type.
LEMMA TypeNext ==
    ASSUME IInv, NEW u \in Uses, Step(u)
    PROVE  TypeOK'
<1> USE DEF IInv, TypeOK, PC, Compressing, Decompressing, Encoding, Goto,
            heldVars, bodyVars, poolVars, objVars
<1>0. <<>> \in Body /\ <<u>> \in Body /\ Own(u) \in Body
  BY Bodies
<1>00. Holds(u) /\ Streams(u) /\ Reads(u)
  BY DEF PoolProtocol
<1>1. CASE Start(u)
  BY <1>0, <1>1 DEF Start, Begin, MarshalPlain, MarshalCompressed,
                    UnmarshalPlain, UnmarshalCompressed
<1>2. ASSUME NEW s \in Slots, GetWriter(u, s)
      PROVE  TypeOK'
  BY <1>2 DEF GetWriter
<1>3. ASSUME NEW s \in Slots, GetBuffer(u, s)
      PROVE  TypeOK'
  BY <1>3 DEF GetBuffer
<1>4. ASSUME NEW s \in Slots, GetReader(u, s)
      PROVE  TypeOK'
  BY <1>4 DEF GetReader
<1>5. CASE Reset(u)
  BY <1>0, <1>00, <1>5 DEF Reset, Holds
<1>6. CASE Write(u) \/ Close(u)
  <2>1. buffer[u] \in Slots /\ target[Writer(u)] = buffer[u]
    BY <1>00, <1>6 DEF Write, Close, Holds, Streams
  <2>2. Len(content[buffer[u]]) < 2
    BY <1>6, Room DEF Write, Close
  <2>3. WritePart(u, buffer[u])
    BY <1>6, <2>1 DEF Write, Close
  <2>4. TypeOK
    OBVIOUS
  <2>5. content' \in [Slots -> Body] /\ bytes' \in [Uses -> Body]
        /\ alias' \in [Uses -> Slots \union {NULL}]
    BY <2>1, <2>2, <2>3, <2>4, WriteType
  <2>6. UNCHANGED <<encoding, sound, writer, buffer, reader, out, reused,
                    writers, buffers, readers, target, source>>
    BY <2>3 DEF WritePart
  <2>7. pc' \in [Uses -> PC]
    BY <1>6 DEF Write, Close
  <2> QED
    BY <2>5, <2>6, <2>7
<1>7. CASE Return(u)
  BY <1>0, <1>00, <1>7 DEF Return, Holds
<1>8. CASE PutWriter(u)
  BY <1>00, <1>8 DEF PutWriter, Writer, Holds
<1>9. CASE Marshal(u)
  BY <1>9 DEF Marshal
<1>10. CASE SetSource(u)
  BY <1>10 DEF SetSource
<1>11. CASE Open(u)
  BY <1>0, <1>00, <1>11 DEF Open, Reads
<1>12. CASE ReadAll(u)
  <2>1. Append(bytes[u], source[reader[u]]) \in Body
    <3>1. bytes[u] = <<u>> /\ source[reader[u]] = u
      BY <1>00, <1>12 DEF ReadAll, Reads
    <3>2. Append(<<u>>, u) = Own(u)
      BY Parts
    <3> QED
      BY <1>0, <3>1, <3>2
  <2> QED
    BY <1>00, <1>12, <2>1 DEF ReadAll, PutReader, Holds
<1>13. CASE DecodeError(u)
  BY <1>0, <1>00, <1>13 DEF DecodeError, PutReader, Holds
<1> QED
  BY <1>1, <1>2, <1>3, <1>4, <1>5, <1>6, <1>7, <1>8, <1>9, <1>10, <1>11,
     <1>12, <1>13 DEF Step

-----------------------------------------------------------------------------
(* Ownership.                                                              *)

\* Taking an object, giving one back and everything else keep the objects
\* that are held apart from each other and from the pools.
LEMMA ExclusiveNext ==
    ASSUME IInv, NEW u \in Uses, Step(u)
    PROVE  Exclusive'
<1> USE CompressorAssumption
    DEF IInv, Exclusive, heldVars, bodyVars, poolVars, objVars
<1>0. TypeOK /\ Holds(u)
  BY DEF PoolProtocol
<1>1. CASE Start(u)
  <2>1. UNCHANGED <<writer, buffer, reader, writers, buffers, readers>>
    BY <1>1 DEF Start, Begin, MarshalPlain, MarshalCompressed, UnmarshalPlain,
                UnmarshalCompressed
  <2>2. writer[u] = NULL
    BY <1>0, <1>1 DEF Start, Begin, MarshalPlain, MarshalCompressed,
                      UnmarshalPlain, UnmarshalCompressed, Holds, Compressing
  <2>3. \A v \in Uses \ {u} : encoding'[v] = encoding[v]
    BY <1>0, <1>1 DEF Start, Begin, MarshalPlain, MarshalCompressed,
                      UnmarshalPlain, UnmarshalCompressed, TypeOK
  <2> QED
    BY <2>1, <2>2, <2>3 DEF Writer
<1>2. ASSUME NEW s \in Slots, GetWriter(u, s)
      PROVE  Exclusive'
  <2>1. \A v \in Uses \ {u} : Writer(v)' = Writer(v)
    BY <1>0, <1>2 DEF GetWriter, Writer, TypeOK
  <2>2. Writer(u)' = <<encoding[u], s>>
    BY <1>0, <1>2 DEF GetWriter, Writer, TypeOK
  <2>3. \A v \in Uses \ {u} : writer[v] # NULL => Writer(v) # <<encoding[u], s>>
    BY <1>2 DEF GetWriter
  <2>4. \A v \in Uses \ {u} : writer[v] = NULL => Writer(v) # <<encoding[u], s>>
    BY DEF Writer
  <2>5. \A v \in Uses \ {u} : writer'[v] = writer[v]
    BY <1>0, <1>2 DEF GetWriter, TypeOK
  <2>6. writers' = writers \ {<<encoding[u], s>>}
        /\ UNCHANGED <<buffer, reader, buffers, readers>>
    BY <1>2 DEF GetWriter
  <2> QED
    BY <2>1, <2>2, <2>3, <2>4, <2>5, <2>6
<1>3. ASSUME NEW s \in Slots, GetBuffer(u, s)
      PROVE  Exclusive'
  BY <1>0, <1>3 DEF GetBuffer, Writer, TypeOK
<1>4. ASSUME NEW s \in Slots, GetReader(u, s)
      PROVE  Exclusive'
  BY <1>0, <1>4 DEF GetReader, Writer, TypeOK
<1>5. CASE Reset(u) \/ Write(u) \/ Close(u) \/ Marshal(u) \/ SetSource(u)
           \/ Open(u)
  BY <1>5 DEF Reset, Write, Close, WritePart, Marshal, SetSource, Open, Writer
<1>6. CASE Return(u)
  BY <1>0, <1>6 DEF Return, Writer, TypeOK, Holds, Compressing
<1>7. CASE PutWriter(u)
  <2>1. writer[u] # NULL
    BY <1>0, <1>7 DEF PutWriter, Holds
  <2>2. \A v \in Uses \ {u} : Writer(v)' = Writer(v) /\ writer'[v] = writer[v]
    BY <1>0, <1>7 DEF PutWriter, Writer, TypeOK
  <2>3. writer'[u] = NULL /\ Writer(u)' = <<encoding[u], NULL>>
    BY <1>0, <1>7 DEF PutWriter, Writer, TypeOK
  <2>4. \A v \in Uses \ {u} : writer[v] # NULL => Writer(v) # <<encoding[u], NULL>>
    BY DEF Writer
  <2>5. writers' = writers \union {Writer(u)}
        /\ UNCHANGED <<buffer, reader, buffers, readers>>
    BY <1>7 DEF PutWriter
  <2> QED
    BY <2>1, <2>2, <2>3, <2>4, <2>5
<1>8. CASE ReadAll(u) \/ DecodeError(u)
  <2>1. PutReader(u) /\ UNCHANGED <<encoding, sound>>
    BY <1>8 DEF ReadAll, DecodeError, PutReader
  <2>2. reader[u] # NULL
    BY <1>0, <1>8 DEF ReadAll, DecodeError, Holds, Decompressing
  <2> QED
    BY <1>0, <2>1, <2>2 DEF PutReader, Writer, TypeOK
<1> QED
  BY <1>1, <1>2, <1>3, <1>4, <1>5, <1>6, <1>7, <1>8 DEF Step

\* What a use does leaves what another one holds alone, and the bytes of
\* another one's slice unless its buffer was taken again.
LEMMA Frame ==
    ASSUME IInv, NEW u \in Uses, Step(u), NEW w \in Uses, w # u
    PROVE  /\ pc'[w] = pc[w] /\ encoding'[w] = encoding[w]
           /\ sound'[w] = sound[w] /\ out'[w] = out[w]
           /\ writer'[w] = writer[w] /\ buffer'[w] = buffer[w]
           /\ reader'[w] = reader[w]
           /\ reused \subseteq reused'
           /\ alias'[w] = alias[w] \/ alias'[w] = NULL
           /\ Len(bytes'[w]) = Len(bytes[w])
           /\ (alias[w] = NULL \/ w \notin reused) => bytes'[w] = bytes[w]
           /\ writer[w] # NULL => target'[Writer(w)] = target[Writer(w)]
           /\ buffer[w] # NULL => content'[buffer[w]] = content[buffer[w]]
           /\ reader[w] # NULL => source'[reader[w]] = source[reader[w]]
<1> USE CompressorAssumption DEF heldVars, bodyVars, poolVars, objVars, Goto
<1>0. TypeOK /\ Exclusive /\ PoolProtocol
  BY DEF IInv
<1>1. CASE Start(u)
  BY <1>0, <1>1 DEF Start, Begin, MarshalPlain, MarshalCompressed,
                    UnmarshalPlain, UnmarshalCompressed, TypeOK
<1>2. ASSUME NEW s \in Slots, GetWriter(u, s) \/ GetBuffer(u, s) \/ GetReader(u, s)
      PROVE  /\ pc'[w] = pc[w] /\ writer'[w] = writer[w]
             /\ buffer'[w] = buffer[w] /\ reader'[w] = reader[w]
             /\ reused \subseteq reused'
             /\ UNCHANGED <<encoding, sound, out, alias, bytes, objVars>>
  BY <1>0, <1>2 DEF GetWriter, GetBuffer, GetReader, TypeOK
<1>3. CASE Reset(u)
  <2>1. buffer[u] # NULL /\ writer[u] # NULL
    BY <1>0, <1>3 DEF Reset, PoolProtocol, Holds, Compressing
  <2>2. buffer[w] # NULL => buffer[w] # buffer[u]
    BY <1>0 DEF Exclusive
  <2>3. writer[w] # NULL => Writer(w) # Writer(u)
    BY <1>0 DEF Exclusive
  <2>4. (writer[w] # NULL => target'[Writer(w)] = target[Writer(w)])
    BY <1>0, <1>3, <2>3 DEF Reset, TypeOK
  <2> QED
    BY <1>0, <1>3, <2>1, <2>2, <2>4 DEF Reset, TypeOK
<1>4. CASE Write(u) \/ Close(u)
  <2>1. /\ buffer[u] \in Slots /\ buffer[u] # NULL
        /\ target[Writer(u)] = buffer[u]
    BY <1>0, <1>4 DEF Write, Close, PoolProtocol, Holds, Streams, Compressing,
                      TypeOK
  <2>2. WritePart(u, buffer[u])
    BY <1>4, <2>1 DEF Write, Close
  <2>3. Len(content[buffer[u]]) < 2
    BY <1>4, Room DEF Write, Close
  <2>4. Len(bytes'[w]) = Len(bytes[w])
    BY <1>0, <2>1, <2>2, <2>3, WriteType
  <2>5. buffer[w] # NULL => buffer[w] # buffer[u]
    BY <1>0 DEF Exclusive
  <2>6. (alias[w] = NULL \/ w \notin reused) => alias[w] # buffer[u]
    BY <1>0, <2>1 DEF PoolProtocol, Lends
  <2>7. (alias[w] = NULL \/ w \notin reused) => bytes'[w] = bytes[w]
    BY <2>2, <2>6 DEF WritePart
  <2>8. alias'[w] = alias[w] \/ alias'[w] = NULL
    BY <2>2 DEF WritePart
  <2>9. buffer[w] # NULL => content'[buffer[w]] = content[buffer[w]]
    BY <1>0, <2>2, <2>5 DEF WritePart, TypeOK
  <2>10. UNCHANGED <<encoding, sound, writer, buffer, reader, out, reused,
                     target, source>>
    BY <2>2 DEF WritePart
  <2>11. pc'[w] = pc[w]
    BY <1>0, <1>4 DEF Write, Close, TypeOK
  <2> QED
    BY <2>4, <2>7, <2>8, <2>9, <2>10, <2>11
<1>5. CASE Return(u)
  BY <1>0, <1>5 DEF Return, TypeOK
<1>6. CASE PutWriter(u)
  BY <1>0, <1>6 DEF PutWriter, TypeOK
<1>7. CASE Marshal(u)
  BY <1>0, <1>7 DEF Marshal, TypeOK
<1>8. CASE SetSource(u)
  <2>1. reader[w] # NULL => reader[w] # reader[u]
    BY <1>0 DEF Exclusive
  <2> QED
    BY <1>0, <1>8, <2>1 DEF SetSource, TypeOK
<1>9. CASE Open(u)
  BY <1>0, <1>9 DEF Open, TypeOK
<1>10. CASE ReadAll(u)
  BY <1>0, <1>10 DEF ReadAll, PutReader, TypeOK
<1>11. CASE DecodeError(u)
  BY <1>0, <1>11 DEF DecodeError, PutReader, TypeOK
<1> QED
  BY <1>1, <1>2, <1>3, <1>4, <1>5, <1>6, <1>7, <1>8, <1>9, <1>10, <1>11
  DEF Step

-----------------------------------------------------------------------------
(* The protocol of a use with what it holds.                               *)

\* A slice that no record says was taken again stays apart from the buffers
\* that are held: whoever takes a buffer records it.
LEMMA LendsNext ==
    ASSUME IInv, NEW u \in Uses, Step(u), NEW w \in Uses,
           alias'[w] # NULL, w \notin reused'
    PROVE  \A v \in Uses : buffer'[v] # alias'[w]
<1> USE CompressorAssumption DEF heldVars, bodyVars, poolVars, objVars
<1>0. TypeOK /\ Exclusive /\ PoolProtocol
  BY DEF IInv
<1>1. CASE w # u
  <2>1. alias'[w] = alias[w] /\ w \notin reused
    BY <1>1, Frame
  <2>2. \A v \in Uses : buffer[v] # alias[w]
    BY <1>0, <2>1 DEF PoolProtocol, Lends
  <2>3. ASSUME NEW b \in Slots, GetBuffer(u, b)
        PROVE  b # alias[w]
    BY <2>1, <2>3 DEF GetBuffer
  <2>4. \A v \in Uses : buffer'[v] = buffer[v] \/ buffer'[v] = NULL
                         \/ \E b \in Slots : GetBuffer(u, b) /\ buffer'[v] = b
    BY <1>0 DEF Step, Start, Begin, MarshalPlain, MarshalCompressed,
                UnmarshalPlain, UnmarshalCompressed, GetWriter, GetBuffer,
                GetReader, Reset, Write, Close, WritePart, Return, PutWriter,
                Marshal, SetSource, Open, ReadAll, DecodeError, PutReader,
                TypeOK
  <2> QED
    BY <2>1, <2>2, <2>3, <2>4
<1>2. CASE w = u /\ Return(u)
  <2>1. buffer[u] \in Slots /\ alias'[u] = buffer[u] /\ buffer'[u] = NULL
    BY <1>0, <1>2 DEF Return, TypeOK, PoolProtocol, Holds, Compressing
  <2>2. \A v \in Uses \ {u} : buffer[v] # buffer[u] /\ buffer'[v] = buffer[v]
    BY <1>0, <1>2, <2>1 DEF Exclusive, Return, TypeOK
  <2> QED
    BY <1>2, <2>1, <2>2
<1>3. CASE w = u /\ PutWriter(u)
  BY <1>0, <1>3 DEF PutWriter, PoolProtocol, Lends
<1>4. CASE w = u /\ ~Return(u) /\ ~PutWriter(u)
  <2>1. alias[u] = NULL \/ Marshal(u)
    BY <1>0, <1>4 DEF Step, Start, Begin, MarshalPlain, MarshalCompressed,
                UnmarshalPlain, UnmarshalCompressed, GetWriter, GetBuffer,
                GetReader, Reset, Write, Close, SetSource, Open,
                ReadAll, DecodeError, PoolProtocol, Lends
  <2>2. CASE Marshal(u)
    BY <1>0, <1>4, <2>2 DEF Marshal, TypeOK
  <2>3. CASE Write(u) \/ Close(u)
    <3>1. \E b : WritePart(u, b)
      BY <2>3 DEF Write, Close
    <3>2. ~Marshal(u)
      BY <2>3 DEF Write, Close, Marshal
    <3> QED
      BY <1>4, <2>1, <3>1, <3>2 DEF WritePart
  <2>4. CASE ~Marshal(u) /\ ~Write(u) /\ ~Close(u)
    <3>1. UNCHANGED alias
      BY <1>4, <2>4 DEF Step, Start, Begin, MarshalPlain, MarshalCompressed,
                UnmarshalPlain, UnmarshalCompressed, GetWriter, GetBuffer,
                GetReader, Reset, SetSource, Open, ReadAll, DecodeError,
                PutReader
    <3> QED
      BY <1>4, <2>1, <2>4, <3>1
  <2> QED
    BY <1>4, <2>2, <2>3, <2>4
<1> QED
  BY <1>1, <1>2, <1>3, <1>4

\* The protocol of one use, and what it ends with.
Protocol(u) == Holds(u) /\ Streams(u) /\ Reads(u) /\ Lends(u)
Outcome(u) ==
    /\ (out[u] # NULL /\ u \notin reused) => out[u] = Own(u)
    /\ pc[u] = "decoded" => sound[u] /\ bytes[u] = Own(u)
    /\ pc[u] = "failed" => ~sound[u]

\* A use keeps its own protocol while it runs alone.
LEMMA OwnStep ==
    ASSUME IInv, NEW u \in Uses, Step(u)
    PROVE  Protocol(u)' /\ Outcome(u)'
<1> USE CompressorAssumption
    DEF heldVars, bodyVars, poolVars, objVars, Goto, Compressing, Decompressing
<1>0. TypeOK /\ Protocol(u) /\ Outcome(u)
  BY DEF IInv, PoolProtocol, Protocol, IntactUnlessReused, DecodesOwn, Outcome
<1>00. alias'[u] # NULL /\ u \notin reused' => \A v \in Uses : buffer'[v] # alias'[u]
  BY LendsNext
<1>1. CASE Start(u)
  <2>1. ASSUME NEW ok \in BOOLEAN, MarshalPlain(u, ok) \/ UnmarshalPlain(u, ok)
        PROVE  Protocol(u)' /\ Outcome(u)'
    BY <1>0, <2>1 DEF MarshalPlain, UnmarshalPlain, Begin, Protocol, Outcome,
         Holds, Streams, Reads, Lends, TypeOK, Own
  <2>2. ASSUME NEW ok \in BOOLEAN, NEW e \in Compressed,
               MarshalCompressed(u, e, ok) \/ UnmarshalCompressed(u, e, ok)
        PROVE  Protocol(u)' /\ Outcome(u)'
    BY <1>0, <2>2 DEF MarshalCompressed, UnmarshalCompressed, Begin, Protocol,
         Outcome, Holds, Streams, Reads, Lends, TypeOK
  <2> QED
    BY <1>1, <2>1, <2>2 DEF Start
<1>2. ASSUME NEW s \in Slots, GetWriter(u, s)
      PROVE  Protocol(u)' /\ Outcome(u)'
  BY <1>0, <1>2 DEF GetWriter, Protocol, Outcome, Holds, Streams, Reads,
                    Lends, TypeOK
<1>3. ASSUME NEW s \in Slots, GetBuffer(u, s)
      PROVE  Protocol(u)' /\ Outcome(u)'
  BY <1>0, <1>3 DEF GetBuffer, Protocol, Outcome, Holds, Streams, Reads,
                    Lends, TypeOK
<1>4. ASSUME NEW s \in Slots, GetReader(u, s)
      PROVE  Protocol(u)' /\ Outcome(u)'
  BY <1>0, <1>4 DEF GetReader, Protocol, Outcome, Holds, Streams, Reads,
                    Lends, TypeOK
<1>5. CASE Reset(u)
  <2>1. buffer[u] \in Slots /\ Writer(u) \in Compressed \X Slots
    BY <1>0, <1>5 DEF Reset, Protocol, Holds, Writer, TypeOK
  <2>2. content'[buffer[u]] = <<>> /\ target'[Writer(u)] = buffer[u]
    BY <1>0, <1>5, <2>1 DEF Reset, TypeOK
  <2>3. pc[u] = "reset" /\ pc' = [pc EXCEPT ![u] = "write"]
        /\ UNCHANGED <<encoding, sound, writer, buffer, reader, bytes, alias,
                       out, reused>>
    BY <1>5 DEF Reset
  <2> QED
    BY <1>0, <2>2, <2>3 DEF Protocol, Outcome, Holds, Streams, Reads, Lends,
                            Writer, TypeOK
<1>6. CASE Write(u) \/ Close(u)
  <2>1. /\ pc[u] \in {"write", "close"}
        /\ pc' = [pc EXCEPT ![u] = IF pc[u] = "write" THEN "close" ELSE "return"]
    BY <1>6 DEF Write, Close
  <2>2. /\ buffer[u] \in Slots /\ target[Writer(u)] = buffer[u]
        /\ alias[u] = NULL
    BY <1>0, <2>1 DEF Protocol, Holds, Streams, Lends, TypeOK
  <2>3. WritePart(u, buffer[u])
    BY <1>6, <2>2 DEF Write, Close
  <2>4. content'[buffer[u]] = IF pc[u] = "write" THEN <<u>> ELSE Own(u)
    <3>1. content'[buffer[u]] = Append(content[buffer[u]], u)
      BY <1>0, <2>2, <2>3 DEF WritePart, TypeOK
    <3>2. content[buffer[u]] = IF pc[u] = "write" THEN <<>> ELSE <<u>>
      BY <1>0, <2>1 DEF Protocol, Streams
    <3> QED
      BY <3>1, <3>2, Parts
  <2>5. alias'[u] = NULL
        /\ UNCHANGED <<encoding, sound, writer, buffer, reader, out, reused,
                       target, source>>
    BY <2>2, <2>3 DEF WritePart
  <2> QED
    BY <1>0, <2>1, <2>2, <2>4, <2>5 DEF Protocol, Outcome, Holds, Streams,
         Reads, Lends, Writer, TypeOK
<1>7. CASE Return(u)
  <2>1. content[buffer[u]] = Own(u) /\ Len(Own(u)) = 2
    BY <1>0, <1>7, Parts DEF Return, Protocol, Streams
  <2>2. bytes'[u] = Own(u) /\ pc'[u] = "putWriter" /\ buffer'[u] = NULL
        /\ UNCHANGED <<encoding, sound, writer, reader, out, reused>>
    BY <1>0, <1>7, <2>1 DEF Return, TypeOK
  <2>3. pc[u] = "return"
    BY <1>7 DEF Return
  <2> QED
    BY <1>0, <1>00, <2>1, <2>2, <2>3 DEF Protocol, Outcome, Holds, Streams,
         Reads, Lends
<1>8. CASE PutWriter(u)
  BY <1>0, <1>8 DEF PutWriter, Protocol, Outcome, Holds, Streams, Reads,
                    Lends, TypeOK
<1>9. CASE Marshal(u)
  BY <1>0, <1>9 DEF Marshal, Protocol, Outcome, Holds, Streams, Reads, Lends,
                    TypeOK
<1>10. CASE SetSource(u)
  <2>1. reader[u] \in Slots
    BY <1>0, <1>10 DEF SetSource, Protocol, Holds, TypeOK
  <2> QED
    BY <1>0, <1>10, <2>1 DEF SetSource, Protocol, Outcome, Holds, Streams,
         Reads, Lends, TypeOK
<1>11. CASE Open(u)
  BY <1>0, <1>11 DEF Open, Protocol, Outcome, Holds, Streams, Reads, Lends,
                     TypeOK
<1>12. CASE ReadAll(u)
  <2>1. bytes[u] = <<u>> /\ source[reader[u]] = u /\ pc[u] = "read" /\ sound[u]
    BY <1>0, <1>12 DEF ReadAll, Protocol, Reads
  <2>2. bytes'[u] = Own(u)
    BY <1>0, <1>12, <2>1, Parts DEF ReadAll, TypeOK
  <2> QED
    BY <1>0, <1>12, <2>1, <2>2 DEF ReadAll, PutReader, Protocol, Outcome,
         Holds, Streams, Reads, Lends, TypeOK
<1>13. CASE DecodeError(u)
  <2>1. source[reader[u]] = u /\ pc[u] \in {"open", "read"}
    BY <1>0, <1>13 DEF DecodeError, Protocol, Reads
  <2> QED
    BY <1>0, <1>13, <2>1 DEF DecodeError, PutReader, Protocol, Outcome,
         Holds, Streams, Reads, Lends, TypeOK
<1> QED
  BY <1>1, <1>2, <1>3, <1>4, <1>5, <1>6, <1>7, <1>8, <1>9, <1>10, <1>11,
     <1>12, <1>13 DEF Step

\* The steps of another use keep it too.
LEMMA OtherStep ==
    ASSUME IInv, NEW u \in Uses, Step(u), NEW w \in Uses, w # u
    PROVE  Protocol(w)' /\ Outcome(w)'
<1>0. Protocol(w) /\ Outcome(w)
  BY DEF IInv, PoolProtocol, Protocol, IntactUnlessReused, DecodesOwn, Outcome
<1>1. /\ pc'[w] = pc[w] /\ encoding'[w] = encoding[w]
      /\ sound'[w] = sound[w] /\ out'[w] = out[w]
      /\ writer'[w] = writer[w] /\ buffer'[w] = buffer[w]
      /\ reader'[w] = reader[w]
      /\ reused \subseteq reused'
      /\ alias'[w] = alias[w] \/ alias'[w] = NULL
      /\ Len(bytes'[w]) = Len(bytes[w])
      /\ (alias[w] = NULL \/ w \notin reused) => bytes'[w] = bytes[w]
      /\ writer[w] # NULL => target'[Writer(w)] = target[Writer(w)]
      /\ buffer[w] # NULL => content'[buffer[w]] = content[buffer[w]]
      /\ reader[w] # NULL => source'[reader[w]] = source[reader[w]]
  BY Frame
<1>2. Writer(w)' = Writer(w)
  BY <1>1 DEF Writer
<1>3. Holds(w)'
  BY <1>0, <1>1 DEF Protocol, Holds
<1>4. Streams(w)'
  BY <1>0, <1>1, <1>2 DEF Protocol, Holds, Streams, Compressing
<1>5. Reads(w)'
  BY <1>0, <1>1 DEF Protocol, Holds, Reads, Lends, Decompressing
<1>6. Lends(w)'
  BY <1>0, <1>1, LendsNext DEF Protocol, Lends
<1>7. Outcome(w)'
  BY <1>0, <1>1 DEF Protocol, Lends, Outcome
<1> QED
  BY <1>3, <1>4, <1>5, <1>6, <1>7 DEF Protocol

\* No step breaks the invariant.
LEMMA NextIInv == IInv /\ [Next]_vars => IInv'
<1> SUFFICES ASSUME IInv, [Next]_vars
             PROVE  IInv'
  OBVIOUS
<1>1. ASSUME NEW u \in Uses, Step(u)
      PROVE  IInv'
  <2>1. TypeOK' /\ Exclusive'
    BY <1>1, TypeNext, ExclusiveNext
  <2>2. \A w \in Uses : Protocol(w)' /\ Outcome(w)'
    BY <1>1, OwnStep, OtherStep
  <2> QED
    BY <2>1, <2>2 DEF IInv, PoolProtocol, Protocol, Outcome,
                      IntactUnlessReused, DecodesOwn
<1>2. CASE UNCHANGED vars
  BY <1>2 DEF IInv, vars, useVars, heldVars, bodyVars, poolVars, objVars,
       TypeOK, Exclusive, PoolProtocol, Holds, Streams, Reads, Lends, Writer,
       IntactUnlessReused, DecodesOwn
<1> QED
  BY <1>1, <1>2 DEF Next

\* The invariant holds in every reachable state.
THEOREM PoolsHold == Spec => []IInv
  BY InitIInv, NextIInv, PTL DEF Spec

-----------------------------------------------------------------------------
(* What follows from it.                                                   *)

\* What each use holds, has written and has read at each of its steps.
THEOREM ProtocolKept == Spec => []PoolProtocol
<1>1. IInv => PoolProtocol
  BY DEF IInv
<1> QED
  BY <1>1, PoolsHold, PTL

\* Every variable stays in its type.
THEOREM TypeCorrect == Spec => []TypeOK
<1>1. IInv => TypeOK
  BY DEF IInv
<1> QED
  BY <1>1, PoolsHold, PTL

\* No writer, buffer or reader is ever held twice, nor pooled while held.
THEOREM NeverShared == Spec => []Exclusive
<1>1. IInv => Exclusive
  BY DEF IInv
<1> QED
  BY <1>1, PoolsHold, PTL

\* What a compressor returns is the whole stream of its own data.
THEOREM StreamsComplete == Spec => []StreamComplete
<1>1. IInv => StreamComplete
  BY DEF IInv, PoolProtocol, Streams, StreamComplete
<1> QED
  BY <1>1, PoolsHold, PTL

\* The bytes of a message change only when its buffer was taken again between
\* the compressor's return and proto.Marshal.
THEOREM IntactOutsideWindow == Spec => []IntactUnlessReused
<1>1. IInv => IntactUnlessReused
  BY DEF IInv
<1> QED
  BY <1>1, PoolsHold, PTL

\* Decompression gives each use its own body or the error that it deserves.
THEOREM DecodingUndisturbed == Spec => []DecodesOwn
<1>1. IInv => DecodesOwn
  BY DEF IInv
<1> QED
  BY <1>1, PoolsHold, PTL
=============================================================================
