----------------------------- MODULE Compressor ------------------------------
(***************************************************************************)
(* The codecs of the protobuf binding and the CompressorManager under      *)
(* them.  One codec serves all requests of a server, so its goroutines     *)
(* compress, decompress and marshal at the same time, over shared pools of *)
(* writers, buffers and readers.                                           *)
(*                                                                         *)
(* A body is two parts, what its compressor writes (or reads) first and    *)
(* the rest; a part is named after the use of the codec it belongs to.  A  *)
(* slice that was taken from a buffer reads what the buffer's array holds  *)
(* now: bytes[u] changes when another use writes into that array.          *)
(***************************************************************************)
EXTENDS Naturals, Sequences

CONSTANTS
    NULL,
    Uses,        \* the calls of Marshal and Unmarshal, a goroutine each
    Slots,       \* the objects that each pool has made or will make
    Compressed   \* the encodings in use beside plain

ASSUME CompressorAssumption ==
    /\ Compressed \subseteq {"gzip", "deflate", "brotli"}
    /\ NULL \notin Slots

VARIABLES
    pc,       \* where the use is
    encoding, \* convertEncoding of the message's Encoding
    sound,    \* whether the body can be decoded (the message marshalled)
    writer,   \* the compressor the use holds, or NULL
    buffer,   \* the bytes.Buffer it holds, or NULL
    reader,   \* the bytes.Reader it holds, or NULL
    bytes,    \* what its Body.Value reads as
    alias,    \* the buffer whose array is under its Body.Value, or NULL
    out,      \* the body that proto.Marshal copied, NULL before
    reused,   \* the uses whose buffer another took while they needed it (history)
    writers,  \* the writer pools: pairs of an encoding and a slot
    buffers,  \* bufferPool
    readers,  \* byteReaderPool
    target,   \* the buffer each writer writes to, or NULL
    content,  \* the parts in each buffer
    source    \* the use whose body each reader reads, or NULL

useVars == <<pc, encoding, sound>>
heldVars == <<writer, buffer, reader>>
bodyVars == <<bytes, alias, out, reused>>
poolVars == <<writers, buffers, readers>>
objVars == <<target, content, source>>
vars == <<useVars, heldVars, bodyVars, poolVars, objVars>>

Encoding == Compressed \union {"plain"}
Compressing == {"buffer", "reset", "write", "close", "return"}
Decompressing == {"source", "open", "read"}
PC == {"new", "writer", "reader", "putWriter", "marshal", "done", "decoded",
       "failed"} \union Compressing \union Decompressing

Own(u) == <<u, u>>
Writer(u) == <<encoding[u], writer[u]>>

Init ==
    /\ pc = [u \in Uses |-> "new"]
    /\ encoding = [u \in Uses |-> "plain"]
    /\ sound = [u \in Uses |-> TRUE]
    /\ writer = [u \in Uses |-> NULL]
    /\ buffer = [u \in Uses |-> NULL]
    /\ reader = [u \in Uses |-> NULL]
    /\ bytes = [u \in Uses |-> <<>>]
    /\ alias = [u \in Uses |-> NULL]
    /\ out = [u \in Uses |-> NULL]
    /\ reused = {}
    /\ writers = Compressed \X Slots
    /\ buffers = Slots
    /\ readers = Slots
    /\ target = [w \in Compressed \X Slots |-> NULL]
    /\ content = [b \in Slots |-> <<>>]
    /\ source = [s \in Slots |-> NULL]

Goto(u, label) == pc' = [pc EXCEPT ![u] = label]

Begin(u, e, ok) ==
    /\ pc[u] = "new"
    /\ encoding' = [encoding EXCEPT ![u] = e]
    /\ sound' = [sound EXCEPT ![u] = ok]
    /\ UNCHANGED <<heldVars, alias, out, reused, poolVars, objVars>>

-----------------------------------------------------------------------------
(* Marshal: Compress, then proto.Marshal.  sync.Pool hands out any object  *)
(* that was put back, or a new one: a pool begins with all it will make.   *)

\* No body, a nil value, plain, and every encoding that is none of the four
\* pass as they are.
MarshalPlain(u, ok) ==
    /\ Begin(u, "plain", ok)
    /\ Goto(u, "marshal")
    /\ bytes' = [bytes EXCEPT ![u] = Own(u)]

MarshalCompressed(u, e, ok) ==
    /\ Begin(u, e, ok)
    /\ Goto(u, "writer")
    /\ UNCHANGED bytes

GetWriter(u, s) ==
    /\ pc[u] = "writer"
    /\ <<encoding[u], s>> \in writers
    /\ writers' = writers \ {<<encoding[u], s>>}
    /\ writer' = [writer EXCEPT ![u] = s]
    /\ Goto(u, "buffer")
    /\ UNCHANGED <<encoding, sound, buffer, reader, bodyVars, buffers, readers,
                   objVars>>

GetBuffer(u, b) ==
    /\ pc[u] = "buffer"
    /\ b \in buffers
    /\ buffers' = buffers \ {b}
    /\ buffer' = [buffer EXCEPT ![u] = b]
    /\ reused' = reused \union {v \in Uses : alias[v] = b}
    /\ Goto(u, "reset")
    /\ UNCHANGED <<encoding, sound, writer, reader, bytes, alias, out, writers,
                   readers, objVars>>

\* Mutant: the buffer keeps what its last use wrote.
ResetWriterOnly(u) ==
    /\ pc[u] = "reset"
    /\ target' = [target EXCEPT ![Writer(u)] = buffer[u]]
    /\ Goto(u, "write")
    /\ UNCHANGED <<encoding, sound, heldVars, bodyVars, poolVars, content,
                   source>>

\* Mutant: the buffer goes back to its pool here and not on return.
ResetPutEarly(u) ==
    /\ pc[u] = "reset"
    /\ content' = [content EXCEPT ![buffer[u]] = <<>>]
    /\ target' = [target EXCEPT ![Writer(u)] = buffer[u]]
    /\ buffers' = buffers \union {buffer[u]}
    /\ Goto(u, "write")
    /\ UNCHANGED <<encoding, sound, heldVars, bodyVars, writers, readers,
                   source>>

\* buf.Reset keeps the array; the writer's Reset binds it to the buffer.
Reset(u) ==
    /\ pc[u] = "reset"
    /\ content' = [content EXCEPT ![buffer[u]] = <<>>]
    /\ target' = [target EXCEPT ![Writer(u)] = buffer[u]]
    /\ Goto(u, "write")
    /\ UNCHANGED <<encoding, sound, heldVars, bodyVars, poolVars, source>>

\* A part is written to the end of the buffer: in place, over the array that
\* older slices read, or into a larger array that replaces it.
WritePart(u, b) ==
    /\ content' = [content EXCEPT ![b] = Append(@, u)]
    /\ \/ /\ bytes' = [v \in Uses |->
                         IF alias[v] = b
                         THEN [bytes[v] EXCEPT ![Len(content[b]) + 1] = u]
                         ELSE bytes[v]]
          /\ UNCHANGED alias
       \/ /\ alias' = [v \in Uses |-> IF alias[v] = b THEN NULL ELSE alias[v]]
          /\ UNCHANGED bytes
    /\ UNCHANGED <<encoding, sound, heldVars, out, reused, poolVars, target,
                   source>>

\* Write, which a buffer never refuses, and Close, which flushes the rest.
Write(u) ==
    /\ pc[u] = "write"
    /\ WritePart(u, target[Writer(u)])
    /\ Goto(u, "close")

Close(u) ==
    /\ pc[u] = "close"
    /\ WritePart(u, target[Writer(u)])
    /\ Goto(u, "return")

\* Mutant: the length of the slice is taken before Close.
ReturnShort(u) ==
    /\ pc[u] = "return"
    /\ bytes' = [bytes EXCEPT ![u] = <<Head(content[buffer[u]])>>]
    /\ alias' = [alias EXCEPT ![u] = buffer[u]]
    /\ buffers' = buffers \union {buffer[u]}
    /\ buffer' = [buffer EXCEPT ![u] = NULL]
    /\ Goto(u, "putWriter")
    /\ UNCHANGED <<encoding, sound, writer, reader, out, reused, writers,
                   readers, objVars>>

\* return buf.Bytes(), then the deferred Put of the buffer and of the writer.
Return(u) ==
    /\ pc[u] = "return"
    /\ bytes' = [bytes EXCEPT ![u] = content[buffer[u]]]
    /\ alias' = [alias EXCEPT ![u] = buffer[u]]
    /\ buffers' = buffers \union {buffer[u]}
    /\ buffer' = [buffer EXCEPT ![u] = NULL]
    /\ Goto(u, "putWriter")
    /\ UNCHANGED <<encoding, sound, writer, reader, out, reused, writers,
                   readers, objVars>>

PutWriter(u) ==
    /\ pc[u] = "putWriter"
    /\ writers' = writers \union {Writer(u)}
    /\ writer' = [writer EXCEPT ![u] = NULL]
    /\ Goto(u, "marshal")
    /\ UNCHANGED <<encoding, sound, buffer, reader, bodyVars, buffers, readers,
                   objVars>>

\* proto.Marshal copies the body, or refuses the message.
Marshal(u) ==
    /\ pc[u] = "marshal"
    /\ out' = [out EXCEPT ![u] = IF sound[u] THEN bytes[u] ELSE NULL]
    /\ alias' = [alias EXCEPT ![u] = NULL]
    /\ Goto(u, IF sound[u] THEN "done" ELSE "failed")
    /\ UNCHANGED <<encoding, sound, heldVars, bytes, reused, poolVars, objVars>>

-----------------------------------------------------------------------------
(* Unmarshal: proto.Unmarshal, then Decompress.                            *)

\* A message that does not parse, and a body that is not compressed.
UnmarshalPlain(u, ok) ==
    /\ Begin(u, "plain", ok)
    /\ Goto(u, IF ok THEN "decoded" ELSE "failed")
    /\ bytes' = [bytes EXCEPT ![u] = IF ok THEN Own(u) ELSE <<>>]

UnmarshalCompressed(u, e, ok) ==
    /\ Begin(u, e, ok)
    /\ Goto(u, "reader")
    /\ UNCHANGED bytes

GetReader(u, s) ==
    /\ pc[u] = "reader"
    /\ s \in readers
    /\ readers' = readers \ {s}
    /\ reader' = [reader EXCEPT ![u] = s]
    /\ Goto(u, "source")
    /\ UNCHANGED <<encoding, sound, writer, buffer, bodyVars, writers, buffers,
                   objVars>>

\* Mutant: the reader goes back to its pool here and not on return.
SetSourcePut(u) ==
    /\ pc[u] = "source"
    /\ source' = [source EXCEPT ![reader[u]] = u]
    /\ readers' = readers \union {reader[u]}
    /\ Goto(u, "open")
    /\ UNCHANGED <<encoding, sound, heldVars, bodyVars, writers, buffers,
                   target, content>>

\* byteReader.Reset(data)
SetSource(u) ==
    /\ pc[u] = "source"
    /\ source' = [source EXCEPT ![reader[u]] = u]
    /\ Goto(u, "open")
    /\ UNCHANGED <<encoding, sound, heldVars, bodyVars, poolVars, target,
                   content>>

\* gzip.NewReader and zlib.NewReader read the header, brotli.NewReader
\* nothing that could fail.
Open(u) ==
    /\ pc[u] = "open"
    /\ bytes' = [bytes EXCEPT ![u] = <<source[reader[u]]>>]
    /\ Goto(u, "read")
    /\ UNCHANGED <<encoding, sound, heldVars, alias, out, reused, poolVars,
                   objVars>>

\* The deferred Put of the reader.
PutReader(u) ==
    /\ readers' = readers \union {reader[u]}
    /\ reader' = [reader EXCEPT ![u] = NULL]
    /\ UNCHANGED <<encoding, sound, writer, buffer, alias, out, reused,
                   writers, buffers, objVars>>

\* io.ReadAll, into memory of its own.
ReadAll(u) ==
    /\ pc[u] = "read"
    /\ sound[source[reader[u]]]
    /\ bytes' = [bytes EXCEPT ![u] = Append(@, source[reader[u]])]
    /\ Goto(u, "decoded")
    /\ PutReader(u)

\* The error of a header or of the rest.
DecodeError(u) ==
    /\ pc[u] = "read" \/ (pc[u] = "open" /\ encoding[u] # "brotli")
    /\ ~sound[source[reader[u]]]
    /\ bytes' = [bytes EXCEPT ![u] = <<>>]
    /\ Goto(u, "failed")
    /\ PutReader(u)

-----------------------------------------------------------------------------
Start(u) ==
    \E ok \in BOOLEAN :
        \/ MarshalPlain(u, ok)
        \/ UnmarshalPlain(u, ok)
        \/ \E e \in Compressed :
            MarshalCompressed(u, e, ok) \/ UnmarshalCompressed(u, e, ok)

Step(u) ==
    \/ Start(u)
    \/ \E s \in Slots : GetWriter(u, s) \/ GetBuffer(u, s) \/ GetReader(u, s)
    \/ Reset(u)
    \/ Write(u)
    \/ Close(u)
    \/ Return(u)
    \/ PutWriter(u)
    \/ Marshal(u)
    \/ SetSource(u)
    \/ Open(u)
    \/ ReadAll(u)
    \/ DecodeError(u)

Next == \E u \in Uses : Step(u)

Spec == Init /\ [][Next]_vars

-----------------------------------------------------------------------------
(* Safety                                                                  *)

\* Every variable stays in its type; no buffer ever holds more than one body.
Body == {s \in Seq(Uses) : Len(s) <= 2}

TypeOK ==
    /\ pc \in [Uses -> PC]
    /\ encoding \in [Uses -> Encoding]
    /\ sound \in [Uses -> BOOLEAN]
    /\ writer \in [Uses -> Slots \union {NULL}]
    /\ buffer \in [Uses -> Slots \union {NULL}]
    /\ reader \in [Uses -> Slots \union {NULL}]
    /\ bytes \in [Uses -> Body]
    /\ alias \in [Uses -> Slots \union {NULL}]
    /\ out \in [Uses -> Body \union {NULL}]
    /\ reused \subseteq Uses
    /\ writers \subseteq Compressed \X Slots
    /\ buffers \subseteq Slots
    /\ readers \subseteq Slots
    /\ target \in [Compressed \X Slots -> Slots \union {NULL}]
    /\ content \in [Slots -> Body]
    /\ source \in [Slots -> Uses \union {NULL}]

\* A writer, buffer or reader that a use holds is held by no other use and is
\* not in its pool, so that no compressor writes where another one writes.
Exclusive ==
    \A u \in Uses :
        /\ writer[u] # NULL =>
             /\ Writer(u) \notin writers
             /\ \A v \in Uses \ {u} : Writer(v) # Writer(u)
        /\ buffer[u] # NULL =>
             /\ buffer[u] \notin buffers
             /\ \A v \in Uses \ {u} : buffer[v] # buffer[u]
        /\ reader[u] # NULL =>
             /\ reader[u] \notin readers
             /\ \A v \in Uses \ {u} : reader[v] # reader[u]

\* What a compressor hands out is the complete stream of its own data and
\* nothing of an earlier use of the pooled objects.
StreamComplete ==
    \A u \in Uses : pc[u] = "return" => content[buffer[u]] = Own(u)

\* A message carries its own body, unless another use took the buffer under it
\* between the compressor's return and proto.Marshal.
IntactUnlessReused ==
    \A u \in Uses : (out[u] # NULL /\ u \notin reused) => out[u] = Own(u)

\* However uses share the readers, a sound body is decoded into its own data
\* and a broken one is refused.
DecodesOwn ==
    \A u \in Uses :
        /\ pc[u] = "decoded" => sound[u] /\ bytes[u] = Own(u)
        /\ pc[u] = "failed" => ~sound[u]

-----------------------------------------------------------------------------
(* How a use owns the objects it holds: the inductive invariant behind the *)
(* safety properties.                                                      *)

\* What it holds follows from where it is.
Holds(u) ==
    /\ writer[u] # NULL <=> pc[u] \in Compressing \union {"putWriter"}
    /\ buffer[u] # NULL <=> pc[u] \in Compressing \ {"buffer"}
    /\ reader[u] # NULL <=> pc[u] \in Decompressing
    /\ pc[u] \in Compressing \union {"writer", "putWriter"} =>
           encoding[u] \in Compressed

\* Its writer writes to its buffer, and there only its own parts are.
Streams(u) ==
    /\ pc[u] \in {"write", "close", "return"} => target[Writer(u)] = buffer[u]
    /\ pc[u] = "write" => content[buffer[u]] = <<>>
    /\ pc[u] = "close" => content[buffer[u]] = <<u>>
    /\ pc[u] = "return" => content[buffer[u]] = Own(u)

\* Its reader reads its body.
Reads(u) ==
    /\ pc[u] \in {"open", "read"} => source[reader[u]] = u
    /\ pc[u] = "read" => bytes[u] = <<u>>

\* The array under its slice is no holder's unless that is recorded.
Lends(u) ==
    /\ alias[u] # NULL =>
         /\ pc[u] \in {"putWriter", "marshal"}
         /\ Len(bytes[u]) = 2
         /\ u \notin reused => \A v \in Uses : buffer[v] # alias[u]
    /\ (pc[u] \in {"putWriter", "marshal"} /\ u \notin reused) =>
           bytes[u] = Own(u)

PoolProtocol ==
    \A u \in Uses : Holds(u) /\ Streams(u) /\ Reads(u) /\ Lends(u)

-----------------------------------------------------------------------------
(* What the repository's comments say and the code does not do.            *)

\* The compressors "return the compressed data as a byte slice", so a message
\* that is marshalled from it carries the compressed data.
BodyIntact == \A u \in Uses : out[u] # NULL => out[u] = Own(u)
=============================================================================
