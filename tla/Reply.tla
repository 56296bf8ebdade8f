-------------------------------- MODULE Reply --------------------------------
(***************************************************************************)
(* Responses as the server's code builds them (rrpc.Response) and what the *)
(* two MQTT bindings make of them on the wire.                             *)
(*                                                                         *)
(* A rrpc.Response holds a status, an error or nil, and a result.  Of its  *)
(* data the model keeps                                                    *)
(*   cause    the statement that built it (the error value, or "handler"   *)
(*            for whatever a registered method replies);                   *)
(*   status   Response.Status;                                             *)
(*   err      whether Response.Error is non-nil;                           *)
(*   payload  how the marshallers treat the error text or the result:      *)
(*            "sound"    they encode it,                                   *)
(*            "foreign"  a result that is no proto.Message,                *)
(*            "broken"   one the marshaller refuses: a string that is not  *)
(*                       UTF-8 for protobuf, a channel or a NaN for JSON.  *)
(***************************************************************************)
EXTENDS Naturals

CONSTANTS
    Transport,      \* which binding serves the requests: "pb" or "json"
    NULL            \* Go's nil

ASSUME TransportAssumption == Transport \in {"pb", "json"}

Status == {200, 400, 408, 429, 500}

Cause == {"handler", "tooFrequently", "waitTimeout", "unhandled", "noReply",
          "jobTimedOut", "panic"}

Payload == {"sound", "foreign", "broken"}

Response == [cause: Cause, status: Status, err: BOOLEAN, payload: Payload]

ASSUME NullAssumption == NULL \notin Response

\* ReplyError(status, err): a response that carries an error.
ErrorResponse(cause, status, payload) ==
    [cause |-> cause, status |-> status, err |-> TRUE, payload |-> payload]

-----------------------------------------------------------------------------
\* What is published: the status and the kind of body the client will find.
Body == {"result", "empty", "null", "error"}
Message == [status: Status, body: Body]

\* An error keeps its status; everything else is sent by MakeOKResponse, whose
\* status is RPCStatusOK whatever Response.Status says.
MakeErrResponse(res) == [status |-> res.status, body |-> "error"]

ProtoBody(res) == IF res.payload = "foreign" THEN "empty" ELSE "result"
JsonBody(res) == IF res.payload = "broken" THEN "null" ELSE "result"

MakeOKResponse(res) ==
    [status |-> 200,
     body   |-> IF Transport = "pb" THEN ProtoBody(res) ELSE JsonBody(res)]

Encode(res) == IF res.err THEN MakeErrResponse(res) ELSE MakeOKResponse(res)

\* Whether ChildContext.Reply(res) publishes anything.  Protobuf refuses a
\* broken error text (the error of codec.Marshal is dropped) and a broken
\* result (MakeOKResponse returns nil); JSON replaces what it cannot encode.
Publishes(res) == ~ (Transport = "pb" /\ res.payload = "broken")

\* reply(nil) dereferences the nil that MakeOKResponse returned.
ReplyPanics(res) == Transport = "pb" /\ ~res.err /\ res.payload = "broken"

\* The reply to a retained or unparsable message, sent by the MQTT callback
\* itself before any request context exists.
BadRequest == [status |-> 400, body |-> "error"]
=============================================================================
