----------------------------- MODULE GinHandler -----------------------------
(***************************************************************************)
(* The request path of routers/ginapi: the closure Handler returns, the    *)
(* generated method handler it calls, ginTransportStream (the grpc         *)
(* ServerTransportStream through which the service sets headers and        *)
(* trailers) and ErrorResponse, on top of gin's pooled contexts and its    *)
(* deferred response writer and of net/http's response.                    *)
(*                                                                         *)
(* Requests run concurrently.  What they share is the pool of              *)
(* gin.Contexts: a stream keeps a pointer to the context it was made with, *)
(* and the context is recycled when the handler returns.                   *)
(***************************************************************************)
EXTENDS Naturals, Sequences, FiniteSets

CONSTANTS
  Requests,        \* the HTTP requests
  Contexts,        \* the gin.Contexts of the engine's sync.Pool
  NoContext,       \* the context of a request not accepted yet
  Gateway,         \* the author of the header values the gateway sets itself
  Intercepted,     \* requests to services registered with an interceptor
  Keys,            \* metadata keys (header names, up to case)
  ContentType,     \* the key of Content-Type
  ServiceErrors,   \* errors a service or interceptor may return
  MaxCalls,        \* bound: stream calls (SetHeader, ...) per request
  MaxServes,       \* bound: how often an interceptor enters the service
  Detached         \* requests whose service leaves goroutines that use the stream

(* The grpc codes other than OK; "Plain" is an error that carries no       *)
(* grpc status.                                                            *)
Codes == {"Canceled", "Unknown", "InvalidArgument", "DeadlineExceeded", "NotFound",
          "AlreadyExists", "PermissionDenied", "ResourceExhausted",
          "FailedPrecondition", "Aborted", "OutOfRange", "Unimplemented", "Internal",
          "Unavailable", "DataLoss", "Unauthenticated"}

ASSUME ConstantsAssumption ==
  /\ NoContext \notin Contexts
  /\ Gateway \notin Requests
  /\ Intercepted \subseteq Requests
  /\ ContentType \in Keys
  /\ ServiceErrors \subseteq Codes \cup {"Plain"}
  /\ MaxCalls \in Nat
  /\ MaxServes \in Nat \ {0}
  /\ Detached \subseteq Requests

VARIABLES
  pc,          \* pc[r]: the step of Handler the request is at
  ctx,         \* ctx[r]: the gin.Context its stream points to
  fault,       \* fault[r]: the first thing that went wrong
  served,      \* served[r]: how often the service method was entered
  headers,     \* headers[r]: ginTransportStream.headers
  trailers,    \* trailers[r]: ginTransportStream.trailers
  calls,       \* calls[r]: the stream calls made, a history for the properties
  pool,        \* the contexts in the engine's pool
  owner,       \* owner[c]: the request whose http.ResponseWriter c.Writer wraps
  status,      \* status[c]: responseWriter.status
  written,     \* written[c]: responseWriter.Written()
  header,      \* header[r]: the live http.Header of the request's response
  wireStatus,  \* wireStatus[r]: the status line sent, 0 before
  wireHeader,  \* wireHeader[r]: the header block sent
  wireTrailer, \* wireTrailer[r]: the trailers sent after the body
  body,        \* body[r]: the documents the client received
  broken       \* broken[r]: writing to the client failed

callVars == <<fault, served>>
streamVars == <<headers, trailers, calls>>
ginVars == <<owner, status, written>>
wireVars == <<wireStatus, wireHeader, body, broken>>
vars == <<pc, ctx, callVars, streamVars, pool, ginVars, header, wireVars, wireTrailer>>

-----------------------------------------------------------------------------
(* Data: header values know who set them and in which call.                *)

Value == [by : Requests \cup {Gateway}, n : Nat]
JSON == <<[by |-> Gateway, n |-> 1]>>    \* "application/json"
Text == <<[by |-> Gateway, n |-> 2]>>    \* "text/plain"

TrailerPrefix == "Trailer:"
Prefixes == {"", TrailerPrefix, "trailer:"}
Name == Prefixes \X Keys
HeaderMap == [Name -> Seq(Value)]
Call == [op : {"SetHeader", "SendHeader", "SetTrailer"}, keys : SUBSET Keys]
Empty == [n \in Name |-> <<>>]

(* metadata.MD.Set lower-cases the key it stores under.                    *)
ToLower(prefix) == IF prefix = TrailerPrefix THEN "trailer:" ELSE prefix
HeaderName(k) == <<ToLower(""), k>>
TrailerName(k) == <<ToLower(TrailerPrefix), k>>

(* MD.Set of every key of a call: the last value replaces the earlier.     *)
MDSet(md, names, v) == [n \in Name |-> IF n \in names THEN <<v>> ELSE md[n]]

(* http.Header.Add of every key and value of a metadata.MD.                *)
AddAll(h, md) == [n \in Name |-> h[n] \o md[n]]

(* net/http sends as trailers what is under the exact prefix "Trailer:";   *)
(* a key with a colon is left as it is by the header canonicalisation.     *)
FinalTrailers(h) == [k \in Keys |-> h[<<TrailerPrefix, k>>]]

(* Mutant: the grpc code used as the HTTP status.                          *)
HTTPStatusFromCode_Code(c) == IF c = "NotFound" THEN 5 ELSE 13

HTTPStatusFromCode(c) ==
  CASE c = "OK" -> 200
    [] c = "Canceled" -> 499
    [] c \in {"InvalidArgument", "FailedPrecondition", "OutOfRange"} -> 400
    [] c = "DeadlineExceeded" -> 504
    [] c = "NotFound" -> 404
    [] c \in {"AlreadyExists", "Aborted"} -> 409
    [] c = "PermissionDenied" -> 403
    [] c = "Unauthenticated" -> 401
    [] c = "ResourceExhausted" -> 429
    [] c = "Unimplemented" -> 501
    [] c = "Unavailable" -> 503
    [] OTHER -> 500

(* errors.Is(err, &http.MaxBytesError{}): two pointers to distinct         *)
(* allocations are never equal, and the type has no Is method.             *)
IsFreshMaxBytesError(f) == FALSE

(* The error each failing step of Handler hands to ErrorResponse.          *)
ErrorOf(f) ==
  CASE f = "tooLarge" -> IF IsFreshMaxBytesError(f) THEN "InvalidArgument" ELSE "Plain"
    [] f \in {"badQuery", "badInput"} -> "InvalidArgument"
    [] f \in {"unreadable", "badWire", "unmarshalable", "writeFailed"} -> "Plain"
    [] OTHER -> f

(* status.FromError and the status ErrorResponse picks.                    *)
ErrorStatus(e) == IF e = "Plain" THEN 500 ELSE HTTPStatusFromCode(e)

Faults == {"tooLarge", "unreadable", "badQuery", "badInput", "badWire",
           "unmarshalable", "writeFailed"} \cup Codes \cup {"Plain"}

-----------------------------------------------------------------------------
Running == {"interceptor", "service"}
Steps == {"idle", "readBody", "parseQuery", "decode", "interceptor", "service",
          "assert", "marshal", "reply", "write", "trailers", "error", "statusBody",
          "textBody", "finish", "done", "panicked"}

(* Between ServeHTTP taking the context and putting it back.               *)
Active(r) == pc[r] \notin {"idle", "done", "panicked"}

Init ==
  /\ pc = [r \in Requests |-> "idle"]
  /\ ctx = [r \in Requests |-> NoContext]
  /\ fault = [r \in Requests |-> "none"]
  /\ served = [r \in Requests |-> 0]
  /\ headers = [r \in Requests |-> Empty]
  /\ trailers = [r \in Requests |-> Empty]
  /\ calls = [r \in Requests |-> <<>>]
  /\ pool = Contexts
  /\ owner = [c \in Contexts |-> Gateway]
  /\ status = [c \in Contexts |-> 200]
  /\ written = [c \in Contexts |-> FALSE]
  /\ header = [r \in Requests |-> Empty]
  /\ wireStatus = [r \in Requests |-> 0]
  /\ wireHeader = [r \in Requests |-> Empty]
  /\ wireTrailer = [r \in Requests |-> [k \in Keys |-> <<>>]]
  /\ body = [r \in Requests |-> <<>>]
  /\ broken = [r \in Requests |-> FALSE]

Goto(r, step) == pc' = [pc EXCEPT ![r] = step]

(* ErrorResponse is called with the error of fault f.                      *)
Fail(r, f) == /\ fault' = [fault EXCEPT ![r] = f]
              /\ Goto(r, "error")

(* c.Header(key, value): http.Header.Set on the response c.Writer wraps.   *)
GinSetHeader(c, k, v) == header' = [header EXCEPT ![owner[c]][HeaderName(k)] = v]

(* Mutant: SendHeader commits the status.                                  *)
GinWriteHeader_Eager(c, code) ==
  status' = IF \/ written[c]
               \/ \E i \in DOMAIN calls[owner[c]] : calls[owner[c]][i].op = "SendHeader"
            THEN status ELSE [status EXCEPT ![c] = code]

(* responseWriter.WriteHeader: only recorded, until the first write.       *)
GinWriteHeader(c, code) ==
  status' = IF written[c] THEN status ELSE [status EXCEPT ![c] = code]

(* Mutant: the header block is sent again at the end of the request.       *)
GinWriteHeaderNow_Again(c) ==
  /\ written' = [written EXCEPT ![c] = TRUE]
  /\ wireStatus' = [wireStatus EXCEPT ![owner[c]] = status[c]]
  /\ wireHeader' = [wireHeader EXCEPT ![owner[c]] = header[owner[c]]]

(* responseWriter.WriteHeaderNow and what net/http sends for it.           *)
GinWriteHeaderNow(c) ==
  /\ written' = [written EXCEPT ![c] = TRUE]
  /\ IF written[c]
       THEN UNCHANGED <<wireStatus, wireHeader>>
       ELSE /\ wireStatus' = [wireStatus EXCEPT ![owner[c]] = status[c]]
            /\ wireHeader' = [wireHeader EXCEPT ![owner[c]] = header[owner[c]]]

(* responseWriter.Write: a connection that failed once keeps failing.      *)
GinWrite(c, doc, ok) ==
  /\ ok => ~broken[owner[c]]
  /\ GinWriteHeaderNow(c)
  /\ body' = IF ok THEN [body EXCEPT ![owner[c]] = Append(@, doc)] ELSE body
  /\ broken' = [broken EXCEPT ![owner[c]] = ~ok]
  /\ UNCHANGED <<owner, status>>
-----------------------------------------------------------------------------
(* The actions: one per step of ServeHTTP and Handler.                     *)

(* Mutant: the context stays in the pool while it is used.                 *)
Accept_Shared(r) ==
  /\ pc[r] = "idle"
  /\ \E c \in pool :
       /\ pool' = pool
       /\ ctx' = [ctx EXCEPT ![r] = c]
       /\ owner' = [owner EXCEPT ![c] = r]
       /\ status' = [status EXCEPT ![c] = 200]
       /\ written' = [written EXCEPT ![c] = FALSE]
  /\ Goto(r, "readBody")
  /\ UNCHANGED <<callVars, streamVars, header, wireVars, wireTrailer>>

(* Mutant: a recycled context keeps the writer of its last request.        *)
Accept_StaleWriter(r) ==
  /\ pc[r] = "idle"
  /\ \E c \in pool :
       /\ pool' = pool \ {c}
       /\ ctx' = [ctx EXCEPT ![r] = c]
       /\ owner' = [owner EXCEPT ![c] = IF @ = Gateway THEN r ELSE @]
       /\ status' = [status EXCEPT ![c] = 200]
       /\ written' = [written EXCEPT ![c] = FALSE]
  /\ Goto(r, "readBody")
  /\ UNCHANGED <<callVars, streamVars, header, wireVars, wireTrailer>>

(* engine.pool.Get, writermem.reset, c.reset, and Handler up to the body:  *)
(* the stream is made on the pooled context.                               *)
Accept(r) ==
  /\ pc[r] = "idle"
  /\ \E c \in pool :
       /\ pool' = pool \ {c}
       /\ ctx' = [ctx EXCEPT ![r] = c]
       /\ owner' = [owner EXCEPT ![c] = r]
       /\ status' = [status EXCEPT ![c] = 200]
       /\ written' = [written EXCEPT ![c] = FALSE]
  /\ Goto(r, "readBody")
  /\ UNCHANGED <<callVars, streamVars, header, wireVars, wireTrailer>>

ReadBody(r) ==
  /\ pc[r] = "readBody"
  /\ \/ Goto(r, "parseQuery") /\ UNCHANGED fault
     \/ \E f \in {"tooLarge", "unreadable"} : Fail(r, f)
  /\ UNCHANGED <<ctx, served, streamVars, pool, ginVars, header, wireVars, wireTrailer>>

ParseQuery(r) ==
  /\ pc[r] = "parseQuery"
  /\ \/ Goto(r, "decode") /\ UNCHANGED fault
     \/ Fail(r, "badQuery")
  /\ UNCHANGED <<ctx, served, streamVars, pool, ginVars, header, wireVars, wireTrailer>>

(* The generated method handler: decode, then the method itself or the     *)
(* registry's interceptor.                                                 *)
Decode(r) ==
  /\ pc[r] = "decode"
  /\ \/ /\ r \in Intercepted
        /\ Goto(r, "interceptor")
        /\ UNCHANGED callVars
     \/ /\ r \notin Intercepted
        /\ served' = [served EXCEPT ![r] = @ + 1]
        /\ Goto(r, "service")
        /\ UNCHANGED fault
     \/ /\ \E f \in {"badInput", "badWire"} : Fail(r, f)
        /\ UNCHANGED served
  /\ UNCHANGED <<ctx, streamVars, pool, ginVars, header, wireVars, wireTrailer>>

(* An interceptor calls its handler, not necessarily once.                 *)
CallService(r) ==
  /\ pc[r] = "interceptor"
  /\ served[r] < MaxServes
  /\ served' = [served EXCEPT ![r] = @ + 1]
  /\ Goto(r, "service")
  /\ UNCHANGED <<ctx, fault, streamVars, pool, ginVars, header, wireVars, wireTrailer>>

(* The service method returns to its caller, with a response or an error.  *)
ServiceReturns(r) ==
  /\ pc[r] = "service"
  /\ \/ r \in Intercepted /\ Goto(r, "interceptor") /\ UNCHANGED fault
     \/ r \notin Intercepted /\ Goto(r, "marshal") /\ UNCHANGED fault
     \/ r \notin Intercepted /\ \E e \in ServiceErrors : Fail(r, e)
  /\ UNCHANGED <<ctx, served, streamVars, pool, ginVars, header, wireVars, wireTrailer>>

(* The interceptor returns an error, or any result with a nil error.       *)
InterceptorReturns(r) ==
  /\ pc[r] = "interceptor"
  /\ \/ Goto(r, "assert") /\ UNCHANGED fault
     \/ \E e \in ServiceErrors : Fail(r, e)
  /\ UNCHANGED <<ctx, served, streamVars, pool, ginVars, header, wireVars, wireTrailer>>

(* rv.(proto.Message) panics on a nil result.                              *)
AssertMessage(r) ==
  /\ pc[r] = "assert"
  /\ Goto(r, "marshal") \/ Goto(r, "panicked")
  /\ UNCHANGED <<ctx, callVars, streamVars, pool, ginVars, header, wireVars, wireTrailer>>

(* The service or an interceptor panics: net/http drops the connection,    *)
(* the context is never put back.                                          *)
Panic(r) ==
  /\ pc[r] \in Running
  /\ Goto(r, "panicked")
  /\ UNCHANGED <<ctx, callVars, streamVars, pool, ginVars, header, wireVars, wireTrailer>>

Marshal(r) ==
  /\ pc[r] = "marshal"
  /\ \/ Goto(r, "reply") /\ UNCHANGED fault
     \/ Fail(r, "unmarshalable")
  /\ UNCHANGED <<ctx, served, streamVars, pool, ginVars, header, wireVars, wireTrailer>>

(* Mutant: Content-Type is set after the service's headers were added.     *)
Reply_TypeLast(r) ==
  /\ pc[r] = "reply"
  /\ header' = [header EXCEPT ![owner[ctx[r]]] =
                  [AddAll(@, headers[r]) EXCEPT ![HeaderName(ContentType)] = JSON]]
  /\ GinWriteHeader(ctx[r], 200)
  /\ Goto(r, "write")
  /\ UNCHANGED <<ctx, callVars, streamVars, pool, owner, written, wireVars, wireTrailer>>

(* c.Header("Content-Type") and stream.writeHeader before the body.        *)
Reply(r) ==
  /\ pc[r] = "reply"
  /\ header' = [header EXCEPT ![owner[ctx[r]]] =
                  AddAll([@ EXCEPT ![HeaderName(ContentType)] = JSON], headers[r])]
  /\ GinWriteHeader(ctx[r], 200)
  /\ Goto(r, "write")
  /\ UNCHANGED <<ctx, callVars, streamVars, pool, owner, written, wireVars, wireTrailer>>

WriteBody(r) ==
  /\ pc[r] = "write"
  /\ \/ GinWrite(ctx[r], "response", TRUE) /\ Goto(r, "trailers") /\ UNCHANGED fault
     \/ GinWrite(ctx[r], "response", FALSE) /\ Fail(r, "writeFailed")
  /\ UNCHANGED <<ctx, served, streamVars, pool, header, wireTrailer>>

WriteTrailer(r) ==
  /\ pc[r] = "trailers"
  /\ header' = [header EXCEPT ![owner[ctx[r]]] = AddAll(@, trailers[r])]
  /\ Goto(r, "finish")
  /\ UNCHANGED <<ctx, callVars, streamVars, pool, ginVars, wireVars, wireTrailer>>

(* ErrorResponse up to the body; the status may fail to marshal.           *)
ErrorResponse(r) ==
  /\ pc[r] = "error"
  /\ \/ /\ GinSetHeader(ctx[r], ContentType, JSON)
        /\ GinWriteHeader(ctx[r], ErrorStatus(ErrorOf(fault[r])))
        /\ Goto(r, "statusBody")
     \/ /\ GinSetHeader(ctx[r], ContentType, Text)
        /\ GinWriteHeader(ctx[r], 500)
        /\ Goto(r, "textBody")
  /\ UNCHANGED <<ctx, callVars, streamVars, pool, owner, written, wireVars, wireTrailer>>

(* Mutant: no return after the error of a bad query was answered.          *)
ErrorBody_NoReturn(r) ==
  /\ \/ pc[r] = "statusBody" /\ \E ok \in BOOLEAN : GinWrite(ctx[r], "status", ok)
     \/ pc[r] = "textBody" /\ \E ok \in BOOLEAN : GinWrite(ctx[r], "text", ok)
  /\ Goto(r, IF fault[r] = "badQuery" THEN "decode" ELSE "finish")
  /\ UNCHANGED <<ctx, callVars, streamVars, pool, header, wireTrailer>>

(* The body of ErrorResponse; a failing write is ignored.                  *)
ErrorBody(r) ==
  /\ \/ pc[r] = "statusBody" /\ \E ok \in BOOLEAN : GinWrite(ctx[r], "status", ok)
     \/ pc[r] = "textBody" /\ \E ok \in BOOLEAN : GinWrite(ctx[r], "text", ok)
  /\ Goto(r, "finish")
  /\ UNCHANGED <<ctx, callVars, streamVars, pool, header, wireTrailer>>

(* handleHTTPRequest's WriteHeaderNow, engine.pool.Put, and net/http's     *)
(* finishRequest: the context may be handed to another request from here.  *)
Finish(r) ==
  /\ pc[r] = "finish"
  /\ GinWriteHeaderNow(ctx[r])
  /\ wireTrailer' = [wireTrailer EXCEPT ![r] =
                       IF broken[r] THEN @ ELSE FinalTrailers(header[r])]
  /\ pool' = pool \cup {ctx[r]}
  /\ Goto(r, "done")
  /\ UNCHANGED <<ctx, callVars, streamVars, owner, status, header, body, broken>>

(* The stream: calls of the service and the interceptors, or of goroutines *)
(* they started and that outlive them.                                     *)
MayUseStream(r) ==
  /\ Len(calls[r]) < MaxCalls
  /\ pc[r] \in Running \/ (r \in Detached /\ served[r] > 0)

NewValue(r) == [by |-> r, n |-> Len(calls[r]) + 1]
Names(ks) == {HeaderName(k) : k \in ks}
Record(r, op, ks) == calls' = [calls EXCEPT ![r] = Append(@, [op |-> op, keys |-> ks])]

SetHeader(r) ==
  /\ MayUseStream(r)
  /\ \E ks \in SUBSET Keys \ {{}} :
       /\ headers' = [headers EXCEPT ![r] = MDSet(@, Names(ks), NewValue(r))]
       /\ Record(r, "SetHeader", ks)
  /\ UNCHANGED <<pc, ctx, callVars, trailers, pool, ginVars, header, wireVars, wireTrailer>>

(* Writes through the context the stream was made with, whoever owns it.   *)
SendHeader(r) ==
  /\ MayUseStream(r)
  /\ \E ks \in SUBSET Keys :
       LET md == MDSet(headers[r], Names(ks), NewValue(r)) IN
       /\ headers' = [headers EXCEPT ![r] = md]
       /\ header' = [header EXCEPT ![owner[ctx[r]]] = AddAll(@, md)]
       /\ Record(r, "SendHeader", ks)
  /\ GinWriteHeader(ctx[r], 200)
  /\ UNCHANGED <<pc, ctx, callVars, trailers, pool, owner, written, wireVars, wireTrailer>>

SetTrailer(r) ==
  /\ MayUseStream(r)
  /\ \E ks \in SUBSET Keys \ {{}} :
       /\ trailers' = [trailers EXCEPT
                         ![r] = MDSet(@, {TrailerName(k) : k \in ks}, NewValue(r))]
       /\ Record(r, "SetTrailer", ks)
  /\ UNCHANGED <<pc, ctx, callVars, headers, pool, ginVars, header, wireVars, wireTrailer>>

(* What the gateway itself runs, as against the service's code.            *)
HandlerStep(r) ==
  \/ ReadBody(r) \/ ParseQuery(r) \/ Decode(r) \/ AssertMessage(r)
  \/ Marshal(r) \/ Reply(r) \/ WriteBody(r) \/ WriteTrailer(r) \/ ErrorResponse(r)
  \/ ErrorBody(r) \/ Finish(r)

ServiceStep(r) ==
  \/ CallService(r) \/ ServiceReturns(r) \/ InterceptorReturns(r) \/ Panic(r)
  \/ SetHeader(r) \/ SendHeader(r) \/ SetTrailer(r)

(* Every request is over: nothing is left to do.                           *)
Quiescent == /\ \A r \in Requests : pc[r] \in {"done", "panicked"}
             /\ UNCHANGED vars

Next == (\E r \in Requests : Accept(r) \/ HandlerStep(r) \/ ServiceStep(r)) \/ Quiescent

Spec == Init /\ [][Next]_vars
-----------------------------------------------------------------------------
(* Properties.                                                             *)

TypeOK ==
  /\ pc \in [Requests -> Steps]
  /\ ctx \in [Requests -> Contexts \cup {NoContext}]
  /\ fault \in [Requests -> Faults \cup {"none"}]
  /\ served \in [Requests -> Nat]
  /\ headers \in [Requests -> HeaderMap]
  /\ trailers \in [Requests -> HeaderMap]
  /\ calls \in [Requests -> Seq(Call)]
  /\ pool \subseteq Contexts
  /\ owner \in [Contexts -> Requests \cup {Gateway}]
  /\ status \in [Contexts -> {200} \cup 400..599]
  /\ written \in [Contexts -> BOOLEAN]
  /\ header \in [Requests -> HeaderMap]
  /\ wireStatus \in [Requests -> {0, 200} \cup 400..599]
  /\ wireHeader \in [Requests -> HeaderMap]
  /\ wireTrailer \in [Requests -> [Keys -> Seq(Value)]]
  /\ body \in [Requests -> Seq({"response", "status", "text"})]
  /\ broken \in [Requests -> BOOLEAN]

(* Requests in flight never share a gin.Context, none of their contexts is *)
(* in the pool, and what the handler writes goes to its own client.        *)
(* (gin.go ServeHTTP, as Handler and the stream rely on it.)               *)
ExclusiveContext ==
  \A r \in Requests : Active(r) =>
    /\ ctx[r] \notin pool
    /\ owner[ctx[r]] = r
    /\ \A q \in Requests \ {r} : Active(q) => ctx[q] # ctx[r]

(* Once accepted a request has a context, which it keeps a pointer to.     *)
Assigned == \A r \in Requests : pc[r] # "idle" => ctx[r] \in Contexts

(* Where a request may have been answered already: nowhere but in the last *)
(* steps, after exactly one write.                                         *)
BodyByStep ==
  \A r \in Requests :
    /\ pc[r] \notin {"trailers", "finish", "done"} => body[r] = <<>>
    /\ Len(body[r]) <= 1
    /\ pc[r] = "trailers" => Len(body[r]) = 1
    /\ pc[r] \in {"finish", "done"} => broken[r] \/ Len(body[r]) = 1

(* What went wrong, and how often the service was entered, by the step.    *)
Undisturbed == {"idle", "readBody", "parseQuery", "decode", "interceptor", "service",
                "assert", "marshal", "reply", "write"}
Failing == {"error", "statusBody", "textBody"}

FaultAt(r) ==
  /\ pc[r] \in {"idle", "readBody", "parseQuery", "decode"} => served[r] = 0
  /\ pc[r] \in Undisturbed \cup {"trailers"} => fault[r] = "none"
  /\ pc[r] \in Failing => fault[r] # "none"

(* What is on the wire: nothing before the write of the response, and only *)
(* a write that failed lets an error meet a header block already sent.     *)
WireAt(r) ==
  /\ pc[r] = "idle" => wireStatus[r] = 0
  /\ Active(r) => (wireStatus[r] # 0 <=> written[ctx[r]])
  /\ pc[r] \in Undisturbed => wireStatus[r] = 0 /\ ~broken[r]
  /\ pc[r] \in Failing => broken[r] \/ wireStatus[r] = 0
  /\ body[r] # <<>> => wireStatus[r] # 0

WireByStep == \A r \in Requests : FaultAt(r) /\ WireAt(r)

(* The inductive invariant of the safety proofs.                           *)
HandlerInv == TypeOK /\ Assigned /\ ExclusiveContext /\ BodyByStep

(* A client receives at most one document, and a request that is over was  *)
(* answered unless its connection failed or the service panicked: every    *)
(* error path of Handler ends the request (ginapi_handler.go:56-113).      *)
OneAnswer ==
  \A r \in Requests :
    /\ Len(body[r]) <= 1
    /\ pc[r] = "done" => broken[r] \/ Len(body[r]) = 1

(* The statuses a fault may be answered with; the body limit is the        *)
(* subject of OversizeIsInvalidArgument below.                             *)
IntendedStatuses(f) ==
  IF f = "tooLarge" THEN {400, 500}
  ELSE IF f \in {"badQuery", "badInput"} THEN {400}
  ELSE IF f \in Codes THEN {HTTPStatusFromCode(f)} ELSE {500}

(* The status line, the kind of document and what went wrong agree, even   *)
(* when the service had sent its headers, and with them a 200, before it   *)
(* failed: gin only records the status until the first write.              *)
AnswerMatchesFault ==
  \A r \in Requests : body[r] # <<>> =>
    \/ body[r][1] = "response" /\ wireStatus[r] = 200 /\ fault[r] = "none"
    \/ /\ body[r][1] = "status"
       /\ fault[r] # "none"
       /\ wireStatus[r] \in IntendedStatuses(fault[r])
    \/ body[r][1] = "text" /\ wireStatus[r] = 500 /\ fault[r] # "none"

(* The status gin has recorded when the document is about to be written.   *)
StatusAt(r) ==
  /\ pc[r] = "write" => status[ctx[r]] = 200
  /\ pc[r] = "statusBody" => broken[r] \/ status[ctx[r]] \in IntendedStatuses(fault[r])
  /\ pc[r] = "textBody" => broken[r] \/ status[ctx[r]] = 500

(* The header calls of a stream, by their history cs.                      *)

(* Those of the first n calls that gave key k a value.                     *)
Gave(cs, k, n) == {i \in 1..n : cs[i].op # "SetTrailer" /\ k \in cs[i].keys}

(* The one value the stream holds for k after n calls: that of the last.   *)
Latest(r, given) ==
  IF given = {} THEN <<>>
  ELSE <<[by |-> r, n |-> CHOOSE i \in given : \A j \in given : j <= i]>>

Held(r, cs, k, n) == Latest(r, Gave(cs, k, n))

(* The SendHeader calls that found a value to add.                         *)
Adding(cs, k, n) == {i \in 1..n : cs[i].op = "SendHeader" /\ Gave(cs, k, i) # {}}

(* added is what those calls added: one value each, the one then held.     *)
AddedBySends(r, cs, k, added) ==
  /\ Len(added) = Cardinality(Adding(cs, k, Len(cs)))
  /\ \A i \in Adding(cs, k, Len(cs)) :
       <<added[Cardinality(Adding(cs, k, i))]>> = Held(r, cs, k, i)

(* h ends with the value the stream holds of each key.  Before it come the *)
(* values SendHeader added, or the gateway's own Content-Type, which       *)
(* replaces them.                                                          *)
Carries(r, cs, h) ==
  \A k \in Keys :
    LET got == h[HeaderName(k)]
        before == SubSeq(got, 1, Len(got) - Len(Held(r, cs, k, Len(cs)))) IN
    /\ got = before \o Held(r, cs, k, Len(cs))
    /\ IF k = ContentType THEN before = JSON ELSE AddedBySends(r, cs, k, before)

(* On success the header block is the one the stream calls of the service  *)
(* and the interceptors made, whatever their order: of each key one value  *)
(* for each SendHeader since the key was first given, and one for the      *)
(* reply; each is the value given last before, and Content-Type starts     *)
(* with the gateway's.  An earlier value of a key that was set again in    *)
(* between is not sent, and a value held over a SendHeader is sent again   *)
(* (ginapi_handler.go:93-97 and 138-160; see SetHeaderAsDocumented).       *)
HeadersReachClient ==
  \A r \in Requests :
    pc[r] = "done" /\ body[r] = <<"response">> => Carries(r, calls[r], wireHeader[r])

(* The stream's map is the history's.                                      *)
HeldByStream ==
  \A r \in Requests : \A k \in Keys :
    headers[r][HeaderName(k)] = Held(r, calls[r], k, Len(calls[r]))

(* The headers on their way: what SendHeader added before the reply, all   *)
(* of them when the response is about to be written.                       *)
HeadersAt(r) ==
  /\ pc[r] \in Undisturbed \ {"write"} =>
       \A k \in Keys \ {ContentType} : AddedBySends(r, calls[r], k, header[r][HeaderName(k)])
  /\ pc[r] = "write" => Carries(r, calls[r], header[r])
  /\ body[r] = <<"response">> => Carries(r, calls[r], wireHeader[r])

AnswerByStep ==
  AnswerMatchesFault /\ HeldByStream /\ \A r \in Requests : StatusAt(r) /\ HeadersAt(r)

HeadersBy(h, authors) == \A n \in Name : \A i \in DOMAIN h[n] : h[n][i].by \in authors

(* A client sees the headers of its own request only, except those set by  *)
(* requests whose service keeps using its stream after it has returned     *)
(* (ginTransportStream.ctx, ginapi_handler.go:118-160).                    *)
NoForeignHeaders == \A r \in Requests : HeadersBy(wireHeader[r], {r, Gateway} \cup Detached)

(* So does everything headers pass through on their way.                   *)
AuthorsAt(r) ==
  /\ HeadersBy(headers[r], {r}) /\ HeadersBy(trailers[r], {r})
  /\ HeadersBy(header[r], {r, Gateway} \cup Detached)
  /\ HeadersBy(wireHeader[r], {r, Gateway} \cup Detached)

AuthorsKnown == \A r \in Requests : AuthorsAt(r)

(* What was sent to a client is final: neither the status, nor the header  *)
(* block, nor a document is replaced by a later step of any request.       *)
SentIsFinal ==
  [][\A r \in Requests :
       /\ wireStatus[r] # 0 => /\ wireStatus'[r] = wireStatus[r]
                               /\ wireHeader'[r] = wireHeader[r]
       /\ body[r] # <<>> => body'[r] = body[r]]_vars

(* The exchange the client sees.                                           *)
BeforeCall == {"tooLarge", "unreadable", "badQuery", "badInput", "badWire"}
Phase(r) ==
  IF pc[r] = "idle" THEN "idle"
  ELSE IF pc[r] \in {"done", "panicked"} THEN "closed"
  ELSE IF pc[r] \in {"readBody", "parseQuery", "decode"} \/ fault[r] \in BeforeCall
       THEN "open" ELSE "calling"
Received(r) == IF body[r] = <<>> THEN [status |-> 0, doc |-> "none"]
               ELSE [status |-> wireStatus[r], doc |-> body[r][1]]

Exchange == INSTANCE UnaryExchange WITH
              phase <- [r \in Requests |-> Phase(r)],
              reply <- [r \in Requests |-> Received(r)]

(* The handler keeps the promise of UnaryExchange.                         *)
KeepsExchange == Exchange!Spec

-----------------------------------------------------------------------------
(* What the comments of the code, or the documentation of the interface    *)
(* it implements, say, and the code does not do.                           *)

(* ginapi_handler.go:60: a body over the limit is answered with            *)
(* InvalidArgument "request body too large".                               *)
OversizeIsInvalidArgument ==
  \A r \in Requests :
    body[r] = <<"status">> /\ fault[r] = "tooLarge" => wireStatus[r] = 400

(* grpc SetHeader: the metadata of several calls is merged, and all of it  *)
(* is sent when an RPC status is sent out, error or success.               *)
SetHeaderAsDocumented ==
  \A r \in Requests : pc[r] = "done" /\ body[r] \in {<<"response">>, <<"status">>} =>
    \A k \in Keys : \A i \in Gave(calls[r], k, Len(calls[r])) :
      LET got == wireHeader[r][HeaderName(k)] IN
      \E x \in DOMAIN got : got[x] = [by |-> r, n |-> i]

(* grpc SetTrailer: the trailer metadata will be sent when an RPC returns. *)
TrailersReachClient ==
  \A r \in Requests : pc[r] = "done" /\ body[r] = <<"response">> /\ ~broken[r] =>
    \A k \in Keys : wireTrailer[r][k] = trailers[r][TrailerName(k)]
=============================================================================
