----------------------- MODULE GinHandler_wire_proofs -----------------------
(***************************************************************************)
(* What reaches the client, for every set of requests and contexts: the    *)
(* wire follows the handler's steps (WireByStep), what was sent is final,  *)
(* and no client sees the headers of another's request.                    *)
(*                                                                         *)
(* Then what the answer says: status, document and fault agree and the     *)
(* header block is the one the stream calls made, unless a goroutine that  *)
(* outlives its call holds a stream on the same context; without such      *)
(* goroutines the handler implements UnaryExchange.  Last, that every      *)
(* request moves on.                                                       *)
(***************************************************************************)
EXTENDS GinHandler_proofs, FiniteSetTheorems

(* An accepted request has a context, and no other active one has it.      *)
LEMMA OwnContext ==
  ASSUME HandlerInv, NEW r \in Requests, Active(r)
  PROVE  /\ ctx[r] \in Contexts
         /\ owner[ctx[r]] = r
         /\ \A q \in Requests \ {r} : Active(q) => ctx[q] \in Contexts \ {ctx[r]}
<1>1. \A q \in Requests : Active(q) => ctx[q] \in Contexts
  BY DEF HandlerInv, Assigned, Active
<1>2. QED
  BY <1>1 DEF HandlerInv, ExclusiveContext

(* What committing the header block does, the writer being the request's.  *)
LEMMA NowEffect ==
  ASSUME HandlerInv, NEW r \in Requests, Active(r), GinWriteHeaderNow(ctx[r])
  PROVE  /\ \A q \in Requests \ {r} :
              wireStatus'[q] = wireStatus[q] /\ wireHeader'[q] = wireHeader[q]
         /\ \A c \in Contexts \ {ctx[r]} : written'[c] = written[c]
         /\ written'[ctx[r]]
         /\ written[ctx[r]] =>
              wireStatus'[r] = wireStatus[r] /\ wireHeader'[r] = wireHeader[r]
         /\ ~written[ctx[r]] =>
              wireStatus'[r] = status[ctx[r]] /\ wireHeader'[r] = header[r]
<1>1. ctx[r] \in Contexts /\ owner[ctx[r]] = r
  BY OwnContext
<1>2. /\ written \in [Contexts -> BOOLEAN]
      /\ wireStatus \in [Requests -> {0, 200} \cup 400..599]
      /\ wireHeader \in [Requests -> HeaderMap]
  BY DEF HandlerInv, TypeOK
<1>3. (\A c \in Contexts \ {ctx[r]} : written'[c] = written[c]) /\ written'[ctx[r]]
  <2>1. written' = [written EXCEPT ![ctx[r]] = TRUE]
    BY DEF GinWriteHeaderNow
  <2>2. QED
    BY <1>1, <1>2, <2>1
<1>4. CASE written[ctx[r]]
  <2>1. wireStatus' = wireStatus /\ wireHeader' = wireHeader
    BY <1>4 DEF GinWriteHeaderNow
  <2>2. QED
    BY <1>3, <1>4, <2>1
<1>5. CASE ~written[ctx[r]]
  <2>1. /\ wireStatus' = [wireStatus EXCEPT ![r] = status[ctx[r]]]
        /\ wireHeader' = [wireHeader EXCEPT ![r] = header[r]]
    BY <1>1, <1>5 DEF GinWriteHeaderNow
  <2>2. /\ \A q \in Requests \ {r} : wireStatus'[q] = wireStatus[q]
        /\ wireStatus'[r] = status[ctx[r]]
    BY <1>2, <2>1
  <2>3. /\ \A q \in Requests \ {r} : wireHeader'[q] = wireHeader[q]
        /\ wireHeader'[r] = header[r]
    BY <1>2, <2>1
  <2>4. QED
    BY <1>3, <1>5, <2>2, <2>3
<1>6. QED
  BY <1>4, <1>5

(* Recording a status touches the request's own context only.              *)
LEMMA StatusEffect ==
  ASSUME HandlerInv, NEW c \in Contexts, NEW code, GinWriteHeader(c, code)
  PROVE  /\ \A d \in Contexts \ {c} : status'[d] = status[d]
         /\ status'[c] = IF written[c] THEN status[c] ELSE code
BY DEF GinWriteHeader, HandlerInv, TypeOK

-----------------------------------------------------------------------------
(* A step of one request leaves what the others hold alone.                *)

RequestStep(r) == Accept(r) \/ HandlerStep(r) \/ ServiceStep(r)

Kept(q) ==
  /\ pc'[q] = pc[q] /\ ctx'[q] = ctx[q]
  /\ fault'[q] = fault[q] /\ served'[q] = served[q]
  /\ headers'[q] = headers[q] /\ trailers'[q] = trailers[q] /\ calls'[q] = calls[q]
  /\ wireStatus'[q] = wireStatus[q] /\ wireHeader'[q] = wireHeader[q]
  /\ body'[q] = body[q] /\ broken'[q] = broken[q]
  /\ Active(q) => written'[ctx[q]] = written[ctx[q]]

(* Moving a request on, or failing it, moves no other.                     *)
LEMMA MovesAlone ==
  ASSUME HandlerInv, NEW r \in Requests, NEW q \in Requests \ {r},
         \/ UNCHANGED fault /\ \E step : Goto(r, step)
         \/ \E f : Fail(r, f)
  PROVE  pc'[q] = pc[q] /\ fault'[q] = fault[q]
<1>1. pc \in [Requests -> Steps] /\ fault \in [Requests -> Faults \cup {"none"}]
  BY DEF HandlerInv, TypeOK
<1>2. CASE UNCHANGED fault /\ \E step : Goto(r, step)
  BY <1>1, <1>2 DEF Goto
<1>3. CASE \E f : Fail(r, f)
  BY <1>1, <1>3 DEF Fail, Goto
<1>4. QED
  BY <1>2, <1>3

LEMMA KeptByLocalStep ==
  ASSUME HandlerInv, NEW r \in Requests, NEW q \in Requests \ {r}, LocalStep(r)
  PROVE  Kept(q)
<1>1. UNCHANGED <<ctx, headers, trailers, calls, written, wireStatus, wireHeader, body,
                  broken>>
  BY LocalStepEffect, Zenon
<1>2. pc'[q] = pc[q] /\ fault'[q] = fault[q]
  <2>1. \/ UNCHANGED fault /\ \E step : Goto(r, step)
        \/ \E f : Fail(r, f)
    BY LocalStepEffect
  <2>2. QED
    BY <2>1, MovesAlone
<1>3. served'[q] = served[q]
  <2>1. served' = served \/ served' = [served EXCEPT ![r] = @ + 1]
    BY LocalStepEffect
  <2>2. served \in [Requests -> Nat]
    BY DEF HandlerInv, TypeOK
  <2>3. QED
    BY <2>1, <2>2
<1>4. QED
  BY <1>1, <1>2, <1>3 DEF Kept

LEMMA KeptByAccept ==
  ASSUME HandlerInv, NEW r \in Requests, NEW q \in Requests \ {r}, Accept(r)
  PROVE  Kept(q)
<1>1. PICK c \in pool : /\ ctx' = [ctx EXCEPT ![r] = c]
                        /\ written' = [written EXCEPT ![c] = FALSE]
  BY DEF Accept
<1>2. UNCHANGED <<fault, served, headers, trailers, calls, wireStatus, wireHeader, body,
                  broken>>
  BY DEF Accept, callVars, streamVars, wireVars
<1>3. pc'[q] = pc[q] /\ ctx'[q] = ctx[q]
  BY <1>1 DEF Accept, Goto, HandlerInv, TypeOK
<1>4. Active(q) => ctx[q] \in Contexts \ {c}
  BY OwnContext DEF HandlerInv, ExclusiveContext
<1>5. Active(q) => written'[ctx[q]] = written[ctx[q]]
  BY <1>1, <1>4 DEF HandlerInv, TypeOK
<1>6. QED
  BY <1>2, <1>3, <1>5 DEF Kept

(* A stream call is added to the history.                                  *)
LEMMA StreamCall ==
  ASSUME NEW r \in Requests, SetHeader(r) \/ SendHeader(r) \/ SetTrailer(r)
  PROVE  \E op \in {"SetHeader", "SendHeader", "SetTrailer"} : \E ks \in SUBSET Keys :
           Record(r, op, ks)
BY DEF SetHeader, SendHeader, SetTrailer

LEMMA KeptByStream ==
  ASSUME HandlerInv, NEW r \in Requests, NEW q \in Requests \ {r},
         SetHeader(r) \/ SendHeader(r) \/ SetTrailer(r) \/ Reply(r) \/ WriteTrailer(r)
           \/ ErrorResponse(r)
  PROVE  Kept(q)
<1> USE DEF callVars, streamVars, ginVars, wireVars
<1>1. UNCHANGED <<ctx, fault, served, written, wireStatus, wireHeader, body, broken>>
  BY DEF SetHeader, SendHeader, SetTrailer, Reply, WriteTrailer, ErrorResponse
<1>2. pc'[q] = pc[q]
  BY DEF SetHeader, SendHeader, SetTrailer, Reply, WriteTrailer, ErrorResponse, Goto,
         HandlerInv, TypeOK
<1>3. headers'[q] = headers[q]
  <2>1. UNCHANGED headers \/ \E md : headers' = [headers EXCEPT ![r] = md]
    <3>1. CASE SetHeader(r)
      BY <3>1 DEF SetHeader
    <3>2. CASE SendHeader(r)
      BY <3>2 DEF SendHeader
    <3>3. CASE SetTrailer(r) \/ Reply(r) \/ WriteTrailer(r) \/ ErrorResponse(r)
      BY <3>3 DEF SetTrailer, Reply, WriteTrailer, ErrorResponse
    <3>4. QED
      BY <3>1, <3>2, <3>3
  <2>2. QED
    BY <2>1 DEF HandlerInv, TypeOK
<1>4. trailers'[q] = trailers[q]
  <2>1. UNCHANGED trailers \/ \E md : trailers' = [trailers EXCEPT ![r] = md]
    BY DEF SetHeader, SendHeader, SetTrailer, Reply, WriteTrailer, ErrorResponse
  <2>2. QED
    BY <2>1 DEF HandlerInv, TypeOK
<1>5. calls'[q] = calls[q]
  <2>1. UNCHANGED calls \/ \E cs : calls' = [calls EXCEPT ![r] = cs]
    <3>1. CASE SetHeader(r) \/ SendHeader(r) \/ SetTrailer(r)
      BY <3>1, StreamCall DEF Record
    <3>2. CASE Reply(r) \/ WriteTrailer(r) \/ ErrorResponse(r)
      BY <3>2 DEF Reply, WriteTrailer, ErrorResponse
    <3>3. QED
      BY <3>1, <3>2
  <2>2. QED
    BY <2>1 DEF HandlerInv, TypeOK
<1>6. QED
  BY <1>1, <1>2, <1>3, <1>4, <1>5 DEF Kept

LEMMA KeptByWrite ==
  ASSUME HandlerInv, NEW r \in Requests, NEW q \in Requests \ {r},
         WriteBody(r) \/ ErrorBody(r) \/ Finish(r)
  PROVE  Kept(q)
<1> USE DEF callVars, streamVars
<1>1. Active(r) /\ GinWriteHeaderNow(ctx[r])
  BY DEF WriteBody, ErrorBody, Finish, GinWrite, Active
<1>2. UNCHANGED <<ctx, served, headers, trailers, calls>>
  BY DEF WriteBody, ErrorBody, Finish
<1>3. pc'[q] = pc[q] /\ fault'[q] = fault[q]
  <2>1. \/ UNCHANGED fault /\ \E step : Goto(r, step)
        \/ \E f : Fail(r, f)
    BY DEF WriteBody, ErrorBody, Finish
  <2>2. QED
    BY <2>1, MovesAlone
<1>4. wireStatus'[q] = wireStatus[q] /\ wireHeader'[q] = wireHeader[q]
  BY <1>1, NowEffect
<1>5. Active(q) => written'[ctx[q]] = written[ctx[q]]
  BY <1>1, NowEffect, OwnContext
<1>6. body'[q] = body[q] /\ broken'[q] = broken[q]
  <2>1. CASE \E doc \in {"response", "status", "text"}, ok \in BOOLEAN :
               GinWrite(ctx[r], doc, ok)
    <3>1. PICK doc \in {"response", "status", "text"}, ok \in BOOLEAN :
            GinWrite(ctx[r], doc, ok)
      BY <2>1
    <3>2. owner[ctx[r]] = r
      BY <1>1, OwnContext
    <3>3. body' = body \/ body' = [body EXCEPT ![r] = Append(@, doc)]
      BY <3>1, <3>2, Zenon DEF GinWrite
    <3>4. broken' = [broken EXCEPT ![r] = ~ok]
      BY <3>1, <3>2, Zenon DEF GinWrite
    <3>5. QED
      BY <3>3, <3>4 DEF HandlerInv, TypeOK
  <2>2. CASE Finish(r)
    BY <2>2 DEF Finish
  <2>3. QED
    BY <2>1, <2>2 DEF WriteBody, ErrorBody
<1>7. QED
  BY <1>2, <1>3, <1>4, <1>5, <1>6 DEF Kept

LEMMA OthersKept ==
  ASSUME HandlerInv, NEW r \in Requests, RequestStep(r), NEW q \in Requests \ {r}
  PROVE  Kept(q)
<1>1. CASE LocalStep(r)
  BY <1>1, KeptByLocalStep
<1>2. CASE Accept(r)
  BY <1>2, KeptByAccept
<1>3. CASE SetHeader(r) \/ SendHeader(r) \/ SetTrailer(r) \/ Reply(r) \/ WriteTrailer(r)
             \/ ErrorResponse(r)
  BY <1>3, KeptByStream
<1>4. CASE WriteBody(r) \/ ErrorBody(r) \/ Finish(r)
  BY <1>4, KeptByWrite
<1>5. QED
  BY <1>1, <1>2, <1>3, <1>4 DEF RequestStep, HandlerStep, ServiceStep, LocalStep

-----------------------------------------------------------------------------
(* The wire follows the steps.                                             *)

WireStep(r) == FaultAt(r) /\ WireAt(r)

(* Where the steps before the reply lead.                                  *)
LEMMA LocalMoves ==
  ASSUME NEW r \in Requests, LocalStep(r)
  PROVE  /\ pc[r] \in Undisturbed \ {"idle", "reply", "write"}
         /\ \/ /\ UNCHANGED fault
               /\ \/ /\ UNCHANGED served
                     /\ pc[r] \in {"readBody", "parseQuery"}
                     /\ Goto(r, "parseQuery") \/ Goto(r, "decode")
                  \/ \E step \in {"interceptor", "service", "assert", "marshal",
                                  "reply", "panicked"} : Goto(r, step)
            \/ \E f \in Faults : Fail(r, f)
<1> USE DEF callVars
<1>s. ServiceErrors \subseteq Faults
  BY ConstantsAssumption DEF Faults
<1>1. CASE ReadBody(r) \/ ParseQuery(r)
  BY <1>1 DEF ReadBody, ParseQuery, Undisturbed, Faults
<1>2. CASE Decode(r) \/ CallService(r) \/ AssertMessage(r)
  BY <1>2 DEF Decode, CallService, AssertMessage, Undisturbed, Faults
<1>3. CASE ServiceReturns(r) \/ InterceptorReturns(r)
  BY <1>3, <1>s DEF ServiceReturns, InterceptorReturns, Undisturbed
<1>4. CASE Panic(r) \/ Marshal(r)
  BY <1>4 DEF Panic, Marshal, Running, Undisturbed, Faults
<1>5. QED
  BY <1>1, <1>2, <1>3, <1>4 DEF LocalStep

LEMMA NoneIsNoFault == "none" \notin Faults
BY DEF Faults, Codes

LEMMA WireLocalStep ==
  ASSUME HandlerInv, NEW r \in Requests, WireStep(r), LocalStep(r)
  PROVE  WireStep(r)'
<1>1. UNCHANGED <<ctx, written, wireStatus, body, broken>>
  BY LocalStepEffect, Zenon
<1>2. /\ wireStatus[r] = 0 /\ ~broken[r] /\ fault[r] = "none"
      /\ ~written[ctx[r]] /\ body[r] = <<>>
  BY LocalMoves DEF WireStep, WireAt, FaultAt, Active, Undisturbed
<1>3. ctx[r] \in Contexts /\ pc \in [Requests -> Steps] /\ fault \in [Requests -> Faults \cup {"none"}]
  BY LocalMoves DEF HandlerInv, Assigned, TypeOK, Undisturbed
<1>4. WireAt(r)'
  BY <1>1, <1>2 DEF WireAt
<1>5. CASE UNCHANGED <<fault, served>> /\ (Goto(r, "parseQuery") \/ Goto(r, "decode"))
             /\ pc[r] \in {"readBody", "parseQuery"}
  <2>1. served[r] = 0
    BY <1>5 DEF WireStep, FaultAt
  <2>2. pc'[r] \in {"parseQuery", "decode"}
    BY <1>3, <1>5 DEF Goto
  <2>3. QED
    BY <1>2, <1>4, <1>5, <2>1, <2>2 DEF WireStep, FaultAt, Failing
<1>6. CASE UNCHANGED fault /\ \E step \in {"interceptor", "service", "assert", "marshal",
                                           "reply", "panicked"} : Goto(r, step)
  <2>1. pc'[r] \in {"interceptor", "service", "assert", "marshal", "reply", "panicked"}
    BY <1>3, <1>6 DEF Goto
  <2>2. QED
    BY <1>2, <1>4, <1>6, <2>1 DEF WireStep, FaultAt, Failing
<1>7. CASE \E f \in Faults : Fail(r, f)
  <2>1. pc'[r] = "error" /\ fault'[r] # "none"
    BY <1>3, <1>7, NoneIsNoFault DEF Fail, Goto
  <2>2. QED
    BY <1>4, <2>1 DEF WireStep, FaultAt, Undisturbed
<1>8. QED
  BY <1>5, <1>6, <1>7, LocalMoves

LEMMA WireAccept ==
  ASSUME HandlerInv, NEW r \in Requests, WireStep(r), Accept(r)
  PROVE  WireStep(r)'
<1>1. PICK c \in pool : /\ ctx' = [ctx EXCEPT ![r] = c]
                        /\ written' = [written EXCEPT ![c] = FALSE]
  BY DEF Accept
<1>2. UNCHANGED <<fault, served, wireStatus, body, broken>>
  BY DEF Accept, callVars, wireVars
<1>3. pc[r] = "idle" /\ pc'[r] = "readBody" /\ ctx'[r] = c /\ ~written'[c]
  BY <1>1 DEF Accept, Goto, HandlerInv, TypeOK
<1>4. /\ wireStatus[r] = 0 /\ ~broken[r] /\ fault[r] = "none" /\ served[r] = 0
      /\ body[r] = <<>>
  BY <1>3 DEF WireStep, WireAt, FaultAt, Undisturbed, HandlerInv, BodyByStep
<1>5. QED
  BY <1>2, <1>3, <1>4 DEF WireStep, WireAt, FaultAt, Failing

LEMMA WireStream ==
  ASSUME HandlerInv, NEW r \in Requests, WireStep(r),
         SetHeader(r) \/ SendHeader(r) \/ SetTrailer(r)
  PROVE  WireStep(r)'
<1>1. UNCHANGED <<pc, ctx, fault, served, written, wireStatus, body, broken>>
  BY DEF SetHeader, SendHeader, SetTrailer, callVars, ginVars, wireVars
<1>2. QED
  BY <1>1 DEF WireStep, WireAt, FaultAt, Active

LEMMA WireQuiet ==
  ASSUME HandlerInv, NEW r \in Requests, WireStep(r),
         Reply(r) \/ WriteTrailer(r) \/ ErrorResponse(r)
  PROVE  WireStep(r)'
<1>1. UNCHANGED <<ctx, fault, served, written, wireStatus, body, broken>>
  BY DEF Reply, WriteTrailer, ErrorResponse, callVars, ginVars, wireVars
<1>2. \/ pc[r] = "reply" /\ pc'[r] = "write"
      \/ pc[r] = "trailers" /\ pc'[r] = "finish"
      \/ pc[r] = "error" /\ pc'[r] \in {"statusBody", "textBody"}
  BY DEF Reply, WriteTrailer, ErrorResponse, Goto, HandlerInv, TypeOK
<1>3. QED
  BY <1>1, <1>2 DEF WireStep, WireAt, FaultAt, Active, Undisturbed, Failing

LEMMA WireWrite ==
  ASSUME HandlerInv, NEW r \in Requests, WireStep(r),
         WriteBody(r) \/ ErrorBody(r) \/ Finish(r)
  PROVE  WireStep(r)'
<1>1. Active(r) /\ GinWriteHeaderNow(ctx[r]) /\ UNCHANGED <<ctx, served>>
  BY DEF WriteBody, ErrorBody, Finish, GinWrite, Active, callVars
<1>2. written'[ctx[r]] /\ wireStatus'[r] # 0
  <2>1. status[ctx[r]] # 0
    <3>1. ctx[r] \in Contexts /\ status \in [Contexts -> {200} \cup 400..599]
      BY <1>1, OwnContext DEF HandlerInv, TypeOK
    <3>2. status[ctx[r]] \in {200} \cup 400..599
      BY <3>1
    <3>3. QED
      BY <3>2
  <2>2. written[ctx[r]] => wireStatus[r] # 0
    BY <1>1 DEF WireStep, WireAt
  <2>3. QED
    BY <1>1, <2>1, <2>2, NowEffect
<1>3. CASE WriteBody(r)
  <2>1. PICK ok \in BOOLEAN : /\ GinWrite(ctx[r], "response", ok)
                              /\ pc' = [pc EXCEPT ![r] = IF ok THEN "trailers" ELSE "error"]
                              /\ fault' = IF ok THEN fault
                                          ELSE [fault EXCEPT ![r] = "writeFailed"]
    BY <1>3 DEF WriteBody, Goto, Fail
  <2>2. /\ pc'[r] = IF ok THEN "trailers" ELSE "error"
        /\ fault'[r] = IF ok THEN "none" ELSE "writeFailed"
    BY <1>3, <2>1 DEF HandlerInv, TypeOK, WriteBody, WireStep, FaultAt, Undisturbed
  <2>3. broken'[r] = ~ok
    BY <1>1, <2>1, OwnContext DEF GinWrite, HandlerInv, TypeOK
  <2>4. QED
    BY <1>1, <1>2, <2>2, <2>3 DEF WireStep, WireAt, FaultAt, Active, Undisturbed, Failing
<1>4. CASE ErrorBody(r) \/ Finish(r)
  <2>1. pc'[r] \in {"finish", "done"}
    BY <1>4 DEF ErrorBody, Finish, Goto, HandlerInv, TypeOK
  <2>2. QED
    BY <1>1, <1>2, <2>1 DEF WireStep, WireAt, FaultAt, Active, Undisturbed, Failing
<1>5. QED
  BY <1>3, <1>4

(* The step of another request leaves the predicate true.                  *)
LEMMA WireOthers ==
  ASSUME NEW q \in Requests, WireStep(q), Kept(q)
  PROVE  WireStep(q)'
BY DEF Kept, WireStep, WireAt, FaultAt, Active

LEMMA WireInit == Init => WireByStep
<1> SUFFICES ASSUME Init, NEW r \in Requests PROVE FaultAt(r) /\ WireAt(r)
  BY DEF WireByStep
<1>1. /\ pc[r] = "idle" /\ fault[r] = "none" /\ served[r] = 0
      /\ wireStatus[r] = 0 /\ body[r] = <<>> /\ ~broken[r]
  BY DEF Init
<1>2. QED
  BY <1>1 DEF FaultAt, WireAt, Active, Failing

LEMMA WireNext == HandlerInv /\ WireByStep /\ [Next]_vars => WireByStep'
<1> SUFFICES ASSUME HandlerInv, WireByStep, [Next]_vars
             PROVE  WireByStep'
  OBVIOUS
<1>0. \A q \in Requests : WireStep(q)
  BY DEF WireByStep, WireStep
<1>1. CASE UNCHANGED vars
  BY <1>1 DEF vars, callVars, ginVars, wireVars, WireByStep, FaultAt, WireAt, Active
<1>2. ASSUME NEW r \in Requests, RequestStep(r)
      PROVE  WireByStep'
  <2>1. WireStep(r)'
    BY <1>0, <1>2, WireLocalStep, WireAccept, WireStream, WireQuiet, WireWrite
       DEF RequestStep, HandlerStep, ServiceStep, LocalStep
  <2>2. \A q \in Requests \ {r} : WireStep(q)'
    BY <1>0, <1>2, OthersKept, WireOthers
  <2>3. QED
    BY <2>1, <2>2 DEF WireByStep, WireStep
<1>3. QED
  BY <1>1, <1>2 DEF Next, Quiescent, RequestStep

(* What is on the wire follows the step of the request: nothing before the *)
(* first write, and an error meets a header block already sent only after  *)
(* a write that failed.                                                    *)
THEOREM WireFollowsSteps == Spec => []WireByStep
<1>1. QED
  BY HandlerInvariant, WireInit, WireNext, PTL DEF Spec

-----------------------------------------------------------------------------
(* What was sent is final.                                                 *)

FinalAt(r) ==
  /\ wireStatus[r] # 0 => /\ wireStatus'[r] = wireStatus[r]
                          /\ wireHeader'[r] = wireHeader[r]
  /\ body[r] # <<>> => body'[r] = body[r]

LEMMA FinalStep ==
  ASSUME HandlerInv, NEW r \in Requests, WireStep(r), RequestStep(r)
  PROVE  FinalAt(r)
<1>1. CASE LocalStep(r)
  <2>1. UNCHANGED <<wireStatus, wireHeader, body>>
    BY <1>1, LocalStepEffect, Zenon
  <2>2. QED
    BY <2>1 DEF FinalAt
<1>2. CASE Accept(r) \/ SetHeader(r) \/ SendHeader(r) \/ SetTrailer(r) \/ Reply(r)
             \/ WriteTrailer(r) \/ ErrorResponse(r)
  <2>1. UNCHANGED <<wireStatus, wireHeader, body>>
    BY <1>2 DEF Accept, SetHeader, SendHeader, SetTrailer, Reply, WriteTrailer,
                ErrorResponse, wireVars
  <2>2. QED
    BY <2>1 DEF FinalAt
<1>3. CASE WriteBody(r)
  BY <1>3 DEF WriteBody, WireStep, WireAt, Undisturbed, HandlerInv, BodyByStep, FinalAt
<1>4. CASE ErrorBody(r) \/ Finish(r)
  <2>1. Active(r) /\ GinWriteHeaderNow(ctx[r])
    BY <1>4 DEF ErrorBody, Finish, GinWrite, Active
  <2>2. wireStatus[r] # 0 => written[ctx[r]]
    BY <2>1 DEF WireStep, WireAt
  <2>3. body[r] # <<>> => body'[r] = body[r]
    BY <1>4 DEF ErrorBody, Finish, HandlerInv, BodyByStep
  <2>4. QED
    BY <2>1, <2>2, <2>3, NowEffect DEF FinalAt
<1>5. QED
  BY <1>1, <1>2, <1>3, <1>4 DEF RequestStep, HandlerStep, ServiceStep, LocalStep

LEMMA FinalNext ==
  ASSUME HandlerInv, WireByStep, [Next]_vars, NEW q \in Requests
  PROVE  FinalAt(q)
<1>1. CASE UNCHANGED vars
  BY <1>1 DEF vars, wireVars, FinalAt
<1>2. ASSUME NEW r \in Requests, RequestStep(r)
      PROVE  FinalAt(q)
  <2>1. CASE q = r
    BY <1>2, <2>1, FinalStep DEF WireByStep, WireStep
  <2>2. CASE q # r
    BY <1>2, <2>2, OthersKept DEF Kept, FinalAt
  <2>3. QED
    BY <2>1, <2>2
<1>3. QED
  BY <1>1, <1>2 DEF Next, Quiescent, RequestStep

(* What was sent to a client is never replaced: neither the status, nor    *)
(* the header block, nor a document, by a step of any request.             *)
THEOREM SentStaysSent == Spec => SentIsFinal
<1>1. HandlerInv /\ WireByStep /\ [Next]_vars =>
        [\A r \in Requests :
           /\ wireStatus[r] # 0 => /\ wireStatus'[r] = wireStatus[r]
                                   /\ wireHeader'[r] = wireHeader[r]
           /\ body[r] # <<>> => body'[r] = body[r]]_vars
  BY FinalNext DEF FinalAt
<1>2. QED
  BY <1>1, HandlerInvariant, WireFollowsSteps, PTL DEF Spec, SentIsFinal

-----------------------------------------------------------------------------
(* Nobody else's headers: who may have set what passes through a request.  *)

LEMMA EmptyBy == ASSUME NEW A PROVE HeadersBy(Empty, A)
BY DEF HeadersBy, Empty

LEMMA ByMore ==
  ASSUME NEW h, NEW A, NEW B, A \subseteq B, HeadersBy(h, A)
  PROVE  HeadersBy(h, B)
BY DEF HeadersBy

LEMMA Concatenated ==
  ASSUME NEW S, NEW s \in Seq(S), NEW t \in Seq(S), NEW i \in DOMAIN (s \o t)
  PROVE  \/ i \in DOMAIN s /\ (s \o t)[i] = s[i]
         \/ i - Len(s) \in DOMAIN t /\ (s \o t)[i] = t[i - Len(s)]
<1>1. DOMAIN s = 1..Len(s) /\ DOMAIN t = 1..Len(t) /\ Len(s) \in Nat /\ Len(t) \in Nat
  OBVIOUS
<1>2. i \in 1..(Len(s) + Len(t))
  OBVIOUS
<1>3. CASE i <= Len(s)
  BY <1>1, <1>2, <1>3
<1>4. CASE i > Len(s)
  BY <1>1, <1>2, <1>4
<1>5. QED
  BY <1>1, <1>2, <1>3, <1>4

LEMMA AddAllBy ==
  ASSUME NEW h \in HeaderMap, NEW md \in HeaderMap, NEW A,
         HeadersBy(h, A), HeadersBy(md, A)
  PROVE  HeadersBy(AddAll(h, md), A)
<1> SUFFICES ASSUME NEW n \in Name, NEW i \in DOMAIN AddAll(h, md)[n]
             PROVE  AddAll(h, md)[n][i].by \in A
  BY DEF HeadersBy
<1>1. AddAll(h, md)[n] = h[n] \o md[n]
  BY DEF AddAll
<1>2. h[n] \in Seq(Value) /\ md[n] \in Seq(Value)
  BY DEF HeaderMap
<1>3. \/ i \in DOMAIN h[n] /\ AddAll(h, md)[n][i] = h[n][i]
      \/ i - Len(h[n]) \in DOMAIN md[n] /\ AddAll(h, md)[n][i] = md[n][i - Len(h[n])]
  <2>1. i \in DOMAIN (h[n] \o md[n])
    BY <1>1
  <2>2. \/ i \in DOMAIN h[n] /\ (h[n] \o md[n])[i] = h[n][i]
        \/ i - Len(h[n]) \in DOMAIN md[n] /\ (h[n] \o md[n])[i] = md[n][i - Len(h[n])]
    BY <1>2, <2>1, Concatenated, Zenon
  <2>3. QED
    BY <1>1, <2>2, Zenon
<1>4. QED
  BY <1>3 DEF HeadersBy

LEMMA MDSetBy ==
  ASSUME NEW md, NEW names, NEW v, NEW A, HeadersBy(md, A), v.by \in A
  PROVE  HeadersBy(MDSet(md, names, v), A)
BY DEF HeadersBy, MDSet

LEMMA SetKeyBy ==
  ASSUME NEW h \in HeaderMap, NEW m, NEW s \in {JSON, Text}, NEW A,
         HeadersBy(h, A), Gateway \in A
  PROVE  HeadersBy([h EXCEPT ![m] = s], A)
<1>1. \A i \in DOMAIN s : s[i].by = Gateway
  BY DEF JSON, Text
<1>2. QED
  BY <1>1 DEF HeadersBy, HeaderMap

Readers(q) == {q, Gateway} \cup Detached

(* A request that may call its stream either still owns its context or is  *)
(* one whose service left goroutines behind.                               *)
LEMMA StreamAuthors ==
  ASSUME HandlerInv, NEW r \in Requests, Active(r) \/ r \in Detached,
         NEW q \in Requests, q = owner[ctx[r]]
  PROVE  {r} \subseteq Readers(q)
BY OwnContext DEF Readers

LEMMA AuthorsUnchanged ==
  ASSUME AuthorsKnown, UNCHANGED <<headers, trailers, header, wireHeader>>
  PROVE  AuthorsKnown'
BY DEF AuthorsKnown, AuthorsAt

(* Steps that add to, or set a key of, the header of one response.         *)
LEMMA AuthorsHeader ==
  ASSUME HandlerInv, AuthorsKnown, NEW x, NEW h,
         header' = [header EXCEPT ![x] = h],
         x \in Requests => HeadersBy(h, Readers(x)),
         UNCHANGED <<headers, trailers, wireHeader>>
  PROVE  AuthorsKnown'
<1>1. header \in [Requests -> HeaderMap]
  BY DEF HandlerInv, TypeOK
<1>2. \A q \in Requests : header'[q] = IF q = x THEN h ELSE header[q]
  BY <1>1
<1>3. \A q \in Requests : HeadersBy(header'[q], Readers(q))
  BY <1>2 DEF AuthorsKnown, AuthorsAt, Readers
<1>4. QED
  BY <1>3 DEF AuthorsKnown, AuthorsAt, Readers

LEMMA AuthorsReply ==
  ASSUME HandlerInv, AuthorsKnown, NEW r \in Requests,
         Reply(r) \/ WriteTrailer(r) \/ ErrorResponse(r)
  PROVE  AuthorsKnown'
<1>1. Active(r) /\ UNCHANGED <<headers, trailers, wireHeader>>
  BY DEF Reply, WriteTrailer, ErrorResponse, Active, streamVars, wireVars
<1>2. owner[ctx[r]] = r
  BY <1>1, OwnContext
<1>3. /\ header[r] \in HeaderMap /\ headers[r] \in HeaderMap /\ trailers[r] \in HeaderMap
      /\ HeadersBy(header[r], Readers(r)) /\ HeadersBy(headers[r], Readers(r))
      /\ HeadersBy(trailers[r], Readers(r))
  <2>1. /\ HeadersBy(headers[r], {r}) /\ HeadersBy(trailers[r], {r})
        /\ HeadersBy(header[r], Readers(r)) /\ {r} \subseteq Readers(r)
    BY DEF AuthorsKnown, AuthorsAt, Readers
  <2>2. QED
    BY <2>1, ByMore DEF HandlerInv, TypeOK
<1>4. \A m : \A t \in {JSON, Text} :
        /\ [header[r] EXCEPT ![m] = t] \in HeaderMap
        /\ HeadersBy([header[r] EXCEPT ![m] = t], Readers(r))
  <2>1. Gateway \in Readers(r)
    BY DEF Readers
  <2>2. QED
    BY <1>3, <2>1, SetKeyBy, SetKeyTyped, ContentTypesTyped
<1>5. PICK h : header' = [header EXCEPT ![r] = h] /\ HeadersBy(h, Readers(r))
  <2>1. CASE Reply(r)
    <3>1. header' = [header EXCEPT ![r] =
                       AddAll([header[r] EXCEPT ![HeaderName(ContentType)] = JSON], headers[r])]
      BY <1>2, <2>1 DEF Reply
    <3>2. QED
      BY <1>3, <1>4, <3>1, AddAllBy
  <2>2. CASE WriteTrailer(r)
    <3>1. header' = [header EXCEPT ![r] = AddAll(header[r], trailers[r])]
      BY <1>2, <2>2 DEF WriteTrailer
    <3>2. QED
      BY <1>3, <3>1, AddAllBy
  <2>3. CASE ErrorResponse(r)
    <3>1. PICK t \in {JSON, Text} :
            header' = [header EXCEPT ![r] = [header[r] EXCEPT ![HeaderName(ContentType)] = t]]
      BY <1>2, <2>3 DEF ErrorResponse, GinSetHeader
    <3>2. QED
      BY <1>4, <3>1
  <2>4. QED
    BY <2>1, <2>2, <2>3
<1>6. QED
  BY <1>1, <1>5, AuthorsHeader

LEMMA AuthorsWrite ==
  ASSUME HandlerInv, AuthorsKnown, NEW r \in Requests,
         WriteBody(r) \/ ErrorBody(r) \/ Finish(r)
  PROVE  AuthorsKnown'
<1>1. Active(r) /\ GinWriteHeaderNow(ctx[r]) /\ UNCHANGED <<headers, trailers, header>>
  BY DEF WriteBody, ErrorBody, Finish, GinWrite, Active, streamVars
<1>2. \A q \in Requests : wireHeader'[q] = wireHeader[q] \/ wireHeader'[q] = header[q]
  BY <1>1, NowEffect
<1>3. \A q \in Requests : HeadersBy(wireHeader'[q], Readers(q))
  BY <1>2 DEF AuthorsKnown, AuthorsAt, Readers
<1>4. QED
  BY <1>1, <1>3 DEF AuthorsKnown, AuthorsAt, Readers

LEMMA AuthorsStream ==
  ASSUME HandlerInv, AuthorsKnown, NEW r \in Requests,
         SetHeader(r) \/ SendHeader(r) \/ SetTrailer(r)
  PROVE  AuthorsKnown'
<1>1. Active(r) \/ r \in Detached
  BY DEF SetHeader, SendHeader, SetTrailer, MayUseStream, Running, Active
<1>2. NewValue(r).by = r /\ NewValue(r) \in Value
  BY NewValueTyped DEF HandlerInv, NewValue
<1>3. /\ headers \in [Requests -> HeaderMap] /\ trailers \in [Requests -> HeaderMap]
      /\ header \in [Requests -> HeaderMap]
  BY DEF HandlerInv, TypeOK
<1>4. \A ns : /\ MDSet(headers[r], ns, NewValue(r)) \in HeaderMap
              /\ HeadersBy(MDSet(headers[r], ns, NewValue(r)), {r})
              /\ HeadersBy(MDSet(trailers[r], ns, NewValue(r)), {r})
  BY <1>2, <1>3, MDSetBy, MDSetTyped DEF AuthorsKnown, AuthorsAt
<1>5. CASE SetHeader(r)
  <2>1. PICK ns : headers' = [headers EXCEPT ![r] = MDSet(headers[r], ns, NewValue(r))]
    BY <1>5 DEF SetHeader
  <2>2. UNCHANGED <<trailers, header, wireHeader>>
    BY <1>5 DEF SetHeader, wireVars
  <2>3. \A q \in Requests : HeadersBy(headers'[q], {q})
    BY <1>3, <1>4, <2>1 DEF AuthorsKnown, AuthorsAt
  <2>4. QED
    BY <2>2, <2>3 DEF AuthorsKnown, AuthorsAt
<1>6. CASE SetTrailer(r)
  <2>1. PICK ns : trailers' = [trailers EXCEPT ![r] = MDSet(trailers[r], ns, NewValue(r))]
    BY <1>6 DEF SetTrailer
  <2>2. UNCHANGED <<headers, header, wireHeader>>
    BY <1>6 DEF SetTrailer, wireVars
  <2>3. \A q \in Requests : HeadersBy(trailers'[q], {q})
    BY <1>3, <1>4, <2>1 DEF AuthorsKnown, AuthorsAt
  <2>4. QED
    BY <2>2, <2>3 DEF AuthorsKnown, AuthorsAt
<1>7. CASE SendHeader(r)
  <2> DEFINE x == owner[ctx[r]]
             sent(ns) == MDSet(headers[r], ns, NewValue(r))
  <2>1. PICK ns : /\ headers' = [headers EXCEPT ![r] = sent(ns)]
                  /\ header' = [header EXCEPT ![x] = AddAll(header[x], sent(ns))]
    BY <1>7 DEF SendHeader
  <2>2. UNCHANGED <<trailers, wireHeader>>
    BY <1>7 DEF SendHeader, wireVars
  <2>3. \A q \in Requests : HeadersBy(headers'[q], {q})
    BY <1>3, <1>4, <2>1 DEF AuthorsKnown, AuthorsAt
  <2>4. ASSUME x \in Requests
        PROVE  HeadersBy(AddAll(header[x], sent(ns)), Readers(x))
    <3>1. HeadersBy(header[x], Readers(x))
      BY <2>4 DEF AuthorsKnown, AuthorsAt, Readers
    <3>2. HeadersBy(sent(ns), Readers(x))
      BY <1>1, <1>4, <2>4, ByMore, StreamAuthors
    <3>3. sent(ns) \in HeaderMap /\ header[x] \in HeaderMap
      BY <1>3, <1>4, <2>4
    <3>4. QED
      BY <3>1, <3>2, <3>3, AddAllBy
  <2>5. \A q \in Requests : HeadersBy(header'[q], Readers(q))
    BY <1>3, <2>1, <2>4 DEF AuthorsKnown, AuthorsAt, Readers
  <2>6. QED
    BY <2>2, <2>3, <2>5 DEF AuthorsKnown, AuthorsAt, Readers
<1>8. QED
  BY <1>5, <1>6, <1>7

LEMMA AuthorsInit == Init => AuthorsKnown
BY EmptyBy DEF Init, AuthorsKnown, AuthorsAt

LEMMA AuthorsNext == HandlerInv /\ AuthorsKnown /\ [Next]_vars => AuthorsKnown'
<1> SUFFICES ASSUME HandlerInv, AuthorsKnown, [Next]_vars
             PROVE  AuthorsKnown'
  OBVIOUS
<1>1. CASE UNCHANGED vars
  BY <1>1, AuthorsUnchanged DEF vars, streamVars, wireVars
<1>2. ASSUME NEW r \in Requests, RequestStep(r)
      PROVE  AuthorsKnown'
  <2>1. CASE LocalStep(r)
    <3>1. UNCHANGED <<headers, trailers, header, wireHeader>>
      BY <2>1, LocalStepEffect, Zenon
    <3>2. QED
      BY <3>1, AuthorsUnchanged
  <2>2. CASE Accept(r)
    BY <2>2, AuthorsUnchanged DEF Accept, streamVars, wireVars
  <2>3. QED
    BY <1>2, <2>1, <2>2, AuthorsReply, AuthorsWrite, AuthorsStream
       DEF RequestStep, HandlerStep, ServiceStep, LocalStep
<1>3. QED
  BY <1>1, <1>2 DEF Next, Quiescent, RequestStep

(* A client sees the headers of its own request only, except those of      *)
(* requests whose service keeps using its stream after it has returned.    *)
THEOREM NobodyElsesHeaders == Spec => []NoForeignHeaders
<1>1. Spec => []AuthorsKnown
  BY HandlerInvariant, AuthorsInit, AuthorsNext, PTL DEF Spec
<1>2. AuthorsKnown => NoForeignHeaders
  BY DEF AuthorsKnown, AuthorsAt, NoForeignHeaders
<1>3. QED
  BY <1>1, <1>2, PTL

-----------------------------------------------------------------------------
(* Goroutines a service left behind hold the context their stream was made *)
(* with, which by then may be another request's between ErrorResponse's    *)
(* WriteHeader and its body.  All they can record there is the 200 of a    *)
(* late SendHeader.                                                        *)
Shared(r) == \E d \in Detached : served[d] > 0 /\ ctx[d] = ctx[r]
Late(r) == IF Shared(r) THEN {200} ELSE {}

(* Who writes into a context: only the request it was made for, also after *)
(* that request has returned it.                                           *)
Holders ==
  /\ \A r \in Requests : pc[r] = "idle" => ctx[r] = NoContext
  /\ \A c \in Contexts : owner[c] \in Requests => ctx[owner[c]] = c

ServedIsAccepted == \A r \in Requests : served[r] > 0 => pc[r] # "idle"

(* No step but Accept gives out a context or a writer, none makes a        *)
(* request idle again, and the service is never left uncounted.            *)
LEMMA StepsKeepContexts ==
  ASSUME HandlerInv, NEW r \in Requests, RequestStep(r), ~Accept(r)
  PROVE  /\ UNCHANGED <<ctx, owner>>
         /\ \A q \in Requests : pc'[q] = "idle" => pc[q] = "idle"
<1> USE DEF ginVars, GinWrite
<1>t. pc \in [Requests -> Steps]
  BY DEF HandlerInv, TypeOK
<1>1. CASE LocalStep(r)
  <2>1. UNCHANGED <<ctx, owner>>
    BY <1>1, LocalStepEffect, Zenon
  <2>2. \E step \in Steps \ {"idle"} : Goto(r, step)
    BY <1>1, LocalStepEffect DEF Fail, Steps
  <2>3. QED
    BY <1>t, <2>1, <2>2 DEF Goto
<1>2. CASE SetHeader(r) \/ SendHeader(r) \/ SetTrailer(r)
  BY <1>2 DEF SetHeader, SendHeader, SetTrailer
<1>3. CASE Reply(r) \/ WriteTrailer(r) \/ ErrorResponse(r) \/ Finish(r)
  BY <1>3, <1>t DEF Reply, WriteTrailer, ErrorResponse, Finish, Goto
<1>4. CASE WriteBody(r) \/ ErrorBody(r)
  <2>1. UNCHANGED <<ctx, owner>>
    BY <1>4 DEF WriteBody, ErrorBody
  <2>2. \E step \in {"trailers", "error", "finish"} : Goto(r, step)
    BY <1>4 DEF WriteBody, ErrorBody, Fail
  <2>3. QED
    BY <1>t, <2>1, <2>2 DEF Goto
<1>5. QED
  BY <1>1, <1>2, <1>3, <1>4 DEF RequestStep, HandlerStep, ServiceStep, LocalStep

LEMMA ServedGrows ==
  ASSUME HandlerInv, NEW r \in Requests, RequestStep(r), NEW q \in Requests,
         served[q] > 0
  PROVE  served'[q] > 0
<1>1. served' = served \/ served' = [served EXCEPT ![r] = @ + 1]
  <2>1. CASE LocalStep(r)
    BY <2>1, LocalStepEffect
  <2>2. CASE ~LocalStep(r)
    BY <2>2 DEF RequestStep, HandlerStep, ServiceStep, LocalStep, Accept, Reply, WriteBody,
                WriteTrailer, ErrorResponse, ErrorBody, Finish, SetHeader, SendHeader,
                SetTrailer, callVars
  <2>3. QED
    BY <2>1, <2>2
<1>2. served \in [Requests -> Nat]
  BY DEF HandlerInv, TypeOK
<1>3. QED
  BY <1>1, <1>2

LEMMA HoldersInit == Init => Holders
BY ConstantsAssumption DEF Init, Holders

LEMMA HoldersNext == HandlerInv /\ Holders /\ [Next]_vars => Holders'
<1> SUFFICES ASSUME HandlerInv, Holders, [Next]_vars
             PROVE  Holders'
  OBVIOUS
<1>1. CASE UNCHANGED vars
  BY <1>1 DEF vars, ginVars, Holders
<1>2. ASSUME NEW r \in Requests, RequestStep(r), ~Accept(r)
      PROVE  Holders'
  <2>1. UNCHANGED <<ctx, owner>>
    BY <1>2, StepsKeepContexts
  <2>2. \A q \in Requests : pc'[q] = "idle" => pc[q] = "idle"
    BY <1>2, StepsKeepContexts
  <2>3. QED
    BY <2>1, <2>2 DEF Holders
<1>3. ASSUME NEW r \in Requests, Accept(r)
      PROVE  Holders'
  <2>1. PICK c \in pool : /\ ctx' = [ctx EXCEPT ![r] = c]
                          /\ owner' = [owner EXCEPT ![c] = r]
    BY <1>3 DEF Accept
  <2>2. pc' = [pc EXCEPT ![r] = "readBody"] /\ pc[r] = "idle"
    BY <1>3 DEF Accept, Goto
  <2>3. /\ pc \in [Requests -> Steps] /\ c \in Contexts
        /\ ctx \in [Requests -> Contexts \cup {NoContext}]
        /\ owner \in [Contexts -> Requests \cup {Gateway}]
    BY DEF HandlerInv, TypeOK
  <2>4. \A q \in Requests : pc'[q] = "idle" => ctx'[q] = NoContext
    BY <2>1, <2>2, <2>3 DEF Holders
  <2>5. ctx[r] \notin Contexts
    BY <2>2, ConstantsAssumption DEF Holders
  <2>6. ASSUME NEW d \in Contexts, owner'[d] \in Requests
        PROVE  ctx'[owner'[d]] = d
    <3>1. CASE d = c
      BY <2>1, <2>3, <3>1
    <3>2. CASE d # c
      <4>1. owner'[d] = owner[d]
        BY <2>1, <2>3, <3>2
      <4>2. ctx[owner[d]] = d
        BY <2>6, <4>1 DEF Holders
      <4>3. owner[d] # r
        BY <2>5, <4>2
      <4>4. QED
        BY <2>1, <2>3, <2>6, <4>1, <4>2, <4>3
    <3>3. QED
      BY <3>1, <3>2
  <2>7. QED
    BY <2>4, <2>6 DEF Holders
<1>4. QED
  BY <1>1, <1>2, <1>3 DEF Next, Quiescent, RequestStep

LEMMA WireImpliesServed == WireByStep /\ TypeOK => ServedIsAccepted
BY DEF WireByStep, FaultAt, TypeOK, ServedIsAccepted

(* A request never comes out of the reach of a goroutine left behind.      *)
LEMMA SharedStays ==
  ASSUME HandlerInv, Holders, ServedIsAccepted, NEW r \in Requests, RequestStep(r),
         NEW q \in Requests, Shared(q)
  PROVE  Shared(q)'
<1>1. PICK d \in Detached : served[d] > 0 /\ ctx[d] = ctx[q]
  BY DEF Shared
<1>2. d \in Requests /\ pc[d] # "idle" /\ ctx[d] \in Contexts
  BY <1>1, ConstantsAssumption DEF ServedIsAccepted, HandlerInv, Assigned
<1>3. pc[q] # "idle"
  BY <1>1, <1>2, ConstantsAssumption DEF Holders
<1>4. ctx'[d] = ctx[d] /\ ctx'[q] = ctx[q]
  <2>1. CASE Accept(r)
    BY <1>2, <1>3, <2>1 DEF Accept, HandlerInv, TypeOK
  <2>2. CASE ~Accept(r)
    BY <2>2, StepsKeepContexts
  <2>3. QED
    BY <2>1, <2>2
<1>5. served'[d] > 0
  BY <1>1, <1>2, ServedGrows
<1>6. QED
  BY <1>1, <1>4, <1>5 DEF Shared

-----------------------------------------------------------------------------
(* A step of one request leaves the header and the status of the others,   *)
(* unless it is a stream call that reaches their context.                  *)

Quiet(q) ==
  /\ Kept(q)
  /\ Shared(q) => Shared(q)'
  /\ ~Shared(q) => header'[q] = header[q]
  /\ Active(q) => status'[ctx[q]] \in {status[ctx[q]]} \cup Late(q)

LEMMA StepsAreActive ==
  ASSUME NEW r \in Requests, HandlerStep(r) \/ ServiceStep(r),
         ~(SetHeader(r) \/ SendHeader(r) \/ SetTrailer(r))
  PROVE  Active(r)
<1> USE DEF Active
<1>1. CASE LocalStep(r)
  BY <1>1, LocalMoves DEF Undisturbed
<1>2. CASE Reply(r) \/ WriteBody(r) \/ WriteTrailer(r) \/ ErrorResponse(r) \/ ErrorBody(r)
             \/ Finish(r)
  BY <1>2 DEF Reply, WriteBody, WriteTrailer, ErrorResponse, ErrorBody, Finish
<1>3. QED
  BY <1>1, <1>2 DEF HandlerStep, ServiceStep, LocalStep

(* A service uses its stream while it runs; a goroutine it left behind     *)
(* uses it for as long as it likes.                                        *)
LEMMA StreamWhileRunning ==
  ASSUME NEW r \in Requests, SetHeader(r) \/ SendHeader(r) \/ SetTrailer(r)
  PROVE  pc[r] \in Running \/ (r \in Detached /\ served[r] > 0)
BY DEF SetHeader, SendHeader, SetTrailer, MayUseStream

(* What a step does to the responses' headers and the recorded statuses.   *)
LEMMA HeaderAndStatus ==
  ASSUME NEW r \in Requests, RequestStep(r)
  PROVE  /\ \/ header' = header
            \/ ~Accept(r) /\ \E h : header' = [header EXCEPT ![owner[ctx[r]]] = h]
         /\ \/ status' = status
            \/ ~Accept(r) /\ \E code : status' = [status EXCEPT ![ctx[r]] = code]
            \/ \E c \in pool : status' = [status EXCEPT ![c] = 200]
<1> USE DEF ginVars
<1>1. CASE LocalStep(r)
  BY <1>1, LocalStepEffect, Zenon
<1>2. CASE Accept(r)
  BY <1>2 DEF Accept
<1>3. CASE WriteBody(r) \/ ErrorBody(r) \/ Finish(r) \/ SetHeader(r) \/ SetTrailer(r)
  <2>1. UNCHANGED <<header, status>>
    BY <1>3 DEF WriteBody, ErrorBody, Finish, GinWrite, SetHeader, SetTrailer
  <2>2. QED
    BY <2>1
<1>4. CASE Reply(r) \/ WriteTrailer(r) \/ ErrorResponse(r) \/ SendHeader(r)
  <2>1. ~Accept(r)
    BY <1>4 DEF Reply, WriteTrailer, ErrorResponse, SendHeader, Accept
  <2>2. \E h : header' = [header EXCEPT ![owner[ctx[r]]] = h]
    BY <1>4 DEF Reply, WriteTrailer, ErrorResponse, SendHeader, GinSetHeader
  <2>3. status' = status \/ \E code : status' = [status EXCEPT ![ctx[r]] = code]
    BY <1>4 DEF Reply, WriteTrailer, ErrorResponse, SendHeader, GinWriteHeader
  <2>4. QED
    BY <2>1, <2>2, <2>3
<1>5. QED
  BY <1>1, <1>2, <1>3, <1>4 DEF RequestStep, HandlerStep, ServiceStep, LocalStep

(* What a stream call does to a header and a status.                       *)
LEMMA StreamWrites ==
  ASSUME NEW r \in Requests, SetHeader(r) \/ SendHeader(r) \/ SetTrailer(r)
  PROVE  /\ \/ header' = header
            \/ \E h : header' = [header EXCEPT ![owner[ctx[r]]] = h]
         /\ \/ status' = status
            \/ status' = [status EXCEPT ![ctx[r]] = 200]
BY DEF SetHeader, SendHeader, SetTrailer, GinWriteHeader, ginVars

LEMMA OthersQuiet ==
  ASSUME HandlerInv, Holders, ServedIsAccepted, NEW r \in Requests, RequestStep(r),
         NEW q \in Requests \ {r}
  PROVE  Quiet(q)
<1> DEFINE Stream == SetHeader(r) \/ SendHeader(r) \/ SetTrailer(r)
<1>1. ~Accept(r) /\ ~Stream => Active(r)
  BY StepsAreActive DEF RequestStep
<1>2. Active(r) => owner[ctx[r]] = r /\ ctx[r] \in Contexts
  BY OwnContext
<1>3. ASSUME Stream, ~Active(r)
      PROVE  r \in Detached /\ served[r] > 0
  BY <1>3, StreamWhileRunning DEF Active, Running
<1>4. ASSUME Stream, ~Active(r), ctx[r] = ctx[q]
      PROVE  Shared(q)
  BY <1>3, <1>4 DEF Shared
<1>5. ASSUME ~Shared(q) PROVE header'[q] = header[q]
  <2>1. header \in [Requests -> HeaderMap]
    BY DEF HandlerInv, TypeOK
  <2>2. CASE Accept(r) \/ Active(r)
    <3>1. header' = header \/ (Active(r) /\ \E h : header' = [header EXCEPT ![owner[ctx[r]]] = h])
      BY <2>2, HeaderAndStatus DEF Accept
    <3>2. QED
      BY <1>2, <2>1, <3>1
  <2>3. CASE Stream /\ ~Active(r)
    <3>1. pc[r] # "idle"
      BY <1>3, <2>3 DEF ServedIsAccepted
    <3>2. ctx[r] \in Contexts
      BY <3>1 DEF HandlerInv, Assigned
    <3>3. owner[ctx[r]] # q
      BY <1>4, <1>5, <2>3, <3>2 DEF Holders
    <3>4. QED
      BY <2>1, <2>3, <3>3, StreamWrites
  <2>4. QED
    BY <1>1, <2>2, <2>3
<1>6. ASSUME Active(q) PROVE status'[ctx[q]] \in {status[ctx[q]]} \cup Late(q)
  <2>1. ctx[q] \in Contexts /\ ctx[q] \notin pool
    BY <1>6, OwnContext DEF HandlerInv, ExclusiveContext
  <2>2. Active(r) => ctx[q] # ctx[r]
    BY <1>6, OwnContext
  <2>3. status \in [Contexts -> {200} \cup 400..599]
    BY DEF HandlerInv, TypeOK
  <2>4. \/ status' = status
        \/ ~Accept(r) /\ \E code : status' = [status EXCEPT ![ctx[r]] = code]
        \/ \E c \in pool : status' = [status EXCEPT ![c] = 200]
    BY HeaderAndStatus
  <2>5. CASE Stream /\ ~Active(r)
    <3>1. CASE ctx[r] = ctx[q]
      <4>1. Late(q) = {200}
        BY <1>4, <2>5, <3>1 DEF Late
      <4>2. QED
        BY <2>1, <2>3, <2>5, <4>1, StreamWrites
    <3>2. CASE ctx[r] # ctx[q]
      BY <2>1, <2>3, <2>5, <3>2, StreamWrites
    <3>3. QED
      BY <3>1, <3>2
  <2>6. CASE Accept(r) \/ Active(r)
    <3>1. Accept(r) => \E c \in pool : status' = [status EXCEPT ![c] = 200]
      BY DEF Accept
    <3>2. status'[ctx[q]] = status[ctx[q]]
      BY <2>1, <2>2, <2>3, <2>4, <2>6, <3>1
    <3>3. QED
      BY <3>2
  <2>7. QED
    BY <1>1, <2>5, <2>6
<1>7. QED
  BY <1>5, <1>6, OthersKept, SharedStays DEF Quiet

-----------------------------------------------------------------------------
(* Lemmas about the data.                                                  *)

LEMMA NotTheResponse == /\ <<>> # <<"response">>
                        /\ \A doc \in {"status", "text"} : <<doc>> # <<"response">>
OBVIOUS

LEMMA StatusOfFault ==
  ASSUME NEW f \in Faults
  PROVE  ErrorStatus(ErrorOf(f)) \in IntendedStatuses(f)
<1>1. CASE f \in Codes
  BY <1>1 DEF Codes, ErrorStatus, ErrorOf, IntendedStatuses
<1>2. CASE f \notin Codes
  BY <1>2 DEF Faults, ErrorStatus, ErrorOf, IntendedStatuses, HTTPStatusFromCode,
              IsFreshMaxBytesError
<1>3. QED
  BY <1>1, <1>2

LEMMA IntendedAreErrors ==
  ASSUME NEW f \in Faults
  PROVE  IntendedStatuses(f) \subseteq 400..599
BY DEF IntendedStatuses, HTTPStatusFromCode, Codes

(* What is before the end of a concatenation.                              *)
LEMMA FrontOfConcat ==
  ASSUME NEW b \in Seq(Value), NEW t \in Seq(Value)
  PROVE  SubSeq(b \o t, 1, Len(b \o t) - Len(t)) = b
<1> DEFINE bt == b \o t
           n == Len(b)
<1>1. /\ bt \in Seq(Value) /\ Len(bt) = n + Len(t) /\ n \in Nat /\ Len(t) \in Nat
      /\ \A i \in 1..(n + Len(t)) : bt[i] = IF i <= n THEN b[i] ELSE t[i - n]
  BY ConcatProperties
<1> HIDE DEF bt, n
<1>2. \A i \in 1..n : bt[i] \in Value /\ bt[i] = b[i]
  <2>1. \A i \in 1..n : i \in 1..Len(bt)
    BY <1>1
  <2>2. QED
    BY <1>1, <2>1, ElementOfSeq
<1>3. /\ SubSeq(bt, 1, n) \in Seq(Value)
      /\ Len(SubSeq(bt, 1, n)) = IF 1 <= n THEN n - 1 + 1 ELSE 0
      /\ \A i \in 1..(n - 1 + 1) : SubSeq(bt, 1, n)[i] = bt[1 + i - 1]
  BY <1>1, <1>2, SubSeqProperties
<1>4. Len(SubSeq(bt, 1, n)) = n /\ \A i \in 1..n : SubSeq(bt, 1, n)[i] = b[i]
  BY <1>1, <1>2, <1>3
<1>5. SubSeq(bt, 1, n) = b
  BY <1>3, <1>4, SeqEqual DEF n
<1>6. Len(bt) - Len(t) = n
  BY <1>1
<1>7. QED
  BY <1>5, <1>6 DEF bt

-----------------------------------------------------------------------------
(* The history of a stream and what the calls leave.                       *)

Gives(c, k) == c.op # "SetTrailer" /\ k \in c.keys

(* A further call changes nothing of what the earlier ones did.            *)
LEMMA HistoryKept ==
  ASSUME NEW cs \in Seq(Call), NEW c \in Call, NEW r, NEW k, NEW n \in 0..Len(cs)
  PROVE  /\ Gave(Append(cs, c), k, n) = Gave(cs, k, n)
         /\ Held(r, Append(cs, c), k, n) = Held(r, cs, k, n)
         /\ Adding(Append(cs, c), k, n) = Adding(cs, k, n)
<1> DEFINE next == Append(cs, c)
<1>1. Len(cs) \in Nat /\ \A i \in 1..Len(cs) : next[i] = cs[i]
  BY LenProperties, AppendProperties
<1> HIDE DEF next
<1>2. \A m \in 0..Len(cs) : Gave(next, k, m) = Gave(cs, k, m)
  BY <1>1 DEF Gave
<1>3. Held(r, next, k, n) = Held(r, cs, k, n)
  <2>1. Gave(next, k, n) = Gave(cs, k, n)
    BY <1>2
  <2>2. QED
    BY <2>1 DEF Held
<1>4. Adding(next, k, n) = Adding(cs, k, n)
  <2>1. \A i \in 1..n : i \in 0..Len(cs) /\ next[i] = cs[i]
    BY <1>1
  <2>2. \A i \in 1..n : Gave(next, k, i) = Gave(cs, k, i)
    BY <1>2, <2>1
  <2>3. QED
    BY <2>1, <2>2 DEF Adding
<1>5. QED
  BY <1>2, <1>3, <1>4 DEF next

LEMMA GaveNext ==
  ASSUME NEW cs \in Seq(Call), NEW c \in Call, NEW k
  PROVE  Gave(Append(cs, c), k, Len(cs) + 1) =
           Gave(cs, k, Len(cs)) \cup (IF Gives(c, k) THEN {Len(cs) + 1} ELSE {})
<1> DEFINE next == Append(cs, c)
           n == Len(cs)
<1>1. n \in Nat /\ next[n + 1] = c /\ \A i \in 1..n : next[i] = cs[i]
  BY LenProperties, AppendProperties
<1>2. 1..(n + 1) = 1..n \cup {n + 1}
  BY <1>1
<1> HIDE DEF next, n
<1>3. Gave(next, k, n + 1) =
        Gave(cs, k, n) \cup (IF Gives(c, k) THEN {n + 1} ELSE {})
  BY <1>1, <1>2 DEF Gave, Gives
<1>4. QED
  BY <1>3 DEF next, n

(* MD.Set: a key holds what it is given, and else what it held.            *)
LEMMA HeldNext ==
  ASSUME NEW cs \in Seq(Call), NEW c \in Call, NEW r, NEW k
  PROVE  Held(r, Append(cs, c), k, Len(cs) + 1) =
           IF Gives(c, k) THEN <<[by |-> r, n |-> Len(cs) + 1]>> ELSE Held(r, cs, k, Len(cs))
<1> DEFINE n == Len(cs)
           given == Gave(Append(cs, c), k, n + 1)
<1>1. n \in Nat
  BY LenProperties
<1>2. CASE Gives(c, k)
  <2>1. given = Gave(cs, k, n) \cup {n + 1}
    BY <1>2, GaveNext
  <2>2. Gave(cs, k, n) \subseteq 1..n
    BY DEF Gave
  <2> HIDE DEF given
  <2>3. n + 1 \in given /\ \A j \in given : j <= n + 1 /\ j \in Nat
    BY <1>1, <2>1, <2>2
  <2> DEFINE latest == CHOOSE i \in given : \A j \in given : j <= i
  <2>4. latest \in given /\ \A j \in given : j <= latest
    BY <2>3
  <2>5. latest = n + 1
    BY <1>1, <2>3, <2>4
  <2>6. given # {}
    BY <2>3
  <2>7. Latest(r, given) = <<[by |-> r, n |-> latest]>>
    BY <2>6 DEF Latest
  <2> HIDE DEF latest
  <2>8. QED
    BY <1>2, <2>5, <2>7 DEF Held, given
<1>3. CASE ~Gives(c, k)
  <2>1. given = Gave(cs, k, n)
    BY <1>3, GaveNext
  <2>2. QED
    BY <1>3, <2>1 DEF Held
<1>4. QED
  BY <1>2, <1>3

LEMMA AddingNext ==
  ASSUME NEW cs \in Seq(Call), NEW c \in Call, NEW k
  PROVE  Adding(Append(cs, c), k, Len(cs) + 1) =
           Adding(cs, k, Len(cs)) \cup
             (IF c.op = "SendHeader" /\ Gave(Append(cs, c), k, Len(cs) + 1) # {}
                THEN {Len(cs) + 1} ELSE {})
<1> DEFINE next == Append(cs, c)
           n == Len(cs)
<1>1. n \in Nat /\ next[n + 1] = c
  BY LenProperties, AppendProperties
<1>2. 1..(n + 1) = 1..n \cup {n + 1} /\ n + 1 \notin 1..n /\ n \in 0..n
  BY <1>1
<1>3. Adding(next, k, n) = Adding(cs, k, n)
  BY <1>2, HistoryKept
<1> HIDE DEF next, n
<1>4. Adding(next, k, n + 1) =
        Adding(next, k, n) \cup
          (IF next[n + 1].op = "SendHeader" /\ Gave(next, k, n + 1) # {} THEN {n + 1} ELSE {})
  BY <1>2 DEF Adding
<1>5. QED
  BY <1>1, <1>3, <1>4 DEF next, n

(* The i-th of them added the i-th value.                                  *)
LEMMA AddingCount ==
  ASSUME NEW cs \in Seq(Call), NEW k
  PROVE  /\ IsFiniteSet(Adding(cs, k, Len(cs)))
         /\ Cardinality(Adding(cs, k, Len(cs))) \in Nat
         /\ \A i \in Adding(cs, k, Len(cs)) :
              Cardinality(Adding(cs, k, i)) \in 1..Cardinality(Adding(cs, k, Len(cs)))
<1> DEFINE n == Len(cs)
           all == Adding(cs, k, n)
<1>1. n \in Nat
  BY LenProperties
<1>2. IsFiniteSet(1..n)
  BY <1>1, FS_Interval
<1>3. all \subseteq 1..n
  BY DEF Adding
<1> HIDE DEF n, all
<1>4. IsFiniteSet(all) /\ Cardinality(all) \in Nat
  BY <1>2, <1>3, FS_Subset, FS_CardinalityType
<1>5. ASSUME NEW i \in all
      PROVE  Cardinality(Adding(cs, k, i)) \in 1..Cardinality(all)
  <2>1. i \in 1..n
    BY <1>3
  <2>2. Adding(cs, k, i) \subseteq all /\ i \in Adding(cs, k, i)
    BY <1>1, <1>5, <2>1 DEF Adding, all
  <2>3. /\ IsFiniteSet(Adding(cs, k, i))
        /\ Cardinality(Adding(cs, k, i)) <= Cardinality(all)
    BY <1>4, <2>2, FS_Subset
  <2>4. Cardinality(Adding(cs, k, i)) \in Nat /\ Cardinality(Adding(cs, k, i)) # 0
    BY <2>2, <2>3, FS_CardinalityType, FS_EmptySet
  <2>5. QED
    BY <1>4, <2>3, <2>4
<1>6. QED
  BY <1>4, <1>5 DEF n, all

(* SetHeader and SetTrailer add nothing to the response.                   *)
LEMMA AddedStays ==
  ASSUME NEW cs \in Seq(Call), NEW c \in Call, NEW r, NEW k, NEW added,
         c.op # "SendHeader", AddedBySends(r, cs, k, added)
  PROVE  AddedBySends(r, Append(cs, c), k, added)
<1> DEFINE next == Append(cs, c)
           n == Len(cs)
<1>1. Len(next) = n + 1 /\ n \in Nat
  BY LenProperties, AppendProperties
<1>2. Adding(next, k, n + 1) = Adding(cs, k, n)
  BY AddingNext
<1>3. \A i \in Adding(cs, k, n) : i \in 0..n
  BY <1>1 DEF Adding
<1>4. \A i \in Adding(cs, k, n) : /\ Adding(next, k, i) = Adding(cs, k, i)
                                  /\ Held(r, next, k, i) = Held(r, cs, k, i)
  BY <1>3, HistoryKept
<1> HIDE DEF next
<1>5. AddedBySends(r, next, k, added)
  BY <1>1, <1>2, <1>4 DEF AddedBySends
<1>6. QED
  BY <1>5 DEF next

(* SendHeader adds the value held, if there is one.                        *)
LEMMA AddedMore ==
  ASSUME NEW cs \in Seq(Call), NEW c \in Call, NEW r \in Requests, NEW k,
         NEW added \in Seq(Value), c.op = "SendHeader", AddedBySends(r, cs, k, added),
         Held(r, Append(cs, c), k, Len(cs) + 1) \in Seq(Value)
  PROVE  AddedBySends(r, Append(cs, c), k,
                      added \o Held(r, Append(cs, c), k, Len(cs) + 1))
<1> DEFINE next == Append(cs, c)
           n == Len(cs)
           held == Held(r, next, k, n + 1)
           old == Adding(cs, k, n)
<1>1. Len(next) = n + 1 /\ n \in Nat
  BY LenProperties, AppendProperties
<1>2. Adding(next, k, n + 1) = old \cup (IF Gave(next, k, n + 1) # {} THEN {n + 1} ELSE {})
  BY AddingNext
<1>3. old \subseteq 1..n /\ n + 1 \notin old
  BY <1>1 DEF Adding
<1>4. \A i \in old : i \in 0..n
  BY <1>1, <1>3
<1>5. \A i \in old : /\ Adding(next, k, i) = Adding(cs, k, i)
                     /\ Held(r, next, k, i) = Held(r, cs, k, i)
  BY <1>4, HistoryKept
<1>6. /\ IsFiniteSet(old) /\ Cardinality(old) \in Nat
      /\ \A i \in old : Cardinality(Adding(cs, k, i)) \in 1..Cardinality(old)
  BY AddingCount
<1>7. Len(added) = Cardinality(old)
  BY DEF AddedBySends
<1>8. \A i \in old : <<added[Cardinality(Adding(cs, k, i))]>> = Held(r, cs, k, i)
  BY DEF AddedBySends
<1>s. held \in Seq(Value)
  OBVIOUS
<1> HIDE DEF next, n, old
<1>9. CASE Gave(next, k, n + 1) = {}
  <2>1. held = <<>> /\ Adding(next, k, n + 1) = old
    BY <1>2, <1>9 DEF Held, Latest
  <2>2. added \o held = added
    BY <2>1, ConcatEmptySeq
  <2>3. QED
    BY <1>1, <1>5, <1>7, <1>8, <2>1, <2>2 DEF AddedBySends, next, n
<1>10. CASE Gave(next, k, n + 1) # {}
  <2>1. PICK v : held = <<v>>
    BY <1>10 DEF Held, Latest
  <2>v. v \in Value
    <3> HIDE DEF held
    <3>1. held \in Seq(Value) /\ 1 \in 1..Len(held)
      BY <1>s, <2>1
    <3>2. held[1] = v
      BY <2>1
    <3>3. QED
      BY <3>1, <3>2, ElementOfSeq
  <2> HIDE DEF held
  <2>2. Adding(next, k, n + 1) = old \cup {n + 1}
    BY <1>2, <1>10
  <2>3. Cardinality(old \cup {n + 1}) = Cardinality(old) + 1
    BY <1>3, <1>6, FS_AddElement
  <2> DEFINE all == added \o <<v>>
  <2>4. /\ Len(all) = Len(added) + 1
        /\ \A x \in 1..Len(added) : all[x] = added[x]
        /\ all[Len(added) + 1] = v
    BY <2>v
  <2> HIDE DEF all
  <2>5. \A i \in old : <<all[Cardinality(Adding(next, k, i))]>> = Held(r, next, k, i)
    BY <1>5, <1>6, <1>7, <1>8, <2>4
  <2>6. <<all[Cardinality(Adding(next, k, n + 1))]>> = Held(r, next, k, n + 1)
    BY <1>7, <2>1, <2>2, <2>3, <2>4 DEF held
  <2>7. \A i \in old \cup {n + 1} :
          <<all[Cardinality(Adding(next, k, i))]>> = Held(r, next, k, i)
    BY <2>5, <2>6
  <2>8. AddedBySends(r, next, k, all)
    BY <1>1, <1>7, <2>2, <2>3, <2>4, <2>7 DEF AddedBySends
  <2>9. QED
    BY <2>1, <2>8 DEF held, next, n, all
<1>11. QED
  BY <1>9, <1>10

-----------------------------------------------------------------------------
(* The stream's map is the history's, whatever the other requests do.      *)

HeldAt(r) == \A k \in Keys : headers[r][HeaderName(k)] = Held(r, calls[r], k, Len(calls[r]))

LEMMA HeldBySet ==
  ASSUME HandlerInv, NEW r \in Requests, HeldAt(r), NEW ks \in SUBSET Keys,
         NEW op \in {"SetHeader", "SendHeader"}, Record(r, op, ks),
         headers' = [headers EXCEPT ![r] = MDSet(@, Names(ks), NewValue(r))]
  PROVE  HeldAt(r)'
<1> DEFINE cs == calls[r]
           c == [op |-> op, keys |-> ks]
<1>1. /\ calls \in [Requests -> Seq(Call)] /\ headers \in [Requests -> HeaderMap]
      /\ c \in Call
  BY DEF HandlerInv, TypeOK, Call
<1>2. calls'[r] = Append(cs, c) /\ cs \in Seq(Call)
  BY <1>1 DEF Record
<1>3. headers'[r] = MDSet(headers[r], Names(ks), NewValue(r))
  BY <1>1
<1>4. Len(calls'[r]) = Len(cs) + 1
  BY <1>2, AppendProperties
<1> SUFFICES ASSUME NEW k \in Keys
             PROVE  headers'[r][HeaderName(k)] = Held(r, calls'[r], k, Len(calls'[r]))
  BY DEF HeldAt
<1>5. HeaderName(k) \in Name /\ (HeaderName(k) \in Names(ks) <=> k \in ks)
  BY NamesTyped DEF Names, HeaderName
<1>6. headers'[r][HeaderName(k)] = IF k \in ks THEN <<NewValue(r)>> ELSE headers[r][HeaderName(k)]
  BY <1>3, <1>5 DEF MDSet
<1>7. Gives(c, k) <=> k \in ks
  BY DEF Gives
<1>8. headers[r][HeaderName(k)] = Held(r, cs, k, Len(cs))
  BY DEF HeldAt
<1> HIDE DEF c, cs
<1>9. Held(r, Append(cs, c), k, Len(cs) + 1) =
        IF Gives(c, k) THEN <<[by |-> r, n |-> Len(cs) + 1]>> ELSE Held(r, cs, k, Len(cs))
  BY <1>1, <1>2, HeldNext
<1>10. NewValue(r) = [by |-> r, n |-> Len(cs) + 1]
  BY DEF NewValue, cs
<1>11. QED
  BY <1>2, <1>4, <1>6, <1>7, <1>8, <1>9, <1>10

LEMMA HeldByTrailer ==
  ASSUME HandlerInv, NEW r \in Requests, HeldAt(r), NEW ks \in SUBSET Keys,
         Record(r, "SetTrailer", ks), UNCHANGED headers
  PROVE  HeldAt(r)'
<1> DEFINE cs == calls[r]
           c == [op |-> "SetTrailer", keys |-> ks]
<1>1. calls \in [Requests -> Seq(Call)] /\ c \in Call /\ cs \in Seq(Call)
  BY DEF HandlerInv, TypeOK, Call
<1>2. calls'[r] = Append(cs, c) /\ Len(calls'[r]) = Len(cs) + 1
  BY <1>1, AppendProperties DEF Record
<1>3. \A k \in Keys : ~Gives(c, k)
  BY DEF Gives
<1> HIDE DEF c
<1>4. \A k \in Keys : Held(r, Append(cs, c), k, Len(cs) + 1) = Held(r, cs, k, Len(cs))
  BY <1>1, <1>3, HeldNext
<1>5. QED
  BY <1>2, <1>4 DEF HeldAt

LEMMA HeldNextStep ==
  ASSUME HandlerInv, HeldByStream, NEW r \in Requests, RequestStep(r)
  PROVE  HeldByStream'
<1>1. \A q \in Requests : HeldAt(q)
  BY DEF HeldByStream, HeldAt
<1>2. \A q \in Requests \ {r} : HeldAt(q)'
  BY <1>1, OthersKept DEF Kept, HeldAt
<1>3. HeldAt(r)'
  <2>1. CASE SetHeader(r)
    <3>1. PICK ks \in SUBSET Keys :
            /\ headers' = [headers EXCEPT ![r] = MDSet(@, Names(ks), NewValue(r))]
            /\ Record(r, "SetHeader", ks)
      BY <2>1 DEF SetHeader
    <3>2. QED
      BY <1>1, <3>1, HeldBySet
  <2>2. CASE SendHeader(r)
    <3>1. PICK ks \in SUBSET Keys :
            /\ headers' = [headers EXCEPT ![r] = MDSet(@, Names(ks), NewValue(r))]
            /\ Record(r, "SendHeader", ks)
      BY <2>2 DEF SendHeader
    <3>2. QED
      BY <1>1, <3>1, HeldBySet
  <2>3. CASE SetTrailer(r)
    <3>1. PICK ks \in SUBSET Keys : Record(r, "SetTrailer", ks) /\ UNCHANGED headers
      BY <2>3 DEF SetTrailer
    <3>2. QED
      BY <1>1, <3>1, HeldByTrailer
  <2>4. CASE LocalStep(r)
    <3>1. UNCHANGED <<headers, calls>>
      BY <2>4, LocalStepEffect, Zenon
    <3>2. QED
      BY <1>1, <3>1 DEF HeldAt
  <2>5. CASE Accept(r) \/ Reply(r) \/ WriteBody(r) \/ WriteTrailer(r) \/ ErrorResponse(r)
               \/ ErrorBody(r) \/ Finish(r)
    <3>1. UNCHANGED <<headers, calls>>
      BY <2>5 DEF Accept, Reply, WriteBody, WriteTrailer, ErrorResponse, ErrorBody, Finish,
                  streamVars
    <3>2. QED
      BY <1>1, <3>1 DEF HeldAt
  <2>6. QED
    BY <2>1, <2>2, <2>3, <2>4, <2>5 DEF RequestStep, HandlerStep, ServiceStep, LocalStep
<1>4. QED
  BY <1>2, <1>3 DEF HeldByStream, HeldAt

LEMMA HeldInit == Init => HeldByStream
<1> SUFFICES ASSUME Init, NEW r \in Requests, NEW k \in Keys
             PROVE  headers[r][HeaderName(k)] = Held(r, calls[r], k, Len(calls[r]))
  BY DEF HeldByStream
<1>1. headers[r][HeaderName(k)] = <<>> /\ calls[r] = <<>>
  BY NamesTyped DEF Init, Empty
<1>2. Gave(calls[r], k, Len(calls[r])) = {}
  BY <1>1 DEF Gave
<1>3. QED
  BY <1>1, <1>2 DEF Held, Latest

-----------------------------------------------------------------------------
(* The answer by step: one request's share of AnswerByStep, but for a 200  *)
(* a goroutine left behind may have recorded.                              *)

AnswerAt(r) ==
  body[r] # <<>> =>
    \/ body[r][1] = "response" /\ wireStatus[r] = 200 /\ fault[r] = "none"
    \/ /\ body[r][1] = "status"
       /\ fault[r] # "none"
       /\ wireStatus[r] \in IntendedStatuses(fault[r]) \cup Late(r)
    \/ body[r][1] = "text" /\ wireStatus[r] \in {500} \cup Late(r) /\ fault[r] # "none"

RecordedAt(r) ==
  /\ pc[r] = "write" => status[ctx[r]] = 200
  /\ pc[r] = "statusBody" =>
       broken[r] \/ status[ctx[r]] \in IntendedStatuses(fault[r]) \cup Late(r)
  /\ pc[r] = "textBody" => broken[r] \/ status[ctx[r]] \in {500} \cup Late(r)

AnswerStep(r) == AnswerAt(r) /\ RecordedAt(r) /\ (~Shared(r) => HeadersAt(r))

LEMMA LateStays ==
  ASSUME NEW q \in Requests, Shared(q) => Shared(q)'
  PROVE  Late(q) \subseteq Late(q)' /\ Late(q) \subseteq {200}
BY DEF Late

LEMMA AnswerOthers ==
  ASSUME NEW q \in Requests, AnswerStep(q), Quiet(q)
  PROVE  AnswerStep(q)'
<1>1. Late(q) \subseteq Late(q)' /\ Late(q) \subseteq {200} /\ Kept(q)
  BY LateStays DEF Quiet
<1>2. AnswerAt(q)'
  BY <1>1 DEF AnswerStep, AnswerAt, Kept
<1>3. RecordedAt(q)'
  <2>1. pc'[q] \in {"write", "statusBody", "textBody"} =>
          Active(q) /\ status'[ctx'[q]] \in {status[ctx[q]]} \cup Late(q)
    BY <1>1 DEF Quiet, Kept, Active
  <2>2. QED
    BY <1>1, <2>1 DEF AnswerStep, RecordedAt, Kept
<1>4. ~Shared(q)' => HeadersAt(q)'
  BY <1>1 DEF AnswerStep, HeadersAt, Quiet, Kept
<1>5. QED
  BY <1>2, <1>3, <1>4 DEF AnswerStep

(* What one write leaves with the client.                                  *)
LEMMA Written ==
  ASSUME HandlerInv, NEW r \in Requests, Active(r), NEW doc, NEW ok \in BOOLEAN,
         GinWrite(ctx[r], doc, ok), body[r] = <<>>
  PROVE  /\ body'[r] = IF ok THEN <<doc>> ELSE <<>>
         /\ ok => ~broken[r]
         /\ broken'[r] = ~ok
         /\ UNCHANGED status
<1>1. owner[ctx[r]] = r
  BY OwnContext
<1>2. /\ body \in [Requests -> Seq({"response", "status", "text"})]
      /\ broken \in [Requests -> BOOLEAN]
  BY DEF HandlerInv, TypeOK
<1>3. broken' = [broken EXCEPT ![r] = ~ok] /\ (ok => ~broken[r]) /\ UNCHANGED status
  BY <1>1, Zenon DEF GinWrite
<1>4. CASE ok
  <2>1. body' = [body EXCEPT ![r] = Append(@, doc)]
    BY <1>1, <1>4, Zenon DEF GinWrite
  <2>2. body'[r] = <<doc>>
    BY <1>2, <2>1
  <2>3. QED
    BY <1>2, <1>3, <1>4, <2>2
<1>5. CASE ~ok
  <2>1. body' = body
    BY <1>5, Zenon DEF GinWrite
  <2>2. QED
    BY <1>2, <1>3, <1>5, <2>1
<1>6. QED
  BY <1>4, <1>5

(* Before the reply: nothing is answered, nothing recorded that matters.   *)
LEMMA AnswerBefore ==
  ASSUME HandlerInv, NEW r \in Requests, AnswerStep(r), LocalStep(r) \/ Accept(r),
         Shared(r) => Shared(r)'
  PROVE  AnswerStep(r)'
<1>1. /\ body[r] = <<>> /\ pc[r] \in Undisturbed \ {"write"}
      /\ UNCHANGED <<headers, calls, header, body>>
  <2>1. CASE LocalStep(r)
    <3>1. UNCHANGED <<headers, calls, header, body>>
      BY <2>1, LocalStepEffect, Zenon
    <3>2. QED
      BY <2>1, <3>1, LocalMoves DEF HandlerInv, BodyByStep, Undisturbed
  <2>2. CASE Accept(r)
    BY <2>2 DEF Accept, HandlerInv, BodyByStep, Undisturbed, streamVars, wireVars
  <2>3. QED
    BY <2>1, <2>2
<1>2. pc'[r] \notin {"write", "statusBody", "textBody"}
  <2>1. CASE LocalStep(r)
    <3>1. PICK step \in {"parseQuery", "decode", "interceptor", "service", "assert",
                         "marshal", "reply", "panicked", "error"} : Goto(r, step)
      BY <2>1, LocalMoves DEF Fail
    <3>2. pc'[r] = step
      BY <3>1 DEF Goto, HandlerInv, TypeOK
    <3>3. QED
      BY <3>2
  <2>2. CASE Accept(r)
    BY <2>2 DEF Accept, Goto, HandlerInv, TypeOK
  <2>3. QED
    BY <2>1, <2>2
<1>3. AnswerAt(r)' /\ RecordedAt(r)'
  BY <1>1, <1>2 DEF AnswerAt, RecordedAt
<1>4. ~Shared(r)' => HeadersAt(r)'
  BY <1>1, <1>2 DEF AnswerStep, HeadersAt
<1>5. QED
  BY <1>3, <1>4 DEF AnswerStep

(* What a stream call adds to the response of a running request.           *)
LEMMA AddedByStream ==
  ASSUME HandlerInv, HeldByStream', NEW r \in Requests, Active(r),
         SetHeader(r) \/ SendHeader(r) \/ SetTrailer(r),
         NEW k \in Keys, AddedBySends(r, calls[r], k, header[r][HeaderName(k)])
  PROVE  AddedBySends(r, calls'[r], k, header'[r][HeaderName(k)])
<1>1. /\ calls[r] \in Seq(Call) /\ header[r] \in HeaderMap /\ HeaderName(k) \in Name
      /\ header \in [Requests -> HeaderMap] /\ calls \in [Requests -> Seq(Call)]
      /\ headers \in [Requests -> HeaderMap]
  BY NamesTyped DEF HandlerInv, TypeOK
<1>2. owner[ctx[r]] = r
  BY OwnContext
<1>3. CASE SetHeader(r) \/ SetTrailer(r)
  <2>1. UNCHANGED header
    BY <1>3 DEF SetHeader, SetTrailer
  <2>2. PICK op \in {"SetHeader", "SetTrailer"}, ks \in SUBSET Keys : Record(r, op, ks)
    BY <1>3 DEF SetHeader, SetTrailer
  <2> DEFINE c == [op |-> op, keys |-> ks]
  <2>3. c \in Call /\ c.op # "SendHeader" /\ calls'[r] = Append(calls[r], c)
    BY <1>1, <2>2 DEF Call, Record
  <2> HIDE DEF c
  <2>4. QED
    BY <1>1, <2>1, <2>3, AddedStays
<1>4. CASE SendHeader(r)
  <2>1. PICK ks \in SUBSET Keys :
          LET md == MDSet(headers[r], Names(ks), NewValue(r)) IN
          /\ headers' = [headers EXCEPT ![r] = md]
          /\ header' = [header EXCEPT ![owner[ctx[r]]] = AddAll(@, md)]
          /\ Record(r, "SendHeader", ks)
    BY <1>4 DEF SendHeader
  <2> DEFINE c == [op |-> "SendHeader", keys |-> ks]
             md == MDSet(headers[r], Names(ks), NewValue(r))
  <2>2. c \in Call /\ c.op = "SendHeader" /\ calls'[r] = Append(calls[r], c)
    BY <1>1, <2>1 DEF Call, Record
  <2>3. headers'[r] = md /\ header'[r] = AddAll(header[r], md)
    BY <1>1, <1>2, <2>1
  <2>4. md \in HeaderMap
    BY <1>1, NewValueTyped, MDSetTyped DEF HandlerInv
  <2> HIDE DEF c, md
  <2>5. Len(calls'[r]) = Len(calls[r]) + 1
    BY <1>1, <2>2, AppendProperties
  <2>6. md[HeaderName(k)] = Held(r, calls'[r], k, Len(calls'[r]))
    BY <2>3 DEF HeldByStream
  <2>7. header'[r][HeaderName(k)] = header[r][HeaderName(k)] \o md[HeaderName(k)]
    BY <1>1, <2>3 DEF AddAll
  <2>8. /\ header[r][HeaderName(k)] \in Seq(Value)
        /\ Held(r, Append(calls[r], c), k, Len(calls[r]) + 1) \in Seq(Value)
    BY <1>1, <2>2, <2>4, <2>5, <2>6 DEF HeaderMap
  <2>9. AddedBySends(r, Append(calls[r], c), k,
          header[r][HeaderName(k)] \o Held(r, Append(calls[r], c), k, Len(calls[r]) + 1))
    BY <1>1, <2>2, <2>8, AddedMore
  <2>10. QED
    BY <2>2, <2>5, <2>6, <2>7, <2>9
<1>5. QED
  BY <1>3, <1>4

LEMMA AnswerStream ==
  ASSUME HandlerInv, HeldByStream', NEW r \in Requests, AnswerStep(r),
         Shared(r) => Shared(r)', SetHeader(r) \/ SendHeader(r) \/ SetTrailer(r)
  PROVE  AnswerStep(r)'
<1>1. /\ pc[r] \in Running \/ Shared(r)
      /\ UNCHANGED <<pc, ctx, fault, wireStatus, body, broken>>
  BY StreamWhileRunning DEF Shared, SetHeader, SendHeader, SetTrailer, callVars, wireVars
<1>2. Late(r) \subseteq Late(r)' /\ Late(r) \subseteq {200}
  BY LateStays
<1>3. AnswerAt(r)'
  BY <1>1, <1>2 DEF AnswerStep, AnswerAt
<1>4. RecordedAt(r)'
  <2>1. CASE pc[r] \in Running
    BY <1>1, <2>1 DEF RecordedAt, Running
  <2>2. CASE Shared(r) /\ pc[r] \in {"write", "statusBody", "textBody"}
    <3>1. ctx[r] \in Contexts /\ status \in [Contexts -> {200} \cup 400..599]
      BY <2>2, OwnContext DEF Active, HandlerInv, TypeOK
    <3>2. status'[ctx[r]] \in {status[ctx[r]], 200}
      BY <3>1, StreamWrites
    <3>3. Late(r)' = {200}
      BY <2>2 DEF Late
    <3>4. QED
      BY <1>1, <1>2, <3>2, <3>3 DEF AnswerStep, RecordedAt
  <2>3. CASE pc[r] \notin {"write", "statusBody", "textBody"}
    BY <1>1, <2>3 DEF RecordedAt
  <2>4. QED
    BY <1>1, <2>1, <2>2, <2>3
<1>5. ASSUME ~Shared(r)' PROVE HeadersAt(r)'
  <2>1. pc[r] \in Running
    BY <1>1, <1>5
  <2>2. body[r] = <<>> /\ body'[r] = <<>>
    BY <1>1, <2>1 DEF HandlerInv, BodyByStep, Running
  <2>3. \A k \in Keys \ {ContentType} :
          AddedBySends(r, calls[r], k, header[r][HeaderName(k)])
    BY <1>1, <1>5, <2>1 DEF AnswerStep, HeadersAt, Running, Undisturbed
  <2>4. \A k \in Keys \ {ContentType} :
          AddedBySends(r, calls'[r], k, header'[r][HeaderName(k)])
    BY <2>1, <2>3, AddedByStream DEF Active, Running
  <2>5. body'[r] # <<"response">> /\ pc'[r] # "write"
    BY <1>1, <2>1, <2>2, NotTheResponse DEF Running
  <2>6. QED
    BY <2>4, <2>5 DEF HeadersAt
<1>6. QED
  BY <1>3, <1>4, <1>5 DEF AnswerStep

(* Reply: the values the stream holds come last, after the gateway's own   *)
(* and those SendHeader added.                                             *)
LEMMA AnswerReply ==
  ASSUME HandlerInv, HeldByStream, NEW r \in Requests, WireStep(r), AnswerStep(r), Reply(r),
         Shared(r) => Shared(r)'
  PROVE  AnswerStep(r)'
<1>1. /\ pc[r] = "reply" /\ Active(r) /\ body[r] = <<>>
      /\ UNCHANGED <<headers, calls, body>>
  BY DEF Reply, Active, HandlerInv, BodyByStep, streamVars, wireVars
<1>2. ctx[r] \in Contexts /\ owner[ctx[r]] = r /\ ~written[ctx[r]] /\ pc'[r] = "write"
  BY <1>1, OwnContext DEF WireStep, WireAt, Undisturbed, Reply, Goto, HandlerInv, TypeOK
<1>3. status'[ctx'[r]] = 200
  <2>1. status'[ctx[r]] = 200 /\ UNCHANGED ctx
    BY <1>2, StatusEffect DEF Reply
  <2>2. QED
    BY <2>1
<1>4. header'[r] = AddAll([header[r] EXCEPT ![HeaderName(ContentType)] = JSON], headers[r])
  BY <1>2 DEF Reply, HandlerInv, TypeOK
<1>5. ASSUME ~Shared(r)' PROVE Carries(r, calls[r], header[r])'
  <2> SUFFICES ASSUME NEW k \in Keys
               PROVE  LET cs == calls[r]
                          got == header'[r][HeaderName(k)]
                          before == SubSeq(got, 1, Len(got) - Len(Held(r, cs, k, Len(cs)))) IN
                      /\ got = before \o Held(r, cs, k, Len(cs))
                      /\ IF k = ContentType THEN before = JSON
                                            ELSE AddedBySends(r, cs, k, before)
    BY <1>1 DEF Carries
  <2> DEFINE base == [header[r] EXCEPT ![HeaderName(ContentType)] = JSON]
             held == Held(r, calls[r], k, Len(calls[r]))
  <2>1. /\ header[r] \in HeaderMap /\ headers[r] \in HeaderMap /\ HeaderName(k) \in Name
        /\ base \in HeaderMap
    BY NamesTyped, SetKeyTyped, ContentTypesTyped DEF HandlerInv, TypeOK
  <2>2. headers[r][HeaderName(k)] = held
    BY DEF HeldByStream
  <2> HIDE DEF held
  <2>3. header'[r][HeaderName(k)] = base[HeaderName(k)] \o held
    BY <1>4, <2>1, <2>2 DEF AddAll
  <2>4. base[HeaderName(k)] \in Seq(Value) /\ held \in Seq(Value)
    BY <2>1, <2>2 DEF HeaderMap
  <2>5. base[HeaderName(k)] = IF k = ContentType THEN JSON ELSE header[r][HeaderName(k)]
    BY <2>1 DEF HeaderName, HeaderMap
  <2>6. k # ContentType => AddedBySends(r, calls[r], k, header[r][HeaderName(k)])
    BY <1>1, <1>5 DEF AnswerStep, HeadersAt, Undisturbed
  <2> HIDE DEF base
  <2> DEFINE front == base[HeaderName(k)]
             got == header'[r][HeaderName(k)]
  <2>7. SubSeq(got, 1, Len(got) - Len(held)) = front
    BY <2>3, <2>4, FrontOfConcat
  <2>8. k = ContentType => front = JSON
    BY <2>5
  <2>9. k # ContentType => AddedBySends(r, calls[r], k, front)
    BY <2>5, <2>6
  <2> HIDE DEF front
  <2>10. got = front \o held
    BY <2>3 DEF front
  <2> HIDE DEF got
  <2>11. QED
    BY <2>7, <2>8, <2>9, <2>10 DEF held, got
<1>6. AnswerAt(r)' /\ RecordedAt(r)'
  BY <1>1, <1>2, <1>3 DEF AnswerAt, RecordedAt
<1>7. ~Shared(r)' => HeadersAt(r)'
  <2>1. body'[r] # <<"response">>
    BY <1>1, NotTheResponse
  <2>2. QED
    BY <1>2, <1>5, <2>1 DEF HeadersAt
<1>8. QED
  BY <1>6, <1>7 DEF AnswerStep

(* The response goes out with the recorded 200 and the header as it is.    *)
LEMMA AnswerWriteBody ==
  ASSUME HandlerInv, NEW r \in Requests, WireStep(r), AnswerStep(r), WriteBody(r),
         Shared(r) => Shared(r)'
  PROVE  AnswerStep(r)'
<1>1. /\ pc[r] = "write" /\ Active(r) /\ body[r] = <<>> /\ ~written[ctx[r]]
      /\ fault[r] = "none" /\ status[ctx[r]] = 200
      /\ ~Shared(r) => Carries(r, calls[r], header[r])
      /\ UNCHANGED <<headers, calls>>
  BY DEF WriteBody, Active, HandlerInv, BodyByStep, WireStep, WireAt, FaultAt, Undisturbed,
         AnswerStep, RecordedAt, HeadersAt, streamVars
<1>2. PICK ok \in BOOLEAN : /\ GinWrite(ctx[r], "response", ok)
                            /\ pc' = [pc EXCEPT ![r] = IF ok THEN "trailers" ELSE "error"]
                            /\ ok => UNCHANGED fault
  BY DEF WriteBody, Goto, Fail
<1>3. body'[r] = IF ok THEN <<"response">> ELSE <<>>
  BY <1>1, <1>2, Written
<1>4. wireStatus'[r] = 200 /\ wireHeader'[r] = header[r]
  BY <1>1, <1>2, NowEffect DEF GinWrite
<1>5. pc'[r] = IF ok THEN "trailers" ELSE "error"
  BY <1>2 DEF HandlerInv, TypeOK
<1>6. AnswerAt(r)'
  BY <1>1, <1>2, <1>3, <1>4 DEF AnswerAt
<1>7. RecordedAt(r)'
  BY <1>5 DEF RecordedAt
<1>8. ~Shared(r)' => HeadersAt(r)'
  <2>1. ~Shared(r)' => Carries(r, calls[r], wireHeader[r])'
    BY <1>1, <1>4 DEF Carries
  <2>2. QED
    BY <1>5, <2>1 DEF HeadersAt, Undisturbed
<1>9. QED
  BY <1>6, <1>7, <1>8 DEF AnswerStep

(* ErrorResponse: an error status replaces the 200 of an earlier           *)
(* SendHeader, unless the header block went out with a write that failed.  *)
LEMMA AnswerErrorResponse ==
  ASSUME HandlerInv, NEW r \in Requests, WireStep(r), AnswerStep(r), ErrorResponse(r),
         Shared(r) => Shared(r)'
  PROVE  AnswerStep(r)'
<1>1. /\ pc[r] = "error" /\ Active(r) /\ body[r] = <<>> /\ ctx[r] \in Contexts
      /\ UNCHANGED <<ctx, fault, body, broken>>
  BY OwnContext DEF ErrorResponse, Active, HandlerInv, BodyByStep, callVars, wireVars
<1>2. fault[r] \in Faults /\ (written[ctx[r]] => broken[r])
  BY <1>1 DEF HandlerInv, TypeOK, WireStep, WireAt, FaultAt, Failing
<1>3. \/ /\ pc'[r] = "statusBody"
         /\ written[ctx[r]] \/ status'[ctx[r]] \in IntendedStatuses(fault[r])
      \/ /\ pc'[r] = "textBody"
         /\ written[ctx[r]] \/ status'[ctx[r]] = 500
  <2>1. pc \in [Requests -> Steps]
    BY DEF HandlerInv, TypeOK
  <2>2. CASE GinWriteHeader(ctx[r], ErrorStatus(ErrorOf(fault[r]))) /\ Goto(r, "statusBody")
    <3>1. pc'[r] = "statusBody"
      BY <2>1, <2>2 DEF Goto
    <3>2. written[ctx[r]] \/ status'[ctx[r]] = ErrorStatus(ErrorOf(fault[r]))
      BY <1>1, <2>2, StatusEffect
    <3>3. QED
      BY <1>2, <3>1, <3>2, StatusOfFault
  <2>3. CASE GinWriteHeader(ctx[r], 500) /\ Goto(r, "textBody")
    BY <1>1, <2>1, <2>3, StatusEffect DEF Goto
  <2>4. QED
    BY <2>2, <2>3 DEF ErrorResponse
<1>4. AnswerAt(r)' /\ RecordedAt(r)'
  BY <1>1, <1>2, <1>3 DEF AnswerAt, RecordedAt
<1>5. HeadersAt(r)'
  <2>1. body'[r] # <<"response">>
    BY <1>1, NotTheResponse
  <2>2. QED
    BY <1>3, <2>1 DEF HeadersAt, Undisturbed
<1>6. QED
  BY <1>4, <1>5 DEF AnswerStep

(* A write of the error that succeeds commits the recorded status.         *)
LEMMA AnswerErrorBody ==
  ASSUME HandlerInv, NEW r \in Requests, WireStep(r), AnswerStep(r), ErrorBody(r),
         Shared(r) => Shared(r)'
  PROVE  AnswerStep(r)'
<1>1. /\ pc[r] \in {"statusBody", "textBody"} /\ Active(r) /\ body[r] = <<>>
      /\ fault[r] # "none"
      /\ broken[r] \/ ~written[ctx[r]]
      /\ UNCHANGED fault
  BY DEF ErrorBody, Active, HandlerInv, BodyByStep, WireStep, WireAt, FaultAt, Failing, callVars
<1>2. PICK ok \in BOOLEAN, doc \in {"status", "text"} :
        /\ GinWrite(ctx[r], doc, ok)
        /\ pc[r] = IF doc = "status" THEN "statusBody" ELSE "textBody"
  BY DEF ErrorBody
<1>3. pc'[r] = "finish"
  BY DEF ErrorBody, Goto, HandlerInv, TypeOK
<1>4. body'[r] = (IF ok THEN <<doc>> ELSE <<>>) /\ (ok => ~broken[r])
  BY <1>1, <1>2, Written
<1>5. ok => wireStatus'[r] = status[ctx[r]]
  BY <1>1, <1>2, <1>4, NowEffect DEF GinWrite
<1>l. Late(r) \subseteq Late(r)'
  BY LateStays
<1>6. ok => IF doc = "status" THEN status[ctx[r]] \in IntendedStatuses(fault[r]) \cup Late(r)
                             ELSE status[ctx[r]] \in {500} \cup Late(r)
  BY <1>2, <1>4 DEF AnswerStep, RecordedAt
<1>7. AnswerAt(r)'
  <2>1. ASSUME body'[r] # <<>> PROVE ok /\ body'[r][1] = doc
    <3>1. ok
      BY <1>4, <2>1
    <3>2. QED
      BY <1>4, <3>1
  <2>2. ASSUME body'[r] # <<>>
        PROVE  \/ doc = "status" /\ wireStatus'[r] \in IntendedStatuses(fault'[r]) \cup Late(r)'
               \/ doc = "text" /\ wireStatus'[r] \in {500} \cup Late(r)'
    <3>1. ok
      BY <2>1, <2>2
    <3>2. CASE doc = "status"
      BY <1>1, <1>5, <1>6, <1>l, <3>1, <3>2
    <3>3. CASE doc = "text"
      BY <1>5, <1>6, <1>l, <3>1, <3>3
    <3>4. QED
      BY <3>2, <3>3
  <2>3. fault'[r] # "none"
    BY <1>1
  <2>4. QED
    BY <2>1, <2>2, <2>3 DEF AnswerAt
<1>8. RecordedAt(r)' /\ HeadersAt(r)'
  <2>1. body'[r] # <<"response">>
    <3>1. CASE ok
      BY <1>4, <3>1, NotTheResponse
    <3>2. CASE ~ok
      BY <1>4, <3>2, NotTheResponse
    <3>3. QED
      BY <3>1, <3>2
  <2>2. QED
    BY <1>3, <2>1 DEF RecordedAt, HeadersAt, Undisturbed
<1>9. QED
  BY <1>7, <1>8 DEF AnswerStep

(* The last steps change nothing that was sent.                            *)
LEMMA AnswerEnd ==
  ASSUME HandlerInv, NEW r \in Requests, WireStep(r), AnswerStep(r), Shared(r) => Shared(r)',
         WriteTrailer(r) \/ Finish(r)
  PROVE  AnswerStep(r)'
<1>1. UNCHANGED <<headers, calls, body, fault>>
  BY DEF WriteTrailer, Finish, callVars, streamVars, wireVars
<1>2. pc'[r] \in {"finish", "done"}
  BY DEF WriteTrailer, Finish, Goto, HandlerInv, TypeOK
<1>3. body[r] # <<>> => wireStatus'[r] = wireStatus[r] /\ wireHeader'[r] = wireHeader[r]
  <2>1. FinalAt(r)
    BY FinalStep DEF RequestStep, HandlerStep
  <2>2. QED
    BY <2>1 DEF FinalAt, WireStep, WireAt
<1>4. AnswerAt(r)'
  BY <1>1, <1>3, LateStays DEF AnswerStep, AnswerAt
<1>5. RecordedAt(r)'
  BY <1>2 DEF RecordedAt
<1>6. ~Shared(r)' => HeadersAt(r)'
  <2>1. ASSUME ~Shared(r)', body'[r] = <<"response">> PROVE Carries(r, calls[r], wireHeader[r])'
    <3>1. body[r] = <<"response">> /\ body[r] # <<>>
      BY <1>1, <2>1
    <3>2. Carries(r, calls[r], wireHeader[r])
      BY <2>1, <3>1 DEF AnswerStep, HeadersAt
    <3>3. QED
      BY <1>1, <1>3, <3>1, <3>2 DEF Carries
  <2>2. QED
    BY <1>2, <2>1 DEF HeadersAt, Undisturbed
<1>7. QED
  BY <1>4, <1>5, <1>6 DEF AnswerStep

LEMMA AnswerOwnStep ==
  ASSUME HandlerInv, HeldByStream, HeldByStream', NEW r \in Requests, WireStep(r), AnswerStep(r), RequestStep(r),
         Shared(r) => Shared(r)'
  PROVE  AnswerStep(r)'
BY AnswerBefore, AnswerStream, AnswerReply, AnswerWriteBody, AnswerErrorResponse,
   AnswerErrorBody, AnswerEnd
   DEF RequestStep, HandlerStep, ServiceStep, LocalStep

-----------------------------------------------------------------------------
AllAnswered == \A r \in Requests : AnswerStep(r)

LEMMA AnswerInit == Init => AllAnswered
<1> SUFFICES ASSUME Init, NEW r \in Requests PROVE AnswerStep(r)
  BY DEF AllAnswered
<1>1. pc[r] = "idle" /\ body[r] = <<>> /\ header[r] = Empty
  BY DEF Init
<1>2. \A k \in Keys : AddedBySends(r, calls[r], k, header[r][HeaderName(k)])
  <2> TAKE k \in Keys
  <2>1. header[r][HeaderName(k)] = <<>> /\ calls[r] = <<>>
    BY <1>1, NamesTyped DEF Init, Empty
  <2>2. Adding(calls[r], k, Len(calls[r])) = {}
    BY <2>1 DEF Adding
  <2>3. Cardinality({}) = 0
    BY FS_EmptySet
  <2>4. QED
    BY <2>1, <2>2, <2>3 DEF AddedBySends
<1>3. body[r] # <<"response">>
  BY <1>1
<1>4. QED
  BY <1>1, <1>2, <1>3 DEF AnswerStep, AnswerAt, RecordedAt, HeadersAt

LEMMA AnswerNext ==
  HandlerInv /\ WireByStep /\ Holders /\ HeldByStream /\ HeldByStream' /\ AllAnswered
    /\ [Next]_vars => AllAnswered'
<1> SUFFICES ASSUME HandlerInv, WireByStep, Holders, HeldByStream, HeldByStream', AllAnswered,
                    [Next]_vars
             PROVE  AllAnswered'
  OBVIOUS
<1>1. CASE UNCHANGED vars
  BY <1>1 DEF vars, callVars, streamVars, ginVars, wireVars, AllAnswered, AnswerStep,
              AnswerAt, RecordedAt, Late, Shared, HeadersAt
<1>2. ASSUME NEW r \in Requests, RequestStep(r)
      PROVE  AllAnswered'
  <2>1. ServedIsAccepted
    BY WireImpliesServed DEF HandlerInv
  <2>2. AnswerStep(r)'
    BY <1>2, <2>1, AnswerOwnStep, SharedStays DEF WireByStep, WireStep, AllAnswered
  <2>3. \A q \in Requests \ {r} : AnswerStep(q)'
    BY <1>2, <2>1, OthersQuiet, AnswerOthers DEF AllAnswered
  <2>4. QED
    BY <2>2, <2>3 DEF AllAnswered
<1>3. QED
  BY <1>1, <1>2 DEF Next, Quiescent, RequestStep

LEMMA HeldStays == HandlerInv /\ HeldByStream /\ [Next]_vars => HeldByStream'
<1> SUFFICES ASSUME HandlerInv, HeldByStream, [Next]_vars
             PROVE  HeldByStream'
  OBVIOUS
<1>1. CASE UNCHANGED vars
  BY <1>1 DEF vars, streamVars, HeldByStream
<1>2. ASSUME NEW r \in Requests, RequestStep(r)
      PROVE  HeldByStream'
  BY <1>2, HeldNextStep
<1>3. QED
  BY <1>1, <1>2 DEF Next, Quiescent, RequestStep

(* A stream holds of each key what it was given last.                      *)
LEMMA StreamsHold == Spec => []HeldByStream
BY HandlerInvariant, HeldInit, HeldStays, PTL DEF Spec

LEMMA AnsweredByStep == Spec => []AllAnswered
<1>1. Spec => []Holders
  BY HandlerInvariant, HoldersInit, HoldersNext, PTL DEF Spec
<1>2. QED
  BY <1>1, HandlerInvariant, WireFollowsSteps, StreamsHold, AnswerInit, AnswerNext, PTL
     DEF Spec

(* Status line, kind of document and fault agree for every request, with   *)
(* one exception: an error whose status line is a 200.  It needs a stream  *)
(* that a goroutine of some request's service still holds, and which was   *)
(* made on the gin.Context the failed request is answered from.            *)
WrongOnlyIfShared ==
  \A r \in Requests : body[r] # <<>> =>
    \/ body[r][1] = "response" /\ wireStatus[r] = 200 /\ fault[r] = "none"
    \/ /\ body[r][1] = "status"
       /\ fault[r] # "none"
       /\ wireStatus[r] \in IntendedStatuses(fault[r])
    \/ body[r][1] = "text" /\ wireStatus[r] = 500 /\ fault[r] # "none"
    \/ /\ body[r][1] \in {"status", "text"} /\ fault[r] # "none" /\ wireStatus[r] = 200
       /\ \E d \in Detached : served[d] > 0 /\ ctx[d] = ctx[r]

(* An error is never answered as a response, a response never as an error; *)
(* a wrong status is a 200, and only a goroutine that outlives its call    *)
(* and uses the stream records it (ginTransportStream.SendHeader).         *)
THEOREM WrongStatusOnlyByGoroutines == Spec => []WrongOnlyIfShared
<1>1. AllAnswered => WrongOnlyIfShared
  BY DEF AllAnswered, AnswerStep, AnswerAt, Late, Shared, WrongOnlyIfShared
<1>2. QED
  BY <1>1, AnsweredByStep, PTL

(* Status line, kind of document and fault agree, also when the service    *)
(* had sent its headers before it failed.                                  *)
THEOREM AnswersMatchFaults ==
  ASSUME Detached = {}
  PROVE  Spec => []AnswerMatchesFault
<1>1. WrongOnlyIfShared => AnswerMatchesFault
  BY DEF WrongOnlyIfShared, AnswerMatchesFault
<1>2. QED
  BY <1>1, WrongStatusOnlyByGoroutines, PTL

(* What HeadersReachClient promises one request.                           *)
HeadersReach(r) == body[r] = <<"response">> => Carries(r, calls[r], wireHeader[r])

(* On success the header block is exactly the one the request's own stream *)
(* calls made, replaced and repeated values included, whatever other       *)
(* requests do: only a goroutine that holds a stream made on the same      *)
(* gin.Context can come between.                                           *)
HeadersReachUnshared ==
  \A r \in Requests :
    HeadersReach(r) \/ \E d \in Detached : served[d] > 0 /\ ctx[d] = ctx[r]

(* HeadersReachUnshared, for any number of requests, contexts and stream   *)
(* calls: pool reuse alone adds, drops or reorders no header value.  What  *)
(* the calls themselves replace (MD.Set) is not sent.                      *)
THEOREM HeadersDisturbedOnlyByGoroutines == Spec => []HeadersReachUnshared
<1>1. AllAnswered => HeadersReachUnshared
  BY DEF AllAnswered, AnswerStep, HeadersAt, Shared, HeadersReach, HeadersReachUnshared
<1>2. QED
  BY <1>1, AnsweredByStep, PTL

(* On success each key carries one value for each SendHeader since it was  *)
(* first given and one for the reply, each the value given last before;    *)
(* Content-Type the gateway's and the value given last.                    *)
THEOREM HeadersFollowCalls ==
  ASSUME Detached = {}
  PROVE  Spec => []HeadersReachClient
<1>1. HeadersReachUnshared => HeadersReachClient
  BY DEF HeadersReachUnshared, HeadersReach, HeadersReachClient
<1>2. QED
  BY <1>1, HeadersDisturbedOnlyByGoroutines, PTL

-----------------------------------------------------------------------------
(* The handler implements UnaryExchange.                                   *)

(* AnswerMatchesFault, of one request.                                     *)
Agrees(r) ==
  body[r] # <<>> =>
    \/ body[r][1] = "response" /\ wireStatus[r] = 200 /\ fault[r] = "none"
    \/ /\ body[r][1] = "status"
       /\ fault[r] # "none"
       /\ wireStatus[r] \in IntendedStatuses(fault[r])
    \/ body[r][1] = "text" /\ wireStatus[r] = 500 /\ fault[r] # "none"

PhaseMap == [r \in Requests |-> Phase(r)]
ReplyMap == [r \in Requests |-> Received(r)]

(* A step of request r changes the phase and the reply of r only.          *)
LEMMA ExchangeFrame ==
  ASSUME HandlerInv, NEW r \in Requests, RequestStep(r)
  PROVE  /\ PhaseMap' = [PhaseMap EXCEPT ![r] = Phase(r)']
         /\ ReplyMap' = [ReplyMap EXCEPT ![r] = Received(r)']
         /\ PhaseMap[r] = Phase(r) /\ ReplyMap[r] = Received(r)
<1>1. \A q \in Requests \ {r} : Phase(q)' = Phase(q) /\ Received(q)' = Received(q)
  BY OthersKept DEF Kept, Phase, Received
<1>2. QED
  BY <1>1 DEF PhaseMap, ReplyMap

(* What a step of request r does in UnaryExchange, phase, reply and served *)
(* counter being those of r.                                               *)
Mapped(r) ==
  \/ Exchange!Open(r) \/ Exchange!Call(r) \/ Exchange!Serve(r) \/ Exchange!Answer(r)
  \/ Exchange!Close(r) \/ UNCHANGED <<PhaseMap, served, ReplyMap>>

LEMMA MappedStutter ==
  ASSUME HandlerInv, NEW r \in Requests, RequestStep(r),
         Phase(r)' = Phase(r), Received(r)' = Received(r), UNCHANGED served
  PROVE  Mapped(r)
<1>1. PhaseMap' = PhaseMap /\ ReplyMap' = ReplyMap
  BY ExchangeFrame DEF PhaseMap, ReplyMap
<1>2. QED
  BY <1>1 DEF Mapped

LEMMA MappedClose ==
  ASSUME HandlerInv, NEW r \in Requests, RequestStep(r),
         Phase(r) \in {"open", "calling"}, Phase(r)' = "closed",
         Received(r)' = Received(r), UNCHANGED served
  PROVE  Mapped(r)
<1>1. /\ PhaseMap[r] \in {"open", "calling"}
      /\ PhaseMap' = [PhaseMap EXCEPT ![r] = "closed"]
  BY ExchangeFrame
<1>2. ReplyMap' = ReplyMap
  BY ExchangeFrame DEF ReplyMap
<1>3. Exchange!Close(r)
  BY <1>1, <1>2 DEF Exchange!Close, PhaseMap, ReplyMap
<1>4. QED
  BY <1>3 DEF Mapped

LEMMA MappedAnswer ==
  ASSUME HandlerInv, NEW r \in Requests, RequestStep(r),
         Phase(r) \in {"open", "calling"}, Phase(r)' = Phase(r), UNCHANGED served,
         Received(r) = Exchange!NoReply, Received(r)' \in Exchange!Answers,
         Received(r)'.doc = "response" => Phase(r) = "calling"
  PROVE  Mapped(r)
<1>1. /\ PhaseMap[r] = Phase(r) /\ ReplyMap[r] = Exchange!NoReply
      /\ ReplyMap' = [ReplyMap EXCEPT ![r] = Received(r)']
  BY ExchangeFrame
<1>2. PhaseMap' = PhaseMap
  BY ExchangeFrame DEF PhaseMap
<1>3. Exchange!Answer(r)
  BY <1>1, <1>2 DEF Exchange!Answer, PhaseMap, ReplyMap
<1>4. QED
  BY <1>3 DEF Mapped

(* Before the reply: the call, the service's entries, a panic.             *)
LEMMA MappedLocal ==
  ASSUME HandlerInv, NEW r \in Requests, WireStep(r), LocalStep(r)
  PROVE  Mapped(r)
<1> USE DEF callVars
<1>1. RequestStep(r) /\ UNCHANGED <<body, wireStatus>> /\ body[r] = <<>>
  <2>1. UNCHANGED <<body, wireStatus>>
    BY LocalStepEffect, Zenon
  <2>2. QED
    BY <2>1, LocalMoves DEF LocalStep, RequestStep, HandlerStep, ServiceStep, HandlerInv,
                            BodyByStep, Undisturbed
<1>2. Received(r)' = Received(r) /\ Received(r) = Exchange!NoReply
  BY <1>1 DEF Received, Exchange!NoReply
<1>3. /\ pc \in [Requests -> Steps] /\ fault \in [Requests -> Faults \cup {"none"}]
      /\ served \in [Requests -> Nat] /\ fault[r] = "none"
  BY LocalMoves DEF HandlerInv, TypeOK, WireStep, FaultAt
<1>s. \A e \in ServiceErrors : e \notin BeforeCall
  BY ConstantsAssumption DEF Codes, BeforeCall
<1>4. CASE ReadBody(r) \/ ParseQuery(r)
  <2>1. Phase(r) = "open" /\ Phase(r)' = "open" /\ UNCHANGED served
    BY <1>3, <1>4 DEF ReadBody, ParseQuery, Goto, Fail, Phase, BeforeCall
  <2>2. QED
    BY <1>1, <1>2, <2>1, MappedStutter
<1>5. CASE Decode(r)
  <2>1. Phase(r) = "open" /\ served[r] = 0
    BY <1>5 DEF Decode, Phase, WireStep, FaultAt
  <2>2. CASE UNCHANGED fault /\ (Goto(r, "interceptor") \/ Goto(r, "service"))
    <3>1. Phase(r)' = "calling"
      BY <1>3, <2>2 DEF Goto, Phase, BeforeCall
    <3>2. served' \in {served, [served EXCEPT ![r] = 1]}
      BY <1>3, <1>5, <2>1, <2>2 DEF Decode, Goto, Fail
    <3>3. /\ PhaseMap[r] = "open" /\ ReplyMap[r] = Exchange!NoReply
          /\ PhaseMap' = [PhaseMap EXCEPT ![r] = "calling"]
      BY <1>1, <1>2, <2>1, <3>1, ExchangeFrame
    <3>4. ReplyMap' = ReplyMap
      BY <1>1, <1>2, ExchangeFrame DEF ReplyMap
    <3>5. Exchange!Call(r)
      BY <3>2, <3>3, <3>4 DEF Exchange!Call, PhaseMap, ReplyMap
    <3>6. QED
      BY <3>5 DEF Mapped
  <2>3. CASE UNCHANGED served /\ \E f \in {"badInput", "badWire"} : Fail(r, f)
    <3>1. Phase(r)' = "open"
      BY <1>3, <2>3 DEF Goto, Fail, Phase, BeforeCall
    <3>2. QED
      BY <1>1, <1>2, <2>1, <2>3, <3>1, MappedStutter
  <2>4. QED
    BY <1>5, <2>2, <2>3 DEF Decode
<1>6. CASE CallService(r)
  <2>1. Phase(r) = "calling" /\ Phase(r)' = "calling"
    BY <1>3, <1>6 DEF CallService, Goto, Phase, BeforeCall
  <2>2. PhaseMap' = PhaseMap /\ ReplyMap' = ReplyMap
    BY <1>1, <1>2, <2>1, ExchangeFrame DEF PhaseMap, ReplyMap
  <2>3. PhaseMap[r] = "calling" /\ ReplyMap[r] = Exchange!NoReply
    BY <1>1, <1>2, <2>1, ExchangeFrame
  <2>4. Exchange!Serve(r)
    BY <1>6, <2>2, <2>3 DEF CallService, Exchange!Serve, PhaseMap, ReplyMap
  <2>5. QED
    BY <2>4 DEF Mapped
<1>7. CASE ServiceReturns(r) \/ InterceptorReturns(r) \/ Marshal(r)
  <2>1. /\ UNCHANGED served
        /\ pc[r] \in {"service", "interceptor", "marshal"}
        /\ \/ /\ UNCHANGED fault
              /\ \E step \in {"interceptor", "assert", "marshal", "reply"} : Goto(r, step)
           \/ \E e \in ServiceErrors \cup {"unmarshalable"} : Fail(r, e)
    BY <1>7 DEF ServiceReturns, InterceptorReturns, Marshal
  <2>2. Phase(r) = "calling"
    BY <1>3, <2>1 DEF Phase, BeforeCall
  <2>3. Phase(r)' = "calling"
    <3>1. CASE UNCHANGED fault /\ \E step \in {"interceptor", "assert", "marshal", "reply"} :
                                      Goto(r, step)
      BY <1>3, <3>1 DEF Goto, Phase, BeforeCall
    <3>2. CASE \E e \in ServiceErrors \cup {"unmarshalable"} : Fail(r, e)
      <4>1. pc'[r] = "error" /\ fault'[r] \notin BeforeCall
        BY <1>3, <1>s, <3>2 DEF Goto, Fail, BeforeCall
      <4>2. QED
        BY <4>1 DEF Phase
    <3>3. QED
      BY <2>1, <3>1, <3>2
  <2>4. QED
    BY <1>1, <1>2, <2>1, <2>2, <2>3, MappedStutter
<1>8. CASE AssertMessage(r) \/ Panic(r)
  <2>1. UNCHANGED served /\ Phase(r) = "calling"
    BY <1>3, <1>8 DEF AssertMessage, Panic, Running, Phase, BeforeCall
  <2>2. Phase(r)' = "calling" \/ Phase(r)' = "closed"
    BY <1>3, <1>8 DEF AssertMessage, Panic, Goto, Phase, BeforeCall
  <2>3. QED
    BY <1>1, <1>2, <2>1, <2>2, MappedStutter, MappedClose
<1>9. QED
  BY <1>4, <1>5, <1>6, <1>7, <1>8 DEF LocalStep

LEMMA MappedAccept ==
  ASSUME HandlerInv, NEW r \in Requests, WireStep(r), Accept(r)
  PROVE  Mapped(r)
<1>1. RequestStep(r) /\ pc[r] = "idle" /\ pc'[r] = "readBody" /\ fault[r] = "none"
  BY DEF RequestStep, Accept, Goto, HandlerInv, TypeOK, WireStep, FaultAt, Undisturbed
<1>2. UNCHANGED <<fault, served, wireStatus, body>>
  BY DEF Accept, callVars, wireVars
<1>3. Phase(r) = "idle" /\ Phase(r)' = "open" /\ Received(r)' = Received(r)
  BY <1>1, <1>2 DEF Phase, Received
<1>4. PhaseMap[r] = "idle" /\ PhaseMap' = [PhaseMap EXCEPT ![r] = "open"]
  BY <1>1, <1>3, ExchangeFrame
<1>5. ReplyMap' = ReplyMap
  BY <1>1, <1>3, ExchangeFrame DEF ReplyMap
<1>6. Exchange!Open(r)
  BY <1>2, <1>4, <1>5 DEF Exchange!Open, PhaseMap, ReplyMap
<1>7. QED
  BY <1>6 DEF Mapped

(* Calls on the stream, and what is prepared before a write.               *)
LEMMA MappedQuiet ==
  ASSUME HandlerInv, NEW r \in Requests,
         \/ SetHeader(r) \/ SendHeader(r) \/ SetTrailer(r)
         \/ Reply(r) \/ WriteTrailer(r) \/ ErrorResponse(r)
  PROVE  Mapped(r)
<1>1. RequestStep(r) /\ UNCHANGED <<fault, served, wireStatus, body>>
  BY DEF RequestStep, HandlerStep, ServiceStep, SetHeader, SendHeader, SetTrailer, Reply,
         WriteTrailer, ErrorResponse, callVars, wireVars
<1>2. CASE SetHeader(r) \/ SendHeader(r) \/ SetTrailer(r)
  <2>1. UNCHANGED pc
    BY <1>2 DEF SetHeader, SendHeader, SetTrailer
  <2>2. Phase(r)' = Phase(r) /\ Received(r)' = Received(r)
    BY <1>1, <2>1 DEF Phase, Received
  <2>3. QED
    BY <1>1, <2>2, MappedStutter
<1>3. CASE Reply(r) \/ WriteTrailer(r) \/ ErrorResponse(r)
  <2>1. /\ pc[r] \in {"reply", "trailers", "error"}
        /\ pc'[r] \in {"write", "finish", "statusBody", "textBody"}
    BY <1>3 DEF Reply, WriteTrailer, ErrorResponse, Goto, HandlerInv, TypeOK
  <2>2. Phase(r)' = Phase(r) /\ Received(r)' = Received(r)
    BY <1>1, <2>1 DEF Phase, Received
  <2>3. QED
    BY <1>1, <2>2, MappedStutter
<1>4. QED
  BY <1>2, <1>3

LEMMA MappedWriteBody ==
  ASSUME HandlerInv, NEW r \in Requests, WireStep(r), WriteBody(r), Agrees(r)'
  PROVE  Mapped(r)
<1>1. /\ RequestStep(r) /\ pc[r] = "write" /\ Active(r) /\ body[r] = <<>> /\ fault[r] = "none"
      /\ UNCHANGED served
  BY DEF RequestStep, HandlerStep, WriteBody, Active, HandlerInv, BodyByStep, WireStep,
         FaultAt, Undisturbed
<1>2. PICK ok \in BOOLEAN : /\ GinWrite(ctx[r], "response", ok)
                            /\ pc' = [pc EXCEPT ![r] = IF ok THEN "trailers" ELSE "error"]
                            /\ fault' = IF ok THEN fault
                                        ELSE [fault EXCEPT ![r] = "writeFailed"]
  BY DEF WriteBody, Goto, Fail
<1>3. body'[r] = IF ok THEN <<"response">> ELSE <<>>
  BY <1>1, <1>2, Written
<1>4. /\ pc'[r] = IF ok THEN "trailers" ELSE "error"
      /\ fault'[r] = IF ok THEN "none" ELSE "writeFailed"
  BY <1>1, <1>2 DEF HandlerInv, TypeOK
<1>5. Phase(r) = "calling" /\ Phase(r)' = "calling" /\ Received(r) = Exchange!NoReply
  BY <1>1, <1>4 DEF Phase, BeforeCall, Received, Exchange!NoReply
<1>6. CASE ok
  <2>1. body'[r] # <<>> /\ body'[r][1] = "response"
    BY <1>3, <1>6
  <2>2. wireStatus'[r] = 200
    BY <2>1 DEF Agrees
  <2>3. Received(r)' = [status |-> 200, doc |-> "response"]
    BY <2>1, <2>2 DEF Received
  <2>4. Received(r)' \in Exchange!Answers
    BY <2>3 DEF Exchange!Answers, Exchange!Legal
  <2>5. QED
    BY <1>1, <1>5, <2>4, MappedAnswer
<1>7. CASE ~ok
  <2>1. Received(r)' = Received(r)
    BY <1>1, <1>3, <1>7 DEF Received
  <2>2. QED
    BY <1>1, <1>5, <2>1, MappedStutter
<1>8. QED
  BY <1>6, <1>7

LEMMA MappedErrorBody ==
  ASSUME HandlerInv, NEW r \in Requests, WireStep(r), ErrorBody(r), Agrees(r)'
  PROVE  Mapped(r)
<1>1. /\ RequestStep(r) /\ pc[r] \in {"statusBody", "textBody"} /\ Active(r)
      /\ body[r] = <<>> /\ fault[r] # "none"
      /\ UNCHANGED <<fault, served>>
  BY DEF RequestStep, HandlerStep, ErrorBody, Active, HandlerInv, BodyByStep, WireStep,
         FaultAt, Failing, callVars
<1>2. PICK ok \in BOOLEAN, doc \in {"status", "text"} : GinWrite(ctx[r], doc, ok)
  BY DEF ErrorBody
<1>3. body'[r] = IF ok THEN <<doc>> ELSE <<>>
  BY <1>1, <1>2, Written
<1>4. pc'[r] = "finish"
  BY DEF ErrorBody, Goto, HandlerInv, TypeOK
<1>5. /\ Phase(r) \in {"open", "calling"} /\ Phase(r)' = Phase(r)
      /\ Received(r) = Exchange!NoReply
  BY <1>1, <1>4 DEF Phase, Received, Exchange!NoReply
<1>6. CASE ok
  <2>1. body'[r] # <<>> /\ body'[r][1] = doc
    BY <1>3, <1>6
  <2>2. wireStatus'[r] \in IntendedStatuses(fault'[r]) \/ wireStatus'[r] = 500
    BY <2>1 DEF Agrees
  <2>3. fault'[r] \in Faults
    BY <1>1 DEF HandlerInv, TypeOK
  <2>4. wireStatus'[r] \in 400..599
    BY <2>2, <2>3, IntendedAreErrors
  <2>5. Received(r)' = [status |-> wireStatus'[r], doc |-> doc]
    BY <2>1 DEF Received
  <2>6. Received(r)' \in Exchange!Answers /\ Received(r)'.doc # "response"
    BY <2>4, <2>5 DEF Exchange!Answers, Exchange!Legal
  <2>7. QED
    BY <1>1, <1>5, <2>6, MappedAnswer
<1>7. CASE ~ok
  <2>1. Received(r)' = Received(r)
    BY <1>1, <1>3, <1>7 DEF Received
  <2>2. QED
    BY <1>1, <1>5, <2>1, MappedStutter
<1>8. QED
  BY <1>6, <1>7

LEMMA MappedFinish ==
  ASSUME HandlerInv, NEW r \in Requests, WireStep(r), Finish(r)
  PROVE  Mapped(r)
<1>1. /\ RequestStep(r) /\ pc[r] = "finish" /\ pc'[r] = "done"
      /\ UNCHANGED <<fault, served, body>>
  BY DEF RequestStep, HandlerStep, Finish, Goto, HandlerInv, TypeOK, callVars
<1>2. body[r] # <<>> => wireStatus'[r] = wireStatus[r]
  BY <1>1, FinalStep DEF FinalAt, WireStep, WireAt
<1>3. Received(r)' = Received(r)
  BY <1>1, <1>2 DEF Received
<1>4. Phase(r) \in {"open", "calling"} /\ Phase(r)' = "closed"
  BY <1>1 DEF Phase
<1>5. QED
  BY <1>1, <1>3, <1>4, MappedClose

LEMMA ExchangeInit == Init => Exchange!Init
BY DEF Init, Exchange!Init, Phase, Received, Exchange!NoReply

LEMMA ExchangeNext ==
  HandlerInv /\ WireByStep /\ AnswerMatchesFault' /\ [Next]_vars => [Exchange!Next]_(Exchange!vars)
<1> SUFFICES ASSUME HandlerInv, WireByStep, AnswerMatchesFault', [Next]_vars
             PROVE  Exchange!Next \/ UNCHANGED <<PhaseMap, served, ReplyMap>>
  BY DEF Exchange!vars, PhaseMap, ReplyMap
<1>1. CASE UNCHANGED vars
  <2>1. UNCHANGED <<pc, fault, served, wireStatus, body>>
    BY <1>1 DEF vars, callVars, wireVars
  <2>2. QED
    BY <2>1 DEF PhaseMap, ReplyMap, Phase, Received
<1>2. ASSUME NEW r \in Requests, RequestStep(r)
      PROVE  Exchange!Next \/ UNCHANGED <<PhaseMap, served, ReplyMap>>
  <2>1. WireStep(r) /\ Agrees(r)'
    BY DEF WireByStep, WireStep, AnswerMatchesFault, Agrees
  <2>2. Mapped(r)
    BY <1>2, <2>1, MappedLocal, MappedAccept, MappedQuiet, MappedWriteBody, MappedErrorBody,
       MappedFinish
       DEF RequestStep, HandlerStep, ServiceStep, LocalStep
  <2>3. QED
    BY <2>2 DEF Mapped, Exchange!Next
<1>3. QED
  BY <1>1, <1>2 DEF Next, Quiescent, RequestStep

(* Every behaviour of the handler is one UnaryExchange allows: a request   *)
(* is opened, called at most as often as the interceptor asks, answered at *)
(* most once with a status that fits its document, and closed.             *)
THEOREM ImplementsExchange ==
  ASSUME Detached = {}
  PROVE  Spec => KeepsExchange
<1>1. Spec => []AnswerMatchesFault
  BY AnswersMatchFaults
<1>2. QED
  BY <1>1, ExchangeInit, ExchangeNext, HandlerInvariant, WireFollowsSteps, PTL
     DEF Spec, KeepsExchange, Exchange!Spec

-----------------------------------------------------------------------------
(* The order of Handler's steps; those of the service and its interceptors *)
(* are one place, where a request may go back and forth.                   *)
Place(s) ==
  CASE s = "idle" -> 0
    [] s = "readBody" -> 1
    [] s = "parseQuery" -> 2
    [] s = "decode" -> 3
    [] s \in Running -> 4
    [] s = "assert" -> 5
    [] s = "marshal" -> 6
    [] s = "reply" -> 7
    [] s = "write" -> 8
    [] s \in {"trailers", "error"} -> 9
    [] s \in {"statusBody", "textBody"} -> 10
    [] s = "finish" -> 11
    [] OTHER -> 12

(* A request only moves on, between the service and its interceptor alone  *)
(* back; the service is entered from the decoder or the interceptor; and   *)
(* what went wrong first stays what went wrong.                            *)
MovesOn ==
  \A r \in Requests :
    /\ \/ pc'[r] = pc[r]
       \/ Place(pc[r]) < Place(pc'[r])
       \/ pc[r] \in Running /\ pc'[r] \in Running
    /\ served'[r] # served[r] => pc[r] \in {"decode", "interceptor"} /\ pc'[r] = "service"
    /\ fault[r] # "none" => fault'[r] = fault[r]

(* The gateway's own steps leave their place for a later one.              *)
HandlerMovesOn == \A r \in Requests : HandlerStep(r) => Place(pc[r]) < Place(pc'[r])

LEMMA OthersStay ==
  ASSUME TypeOK, NEW r \in Requests, NEW q \in Requests \ {r}, NEW s, Goto(r, s)
  PROVE  pc'[q] = pc[q]
BY DEF Goto, TypeOK

LEMMA GoesTo ==
  ASSUME TypeOK, NEW r \in Requests, NEW s, Goto(r, s)
  PROVE  pc'[r] = s
BY DEF Goto, TypeOK

LEMMA FailsTo ==
  ASSUME TypeOK, NEW r \in Requests, NEW f, Fail(r, f)
  PROVE  /\ pc'[r] = "error"
         /\ \A q \in Requests \ {r} : pc'[q] = pc[q] /\ fault'[q] = fault[q]
BY DEF Fail, Goto, TypeOK

(* The steps of one request, by the places they lead to.                   *)
LEMMA HandlerStepOn ==
  ASSUME TypeOK, NEW r \in Requests, HandlerStep(r)
  PROVE  Place(pc[r]) < Place(pc'[r])
<1>1. CASE ReadBody(r)
  BY <1>1, GoesTo, FailsTo DEF ReadBody, Place, Running
<1>2. CASE ParseQuery(r)
  BY <1>2, GoesTo, FailsTo DEF ParseQuery, Place, Running
<1>3. CASE Decode(r)
  BY <1>3, GoesTo, FailsTo DEF Decode, Place, Running
<1>4. CASE AssertMessage(r)
  BY <1>4, GoesTo DEF AssertMessage, Place, Running
<1>5. CASE Marshal(r)
  BY <1>5, GoesTo, FailsTo DEF Marshal, Place, Running
<1>6. CASE Reply(r)
  BY <1>6, GoesTo DEF Reply, Place, Running
<1>7. CASE WriteBody(r)
  <2>1. pc[r] = "write" /\ (Goto(r, "trailers") \/ Fail(r, "writeFailed"))
    BY <1>7 DEF WriteBody
  <2>2. pc'[r] = "trailers" \/ pc'[r] = "error"
    BY <2>1, GoesTo, FailsTo
  <2>3. QED
    BY <2>1, <2>2 DEF Place, Running
<1>8. CASE WriteTrailer(r)
  BY <1>8, GoesTo DEF WriteTrailer, Place, Running
<1>9. CASE ErrorResponse(r)
  BY <1>9, GoesTo DEF ErrorResponse, Place, Running
<1>10. CASE ErrorBody(r)
  BY <1>10, GoesTo DEF ErrorBody, Place, Running
<1>11. CASE Finish(r)
  BY <1>11, GoesTo DEF Finish, Place, Running
<1>12. QED
  BY <1>1, <1>2, <1>3, <1>4, <1>5, <1>6, <1>7, <1>8, <1>9, <1>10, <1>11 DEF HandlerStep

LEMMA ServiceMovesOn ==
  ASSUME TypeOK, NEW r \in Requests,
         CallService(r) \/ ServiceReturns(r) \/ InterceptorReturns(r) \/ Panic(r)
  PROVE  \/ Place(pc[r]) < Place(pc'[r])
         \/ pc[r] \in Running /\ pc'[r] \in Running
<1>1. CASE CallService(r)
  BY <1>1, GoesTo DEF CallService, Running
<1>2. CASE ServiceReturns(r)
  BY <1>2, GoesTo, FailsTo DEF ServiceReturns, Place, Running
<1>3. CASE InterceptorReturns(r)
  BY <1>3, GoesTo, FailsTo DEF InterceptorReturns, Place, Running
<1>4. CASE Panic(r)
  BY <1>4, GoesTo DEF Panic, Place, Running
<1>5. QED
  BY <1>1, <1>2, <1>3, <1>4

(* What one request's step does to another request: nothing to where it    *)
(* is, how often it was served, or what went wrong with it.                *)
StaysPut(q) == pc'[q] = pc[q] /\ served'[q] = served[q] /\ fault'[q] = fault[q]

(* The step of a request that does not stand still.                        *)
Moved(r) ==
  /\ \A q \in Requests \ {r} : StaysPut(q)
  /\ served'[r] # served[r] => pc[r] \in {"decode", "interceptor"} /\ pc'[r] = "service"
  /\ fault[r] # "none" => fault'[r] = fault[r]

LEMMA RequestMoved ==
  ASSUME TypeOK, WireByStep, NEW r \in Requests,
         Accept(r) \/ HandlerStep(r) \/ ServiceStep(r)
  PROVE  Moved(r)
<1> USE DEF callVars
<1>1. served \in [Requests -> Nat] /\ fault \in [Requests -> Faults \cup {"none"}]
  BY DEF TypeOK
<1>2. pc[r] \in Undisturbed => fault[r] = "none"
  BY DEF WireByStep, FaultAt
<1>3. CASE Accept(r)
  BY <1>3, OthersStay DEF Accept, Moved, StaysPut
<1>4. CASE ReadBody(r)
  BY <1>1, <1>2, <1>4, OthersStay, FailsTo DEF ReadBody, Moved, StaysPut, Undisturbed
<1>5. CASE ParseQuery(r)
  BY <1>1, <1>2, <1>5, OthersStay, FailsTo DEF ParseQuery, Moved, StaysPut, Undisturbed
<1>6. CASE Decode(r)
  BY <1>1, <1>2, <1>6, OthersStay, GoesTo, FailsTo DEF Decode, Moved, StaysPut, Undisturbed
<1>7. CASE AssertMessage(r)
  BY <1>7, OthersStay DEF AssertMessage, Moved, StaysPut
<1>8. CASE Marshal(r)
  BY <1>1, <1>2, <1>8, OthersStay, FailsTo DEF Marshal, Moved, StaysPut, Undisturbed
<1>9. CASE Reply(r)
  BY <1>9, OthersStay DEF Reply, Moved, StaysPut
<1>10. CASE WriteBody(r)
  BY <1>1, <1>2, <1>10, OthersStay, FailsTo DEF WriteBody, Moved, StaysPut, Undisturbed
<1>11. CASE WriteTrailer(r)
  BY <1>11, OthersStay DEF WriteTrailer, Moved, StaysPut
<1>12. CASE ErrorResponse(r)
  BY <1>12, OthersStay DEF ErrorResponse, Moved, StaysPut
<1>13. CASE ErrorBody(r)
  BY <1>13, OthersStay DEF ErrorBody, Moved, StaysPut
<1>14. CASE Finish(r)
  BY <1>14, OthersStay DEF Finish, Moved, StaysPut
<1>15. CASE CallService(r)
  BY <1>1, <1>15, OthersStay, GoesTo DEF CallService, Moved, StaysPut
<1>16. CASE ServiceReturns(r)
  BY <1>1, <1>2, <1>16, OthersStay, FailsTo DEF ServiceReturns, Moved, StaysPut, Undisturbed
<1>17. CASE InterceptorReturns(r)
  BY <1>1, <1>2, <1>17, OthersStay, FailsTo
     DEF InterceptorReturns, Moved, StaysPut, Undisturbed
<1>18. CASE Panic(r)
  BY <1>18, OthersStay DEF Panic, Moved, StaysPut
<1>19. CASE SetHeader(r) \/ SendHeader(r) \/ SetTrailer(r)
  BY <1>19 DEF SetHeader, SendHeader, SetTrailer, Moved, StaysPut
<1>20. QED
  BY <1>3, <1>4, <1>5, <1>6, <1>7, <1>8, <1>9, <1>10, <1>11, <1>12, <1>13, <1>14, <1>15,
     <1>16, <1>17, <1>18, <1>19 DEF HandlerStep, ServiceStep

LEMMA NextMovesOn == TypeOK /\ WireByStep /\ [Next]_vars => [MovesOn]_vars
<1> SUFFICES ASSUME TypeOK, WireByStep, Next PROVE MovesOn
  BY DEF MovesOn
<1>1. CASE Quiescent
  BY <1>1 DEF Quiescent, MovesOn, vars, callVars
<1>2. ASSUME NEW r \in Requests, Accept(r) \/ HandlerStep(r) \/ ServiceStep(r)
      PROVE  MovesOn
  <2>1. Moved(r)
    BY <1>2, RequestMoved
  <2>2. \/ pc'[r] = pc[r]
        \/ Place(pc[r]) < Place(pc'[r])
        \/ pc[r] \in Running /\ pc'[r] \in Running
    <3>1. CASE Accept(r)
      BY <3>1, GoesTo DEF Accept, Place, Running
    <3>2. CASE HandlerStep(r)
      BY <3>2, HandlerStepOn
    <3>3. CASE SetHeader(r) \/ SendHeader(r) \/ SetTrailer(r)
      BY <3>3 DEF SetHeader, SendHeader, SetTrailer
    <3>4. CASE CallService(r) \/ ServiceReturns(r) \/ InterceptorReturns(r) \/ Panic(r)
      BY <3>4, ServiceMovesOn
    <3>5. QED
      BY <1>2, <3>1, <3>2, <3>3, <3>4 DEF ServiceStep
  <2>3. QED
    BY <2>1, <2>2 DEF Moved, StaysPut, MovesOn
<1>3. QED
  BY <1>1, <1>2 DEF Next

(* MovesOn, for any number of requests, calls of the service and faults:   *)
(* every error path of Handler returns, no step repeats, and what the      *)
(* client is answered is decided by the first fault.                       *)
THEOREM RequestsMoveOn == Spec => [][MovesOn]_vars
<1>1. QED
  BY TypeCorrect, WireFollowsSteps, NextMovesOn, PTL DEF Spec

(* HandlerMovesOn: outside its service a request can take at most ten      *)
(* steps (ginapi_handler.go:49-115).                                       *)
THEOREM HandlerGoesForward == Spec => [][HandlerMovesOn]_vars
<1>1. TypeOK /\ [Next]_vars => [HandlerMovesOn]_vars
  BY HandlerStepOn DEF HandlerMovesOn
<1>2. QED
  BY <1>1, TypeCorrect, PTL DEF Spec

=============================================================================
