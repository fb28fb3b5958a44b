-------------------------- MODULE GinHandler_proofs --------------------------
(***************************************************************************)
(* Theorems about GinHandler, for every set of requests and contexts, with *)
(* or without interceptors and detached goroutines.                        *)
(***************************************************************************)
EXTENDS GinHandler, SequenceTheorems, TLAPS

(* The data operators stay within their types.                             *)
LEMMA NamesTyped ==
  /\ \A k \in Keys : HeaderName(k) \in Name
  /\ \A k \in Keys : TrailerName(k) \in Name
  /\ \A k \in Keys : <<TrailerPrefix, k>> \in Name
BY DEF HeaderName, TrailerName, ToLower, TrailerPrefix, Prefixes, Name

LEMMA EmptyTyped == Empty \in HeaderMap
BY DEF Empty, HeaderMap

LEMMA AddAllTyped ==
  ASSUME NEW h \in HeaderMap, NEW md \in HeaderMap
  PROVE  AddAll(h, md) \in HeaderMap
<1>1. ASSUME NEW n \in Name
      PROVE  h[n] \o md[n] \in Seq(Value)
  <2>1. h[n] \in Seq(Value) /\ md[n] \in Seq(Value)
    BY DEF HeaderMap
  <2>2. QED
    BY <2>1
<1>2. QED
  BY <1>1 DEF AddAll, HeaderMap

LEMMA MDSetTyped ==
  ASSUME NEW md \in HeaderMap, NEW names, NEW v \in Value
  PROVE  MDSet(md, names, v) \in HeaderMap
<1>1. <<v>> \in Seq(Value)
  OBVIOUS
<1>2. QED
  BY <1>1 DEF MDSet, HeaderMap

LEMMA SetKeyTyped ==
  ASSUME NEW h \in HeaderMap, NEW n, NEW s \in Seq(Value)
  PROVE  [h EXCEPT ![n] = s] \in HeaderMap
BY DEF HeaderMap

LEMMA ContentTypesTyped == JSON \in Seq(Value) /\ Text \in Seq(Value)
<1>1. [by |-> Gateway, n |-> 1] \in Value /\ [by |-> Gateway, n |-> 2] \in Value
  BY DEF Value
<1>2. QED
  BY <1>1 DEF JSON, Text

LEMMA FinalTrailersTyped ==
  ASSUME NEW h \in HeaderMap
  PROVE  FinalTrailers(h) \in [Keys -> Seq(Value)]
BY NamesTyped DEF FinalTrailers, HeaderMap

(* Every status the gateway picks is 200 or an error status.               *)
LEMMA ErrorStatusTyped ==
  ASSUME NEW f \in Faults \cup {"none"}
  PROVE  ErrorStatus(ErrorOf(f)) \in {200} \cup 400..599
BY DEF ErrorStatus, ErrorOf, HTTPStatusFromCode, IsFreshMaxBytesError, Faults, Codes

-----------------------------------------------------------------------------
(* Type correctness.                                                       *)

LEMMA TypeInit == Init => TypeOK
<1> SUFFICES ASSUME Init PROVE TypeOK
  OBVIOUS
<1>1. [k \in Keys |-> <<>>] \in [Keys -> Seq(Value)]
  OBVIOUS
<1>2. QED
  BY <1>1, EmptyTyped, ConstantsAssumption DEF Init, TypeOK, Steps

(* The gin writer operators stay within the types of what they change.     *)
LEMMA WriteHeaderNowTyped ==
  ASSUME TypeOK, NEW c \in Contexts, GinWriteHeaderNow(c)
  PROVE  /\ written' \in [Contexts -> BOOLEAN]
         /\ wireStatus' \in [Requests -> {0, 200} \cup 400..599]
         /\ wireHeader' \in [Requests -> HeaderMap]
<1>1. written' \in [Contexts -> BOOLEAN]
  BY DEF TypeOK, GinWriteHeaderNow
<1>2. wireStatus' = wireStatus \/ wireStatus' = [wireStatus EXCEPT ![owner[c]] = status[c]]
  BY Zenon DEF GinWriteHeaderNow
<1>3. wireStatus' \in [Requests -> {0, 200} \cup 400..599]
  <2>1. status[c] \in {0, 200} \cup 400..599
    BY DEF TypeOK
  <2>2. wireStatus \in [Requests -> {0, 200} \cup 400..599]
    BY DEF TypeOK
  <2>3. QED
    BY <1>2, <2>1, <2>2
<1>4. \/ wireHeader' = wireHeader
      \/ wireHeader' = [wireHeader EXCEPT ![owner[c]] = header[owner[c]]]
  BY Zenon DEF GinWriteHeaderNow
<1>5. wireHeader' \in [Requests -> HeaderMap]
  <2>1. wireHeader \in [Requests -> HeaderMap] /\ header \in [Requests -> HeaderMap]
    BY DEF TypeOK
  <2>2. QED
    BY <1>4, <2>1
<1>6. QED
  BY <1>1, <1>3, <1>5

LEMMA GinWriteTyped ==
  ASSUME TypeOK, NEW c \in Contexts, NEW doc \in {"response", "status", "text"},
         NEW ok \in BOOLEAN, GinWrite(c, doc, ok)
  PROVE  /\ written' \in [Contexts -> BOOLEAN]
         /\ wireStatus' \in [Requests -> {0, 200} \cup 400..599]
         /\ wireHeader' \in [Requests -> HeaderMap]
         /\ body' \in [Requests -> Seq({"response", "status", "text"})]
         /\ broken' \in [Requests -> BOOLEAN]
<1>1. GinWriteHeaderNow(c)
  BY DEF GinWrite
<1>2. body' \in [Requests -> Seq({"response", "status", "text"})]
  <2>1. body' = body \/ body' = [body EXCEPT ![owner[c]] = Append(@, doc)]
    BY Zenon DEF GinWrite
  <2>2. body \in [Requests -> Seq({"response", "status", "text"})]
    BY DEF TypeOK
  <2>3. CASE owner[c] \in Requests
    <3>1. body[owner[c]] \in Seq({"response", "status", "text"})
      BY <2>2, <2>3
    <3>2. Append(body[owner[c]], doc) \in Seq({"response", "status", "text"})
      BY <3>1
    <3>3. QED
      BY <2>1, <2>2, <3>2
  <2>4. CASE owner[c] \notin Requests
    BY <2>1, <2>2, <2>4
  <2>5. QED
    BY <2>3, <2>4
<1>3. broken' \in [Requests -> BOOLEAN]
  BY DEF GinWrite, TypeOK
<1>4. QED
  BY <1>1, <1>2, <1>3, WriteHeaderNowTyped

LEMMA GinWriteHeaderTyped ==
  ASSUME TypeOK, NEW c, NEW code \in {200} \cup 400..599, GinWriteHeader(c, code)
  PROVE  status' \in [Contexts -> {200} \cup 400..599]
BY DEF GinWriteHeader, TypeOK

LEMMA GinSetHeaderTyped ==
  ASSUME TypeOK, NEW c, NEW k, NEW v \in Seq(Value), GinSetHeader(c, k, v)
  PROVE  header' \in [Requests -> HeaderMap]
<1>1. \A r \in Requests : [header[r] EXCEPT ![HeaderName(k)] = v] \in HeaderMap
  BY SetKeyTyped DEF TypeOK
<1>2. QED
  BY <1>1 DEF GinSetHeader, TypeOK

(* Moving a request on, and failing it.                                    *)
LEMMA GotoTyped ==
  ASSUME TypeOK, NEW r \in Requests, NEW step \in Steps, Goto(r, step)
  PROVE  pc' \in [Requests -> Steps]
BY DEF Goto, TypeOK

LEMMA FailTyped ==
  ASSUME TypeOK, NEW r \in Requests, NEW f \in Faults, Fail(r, f)
  PROVE  /\ pc' \in [Requests -> Steps]
         /\ fault' \in [Requests -> Faults \cup {"none"}]
<1>1. "error" \in Steps
  BY DEF Steps
<1>2. pc' \in [Requests -> Steps]
  BY <1>1, GotoTyped DEF Fail
<1>3. fault' \in [Requests -> Faults \cup {"none"}]
  BY DEF Fail, TypeOK
<1>4. QED
  BY <1>2, <1>3

(* The steps of a request that change neither its stream, the pool, a      *)
(* writer nor the wire.                                                    *)
LocalStep(r) ==
  \/ ReadBody(r) \/ ParseQuery(r) \/ Decode(r) \/ CallService(r)
  \/ ServiceReturns(r) \/ InterceptorReturns(r) \/ AssertMessage(r)
  \/ Panic(r) \/ Marshal(r)

LEMMA LocalStepEffect ==
  ASSUME NEW r \in Requests, LocalStep(r)
  PROVE  /\ UNCHANGED <<ctx, headers, trailers, calls, pool, owner, status,
                        written, header, wireStatus, wireHeader, wireTrailer, body,
                        broken>>
         /\ \/ \E step \in Steps \ {"idle", "trailers", "finish", "done"} :
                 Goto(r, step) /\ UNCHANGED fault
            \/ \E f \in Faults : Fail(r, f)
         /\ served' = served \/ served' = [served EXCEPT ![r] = @ + 1]
         /\ pc[r] \notin {"idle", "trailers", "finish", "done", "panicked"}
<1> USE DEF callVars, streamVars, ginVars, wireVars
<1>s. ServiceErrors \subseteq Faults
  BY ConstantsAssumption DEF Faults
<1>1. CASE ReadBody(r)
  BY <1>1 DEF ReadBody, Steps, Faults
<1>2. CASE ParseQuery(r)
  BY <1>2 DEF ParseQuery, Steps, Faults
<1>3. CASE Decode(r)
  BY <1>3 DEF Decode, Steps, Faults
<1>4. CASE CallService(r)
  BY <1>4 DEF CallService, Steps
<1>5. CASE ServiceReturns(r)
  BY <1>5, <1>s DEF ServiceReturns, Steps
<1>6. CASE InterceptorReturns(r)
  BY <1>6, <1>s DEF InterceptorReturns, Steps
<1>7. CASE AssertMessage(r)
  BY <1>7 DEF AssertMessage, Steps
<1>8. CASE Panic(r)
  BY <1>8 DEF Panic, Running, Steps
<1>9. CASE Marshal(r)
  BY <1>9 DEF Marshal, Steps, Faults
<1>10. QED
  BY <1>1, <1>2, <1>3, <1>4, <1>5, <1>6, <1>7, <1>8, <1>9 DEF LocalStep

LEMMA TypeLocalStep ==
  ASSUME TypeOK, NEW r \in Requests, LocalStep(r)
  PROVE  TypeOK'
<1>1. pc' \in [Requests -> Steps] /\ fault' \in [Requests -> Faults \cup {"none"}]
  <2>1. CASE \E step \in Steps : Goto(r, step) /\ UNCHANGED fault
    BY <2>1, GotoTyped DEF TypeOK
  <2>2. CASE \E f \in Faults : Fail(r, f)
    BY <2>2, FailTyped
  <2>3. QED
    BY <2>1, <2>2, LocalStepEffect
<1>2. served' = served \/ served' = [served EXCEPT ![r] = @ + 1]
  BY LocalStepEffect
<1>3. served' \in [Requests -> Nat]
  <2>1. served \in [Requests -> Nat] /\ served[r] + 1 \in Nat
    BY DEF TypeOK
  <2>2. QED
    BY <1>2, <2>1
<1>4. UNCHANGED <<ctx, headers, trailers, calls, pool, owner, status, written,
                  header, wireStatus, wireHeader, wireTrailer, body, broken>>
  BY LocalStepEffect, Zenon
<1>5. QED
  BY <1>1, <1>3, <1>4 DEF TypeOK

LEMMA TypeAccept ==
  ASSUME TypeOK, NEW r \in Requests, Accept(r)
  PROVE  TypeOK'
<1>1. pc' \in [Requests -> Steps]
  BY GotoTyped DEF Accept, Steps
<1>2. PICK c \in pool :
        /\ pool' = pool \ {c}
        /\ ctx' = [ctx EXCEPT ![r] = c]
        /\ owner' = [owner EXCEPT ![c] = r]
        /\ status' = [status EXCEPT ![c] = 200]
        /\ written' = [written EXCEPT ![c] = FALSE]
  BY DEF Accept
<1>3. UNCHANGED <<fault, served, headers, trailers, calls, header, wireStatus,
                  wireHeader, wireTrailer, body, broken>>
  BY DEF Accept, callVars, streamVars, wireVars
<1>4. /\ pool' \subseteq Contexts
      /\ ctx' \in [Requests -> Contexts \cup {NoContext}]
      /\ owner' \in [Contexts -> Requests \cup {Gateway}]
      /\ status' \in [Contexts -> {200} \cup 400..599]
      /\ written' \in [Contexts -> BOOLEAN]
  BY <1>2 DEF TypeOK
<1>5. QED
  BY <1>1, <1>3, <1>4 DEF TypeOK

LEMMA TypeReply ==
  ASSUME TypeOK, NEW r \in Requests, Reply(r), ctx[r] \in Contexts
  PROVE  TypeOK'
<1>1. pc' \in [Requests -> Steps]
  BY GotoTyped DEF Reply, Steps
<1>2. status' \in [Contexts -> {200} \cup 400..599]
  BY GinWriteHeaderTyped DEF Reply
<1>3. header' \in [Requests -> HeaderMap]
  <2>1. \A h \in HeaderMap :
          AddAll([h EXCEPT ![HeaderName(ContentType)] = JSON], headers[r]) \in HeaderMap
    BY SetKeyTyped, ContentTypesTyped, AddAllTyped DEF TypeOK
  <2>2. header \in [Requests -> HeaderMap]
    BY DEF TypeOK
  <2>3. header' = [header EXCEPT ![owner[ctx[r]]] =
                     AddAll([@ EXCEPT ![HeaderName(ContentType)] = JSON], headers[r])]
    BY DEF Reply
  <2>4. QED
    BY <2>1, <2>2, <2>3
<1>4. UNCHANGED <<ctx, fault, served, headers, trailers, calls, pool, owner, written,
                  wireStatus, wireHeader, wireTrailer, body, broken>>
  BY DEF Reply, callVars, streamVars, wireVars
<1>5. QED
  BY <1>1, <1>2, <1>3, <1>4 DEF TypeOK

LEMMA TypeWriteBody ==
  ASSUME TypeOK, NEW r \in Requests, WriteBody(r), ctx[r] \in Contexts
  PROVE  TypeOK'
<1>1. PICK ok \in BOOLEAN : GinWrite(ctx[r], "response", ok)
  BY DEF WriteBody
<1>2. \/ Goto(r, "trailers") /\ UNCHANGED fault
      \/ Fail(r, "writeFailed")
  BY DEF WriteBody
<1>3. pc' \in [Requests -> Steps] /\ fault' \in [Requests -> Faults \cup {"none"}]
  <2>1. CASE Goto(r, "trailers") /\ UNCHANGED fault
    BY <2>1, GotoTyped DEF TypeOK, Steps
  <2>2. CASE Fail(r, "writeFailed")
    BY <2>2, FailTyped DEF Faults
  <2>3. QED
    BY <1>2, <2>1, <2>2
<1>4. /\ written' \in [Contexts -> BOOLEAN]
      /\ wireStatus' \in [Requests -> {0, 200} \cup 400..599]
      /\ wireHeader' \in [Requests -> HeaderMap]
      /\ body' \in [Requests -> Seq({"response", "status", "text"})]
      /\ broken' \in [Requests -> BOOLEAN]
  BY <1>1, GinWriteTyped
<1>5. UNCHANGED <<owner, status>>
  BY <1>1 DEF GinWrite
<1>6. UNCHANGED <<ctx, served, headers, trailers, calls, pool, header, wireTrailer>>
  BY DEF WriteBody, streamVars
<1>7. QED
  BY <1>3, <1>4, <1>5, <1>6 DEF TypeOK

LEMMA TypeWriteTrailer ==
  ASSUME TypeOK, NEW r \in Requests, WriteTrailer(r)
  PROVE  TypeOK'
<1>1. pc' \in [Requests -> Steps]
  BY GotoTyped DEF WriteTrailer, Steps
<1>2. header' \in [Requests -> HeaderMap]
  <2>1. \A h \in HeaderMap : AddAll(h, trailers[r]) \in HeaderMap
    BY AddAllTyped DEF TypeOK
  <2>2. header \in [Requests -> HeaderMap]
    BY DEF TypeOK
  <2>3. header' = [header EXCEPT ![owner[ctx[r]]] = AddAll(@, trailers[r])]
    BY DEF WriteTrailer
  <2>4. QED
    BY <2>1, <2>2, <2>3
<1>3. UNCHANGED <<ctx, fault, served, headers, trailers, calls, pool, owner, status,
                  written, wireStatus, wireHeader, wireTrailer, body, broken>>
  BY DEF WriteTrailer, callVars, streamVars, wireVars, ginVars
<1>4. QED
  BY <1>1, <1>2, <1>3 DEF TypeOK

LEMMA TypeErrorResponse ==
  ASSUME TypeOK, NEW r \in Requests, ErrorResponse(r)
  PROVE  TypeOK'
<1>1. pc' \in [Requests -> Steps]
  BY GotoTyped DEF ErrorResponse, Steps
<1>2. ErrorStatus(ErrorOf(fault[r])) \in {200} \cup 400..599
  BY ErrorStatusTyped DEF TypeOK
<1>3. status' \in [Contexts -> {200} \cup 400..599]
  <2>1. PICK code \in {200} \cup 400..599 : GinWriteHeader(ctx[r], code)
    BY <1>2 DEF ErrorResponse
  <2>2. QED
    BY <2>1, GinWriteHeaderTyped
<1>4. header' \in [Requests -> HeaderMap]
  BY GinSetHeaderTyped, ContentTypesTyped DEF ErrorResponse
<1>5. UNCHANGED <<ctx, fault, served, headers, trailers, calls, pool, owner, written,
                  wireStatus, wireHeader, wireTrailer, body, broken>>
  BY DEF ErrorResponse, callVars, streamVars, wireVars
<1>6. QED
  BY <1>1, <1>3, <1>4, <1>5 DEF TypeOK

LEMMA TypeErrorBody ==
  ASSUME TypeOK, NEW r \in Requests, ErrorBody(r), ctx[r] \in Contexts
  PROVE  TypeOK'
<1>1. pc' \in [Requests -> Steps]
  BY GotoTyped DEF ErrorBody, Steps
<1>2. PICK doc \in {"status", "text"}, ok \in BOOLEAN : GinWrite(ctx[r], doc, ok)
  BY DEF ErrorBody
<1>3. /\ written' \in [Contexts -> BOOLEAN]
      /\ wireStatus' \in [Requests -> {0, 200} \cup 400..599]
      /\ wireHeader' \in [Requests -> HeaderMap]
      /\ body' \in [Requests -> Seq({"response", "status", "text"})]
      /\ broken' \in [Requests -> BOOLEAN]
  BY <1>2, GinWriteTyped
<1>4. UNCHANGED <<owner, status>>
  BY <1>2 DEF GinWrite
<1>5. UNCHANGED <<ctx, fault, served, headers, trailers, calls, pool, header,
                  wireTrailer>>
  BY DEF ErrorBody, callVars, streamVars
<1>6. QED
  BY <1>1, <1>3, <1>4, <1>5 DEF TypeOK

LEMMA TypeFinish ==
  ASSUME TypeOK, NEW r \in Requests, Finish(r), ctx[r] \in Contexts
  PROVE  TypeOK'
<1>1. pc' \in [Requests -> Steps]
  BY GotoTyped DEF Finish, Steps
<1>2. /\ written' \in [Contexts -> BOOLEAN]
      /\ wireStatus' \in [Requests -> {0, 200} \cup 400..599]
      /\ wireHeader' \in [Requests -> HeaderMap]
  BY WriteHeaderNowTyped DEF Finish
<1>3. wireTrailer' \in [Requests -> [Keys -> Seq(Value)]]
  <2>1. FinalTrailers(header[r]) \in [Keys -> Seq(Value)]
    BY FinalTrailersTyped DEF TypeOK
  <2>2. wireTrailer' = wireTrailer \/ wireTrailer' = [wireTrailer EXCEPT ![r] = FinalTrailers(header[r])]
    <3>1. wireTrailer \in [Requests -> [Keys -> Seq(Value)]]
      BY DEF TypeOK
    <3>2. CASE broken[r]
      BY <3>1, <3>2 DEF Finish
    <3>3. CASE ~broken[r]
      BY <3>3, Zenon DEF Finish
    <3>4. QED
      BY <3>2, <3>3
  <2>3. wireTrailer \in [Requests -> [Keys -> Seq(Value)]]
    BY DEF TypeOK
  <2>4. QED
    BY <2>1, <2>2, <2>3
<1>4. pool' \subseteq Contexts
  BY DEF TypeOK, Finish
<1>5. UNCHANGED <<ctx, fault, served, headers, trailers, calls, owner, status, header,
                  body, broken>>
  BY DEF Finish, callVars, streamVars
<1>6. QED
  BY <1>1, <1>2, <1>3, <1>4, <1>5 DEF TypeOK

(* A call on the stream, of a running service or of a goroutine it left.   *)
LEMMA TypeCalls ==
  ASSUME TypeOK, NEW r \in Requests, NEW ks \in SUBSET Keys,
         NEW op \in {"SetHeader", "SendHeader", "SetTrailer"}, Record(r, op, ks)
  PROVE  calls' \in [Requests -> Seq(Call)]
<1>1. calls \in [Requests -> Seq(Call)]
  BY DEF TypeOK
<1>2. [op |-> op, keys |-> ks] \in Call
  BY DEF Call
<1>3. Append(calls[r], [op |-> op, keys |-> ks]) \in Seq(Call)
  BY <1>1, <1>2, AppendProperties
<1>4. QED
  BY <1>1, <1>3 DEF Record

LEMMA NewValueTyped ==
  ASSUME TypeOK, NEW r \in Requests
  PROVE  NewValue(r) \in Value
<1>1. calls[r] \in Seq(Call)
  BY DEF TypeOK
<1>2. Len(calls[r]) + 1 \in Nat
  BY <1>1, LenProperties
<1>3. QED
  BY <1>2 DEF NewValue, Value

LEMMA TypeSetHeader ==
  ASSUME TypeOK, NEW r \in Requests, SetHeader(r)
  PROVE  TypeOK'
<1>1. PICK ks \in SUBSET Keys :
        /\ headers' = [headers EXCEPT ![r] = MDSet(@, Names(ks), NewValue(r))]
        /\ Record(r, "SetHeader", ks)
  BY DEF SetHeader
<1>2. headers' \in [Requests -> HeaderMap]
  <2>1. headers \in [Requests -> HeaderMap]
    BY DEF TypeOK
  <2>2. MDSet(headers[r], Names(ks), NewValue(r)) \in HeaderMap
    BY <2>1, NewValueTyped, MDSetTyped
  <2>3. QED
    BY <1>1, <2>1, <2>2
<1>3. calls' \in [Requests -> Seq(Call)]
  BY <1>1, TypeCalls
<1>4. UNCHANGED <<pc, ctx, fault, served, trailers, pool, owner, status, written,
                  header, wireStatus, wireHeader, wireTrailer, body, broken>>
  BY DEF SetHeader, callVars, ginVars, wireVars
<1>5. QED
  BY <1>2, <1>3, <1>4 DEF TypeOK

LEMMA TypeSetTrailer ==
  ASSUME TypeOK, NEW r \in Requests, SetTrailer(r)
  PROVE  TypeOK'
<1>1. PICK ks \in SUBSET Keys :
        /\ trailers' = [trailers EXCEPT
                          ![r] = MDSet(@, {TrailerName(k) : k \in ks}, NewValue(r))]
        /\ Record(r, "SetTrailer", ks)
  BY DEF SetTrailer
<1>2. trailers' \in [Requests -> HeaderMap]
  <2>1. trailers \in [Requests -> HeaderMap]
    BY DEF TypeOK
  <2>2. MDSet(trailers[r], {TrailerName(k) : k \in ks}, NewValue(r)) \in HeaderMap
    BY <2>1, NewValueTyped, MDSetTyped
  <2>3. QED
    BY <1>1, <2>1, <2>2
<1>3. calls' \in [Requests -> Seq(Call)]
  BY <1>1, TypeCalls
<1>4. UNCHANGED <<pc, ctx, fault, served, headers, pool, owner, status, written,
                  header, wireStatus, wireHeader, wireTrailer, body, broken>>
  BY DEF SetTrailer, callVars, ginVars, wireVars
<1>5. QED
  BY <1>2, <1>3, <1>4 DEF TypeOK

LEMMA TypeSendHeader ==
  ASSUME TypeOK, NEW r \in Requests, SendHeader(r)
  PROVE  TypeOK'
<1>1. PICK ks \in SUBSET Keys :
        LET md == MDSet(headers[r], Names(ks), NewValue(r)) IN
        /\ headers' = [headers EXCEPT ![r] = md]
        /\ header' = [header EXCEPT ![owner[ctx[r]]] = AddAll(@, md)]
        /\ Record(r, "SendHeader", ks)
  BY DEF SendHeader
<1>2. headers' \in [Requests -> HeaderMap] /\ header' \in [Requests -> HeaderMap]
  <2>1. headers \in [Requests -> HeaderMap] /\ header \in [Requests -> HeaderMap]
    BY DEF TypeOK
  <2>2. MDSet(headers[r], Names(ks), NewValue(r)) \in HeaderMap
    BY <2>1, NewValueTyped, MDSetTyped
  <2>3. \A h \in HeaderMap :
          AddAll(h, MDSet(headers[r], Names(ks), NewValue(r))) \in HeaderMap
    BY <2>2, AddAllTyped
  <2>4. QED
    BY <1>1, <2>1, <2>2, <2>3
<1>3. status' \in [Contexts -> {200} \cup 400..599]
  BY GinWriteHeaderTyped DEF SendHeader
<1>4. calls' \in [Requests -> Seq(Call)]
  BY <1>1, TypeCalls
<1>5. UNCHANGED <<pc, ctx, fault, served, trailers, pool, owner, written, wireStatus,
                  wireHeader, wireTrailer, body, broken>>
  BY DEF SendHeader, callVars, wireVars
<1>6. QED
  BY <1>2, <1>3, <1>4, <1>5 DEF TypeOK

-----------------------------------------------------------------------------
(* The inductive invariant: contexts are exclusive, bodies follow the step. *)

ContextInv == Assigned /\ ExclusiveContext
Moving == Steps \ {"idle", "trailers", "finish", "done", "panicked"}

(* A step that leaves the pool alone and makes no request active keeps the *)
(* contexts apart.                                                         *)
LEMMA ContextsKept ==
  ASSUME ContextInv, UNCHANGED <<ctx, pool, owner>>,
         \A q \in Requests : /\ pc'[q] # "idle" => pc[q] # "idle"
                             /\ Active(q)' => Active(q)
  PROVE  ContextInv'
BY DEF ContextInv, Assigned, ExclusiveContext

(* Steps that move a request on without writing.                           *)
LEMMA QuietStep ==
  ASSUME TypeOK, ContextInv, BodyByStep, NEW r \in Requests, pc[r] \in Moving,
         NEW step \in Moving \cup {"panicked"}, Goto(r, step),
         UNCHANGED <<ctx, pool, owner, body, broken>>
  PROVE  ContextInv' /\ BodyByStep'
<1>1. pc' = [pc EXCEPT ![r] = step] /\ pc \in [Requests -> Steps]
  BY DEF Goto, TypeOK
<1>2. \A q \in Requests : pc'[q] = IF q = r THEN step ELSE pc[q]
  BY <1>1
<1>3. ContextInv'
  BY <1>2, ContextsKept DEF Active, Moving
<1>4. BodyByStep'
  BY <1>2 DEF BodyByStep, Moving
<1>5. QED
  BY <1>3, <1>4

LEMMA InvLocalStep ==
  ASSUME HandlerInv, NEW r \in Requests, LocalStep(r)
  PROVE  HandlerInv'
<1>1. TypeOK'
  BY TypeLocalStep DEF HandlerInv
<1>2. PICK step \in Moving \cup {"panicked"} : Goto(r, step)
  <2>1. CASE \E step \in Steps \ {"idle", "trailers", "finish", "done"} : Goto(r, step)
    BY <2>1 DEF Moving
  <2>2. CASE \E f \in Faults : Fail(r, f)
    BY <2>2 DEF Fail, Moving, Steps
  <2>3. QED
    BY <2>1, <2>2, LocalStepEffect
<1>3. pc[r] \in Moving
  BY LocalStepEffect DEF HandlerInv, TypeOK, Moving
<1>4. UNCHANGED <<ctx, pool, owner, body, broken>>
  BY LocalStepEffect, Zenon
<1>5. QED
  BY <1>1, <1>2, <1>3, <1>4, QuietStep DEF HandlerInv, ContextInv

LEMMA InvReply ==
  ASSUME HandlerInv, NEW r \in Requests, Reply(r)
  PROVE  HandlerInv'
<1>1. ctx[r] \in Contexts
  BY DEF HandlerInv, Assigned, Reply
<1>2. TypeOK'
  BY <1>1, TypeReply DEF HandlerInv
<1>3. /\ pc[r] \in Moving
      /\ "write" \in Moving
      /\ Goto(r, "write")
      /\ UNCHANGED <<ctx, pool, owner, body, broken>>
  BY DEF Reply, Moving, Steps, wireVars
<1>4. QED
  BY <1>2, <1>3, QuietStep DEF HandlerInv, ContextInv

LEMMA InvErrorResponse ==
  ASSUME HandlerInv, NEW r \in Requests, ErrorResponse(r)
  PROVE  HandlerInv'
<1>1. TypeOK'
  BY TypeErrorResponse DEF HandlerInv
<1>2. PICK step \in {"statusBody", "textBody"} : Goto(r, step)
  BY DEF ErrorResponse
<1>3. /\ pc[r] \in Moving
      /\ step \in Moving
      /\ UNCHANGED <<ctx, pool, owner, body, broken>>
  BY DEF ErrorResponse, Moving, Steps, wireVars
<1>4. QED
  BY <1>1, <1>2, <1>3, QuietStep DEF HandlerInv, ContextInv

(* Calls on the stream, late ones included, touch neither.                 *)
LEMMA InvStreamCall ==
  ASSUME HandlerInv, NEW r \in Requests, SetHeader(r) \/ SendHeader(r) \/ SetTrailer(r)
  PROVE  HandlerInv'
<1>1. TypeOK'
  BY TypeSetHeader, TypeSendHeader, TypeSetTrailer DEF HandlerInv
<1>2. UNCHANGED <<pc, ctx, pool, owner, body, broken>>
  BY DEF SetHeader, SendHeader, SetTrailer, ginVars, wireVars
<1>3. ContextInv'
  BY <1>2, ContextsKept DEF HandlerInv, ContextInv, Active
<1>4. BodyByStep'
  BY <1>2 DEF HandlerInv, BodyByStep
<1>5. QED
  BY <1>1, <1>3, <1>4 DEF HandlerInv, ContextInv

(* The context taken from the pool is nobody else's.                       *)
LEMMA InvAccept ==
  ASSUME HandlerInv, NEW r \in Requests, Accept(r)
  PROVE  HandlerInv'
<1>1. TypeOK'
  BY TypeAccept DEF HandlerInv
<1>2. PICK c \in pool :
        /\ pool' = pool \ {c}
        /\ ctx' = [ctx EXCEPT ![r] = c]
        /\ owner' = [owner EXCEPT ![c] = r]
  BY DEF Accept
<1>3. /\ pc[r] = "idle"
      /\ pc' = [pc EXCEPT ![r] = "readBody"]
      /\ UNCHANGED <<body, broken>>
  BY DEF Accept, Goto, wireVars
<1>4. /\ pc \in [Requests -> Steps]
      /\ ctx \in [Requests -> Contexts \cup {NoContext}]
      /\ owner \in [Contexts -> Requests \cup {Gateway}]
      /\ c \in Contexts
  BY DEF HandlerInv, TypeOK
<1>5. /\ ctx'[r] = c
      /\ owner'[c] = r
      /\ \A q \in Requests \ {r} : pc'[q] = pc[q] /\ ctx'[q] = ctx[q]
  BY <1>2, <1>3, <1>4
<1>6. Assigned'
  BY <1>3, <1>4, <1>5 DEF HandlerInv, Assigned
<1>7. ASSUME NEW q \in Requests \ {r}, Active(q)'
      PROVE  ctx'[q] \notin pool' /\ owner'[ctx'[q]] = q /\ ctx'[q] # c
  <2>1. Active(q)
    BY <1>5, <1>7 DEF Active
  <2>2. ctx[q] \notin pool /\ owner[ctx[q]] = q /\ ctx[q] # c
    BY <2>1 DEF HandlerInv, ExclusiveContext
  <2>3. ctx[q] \in Contexts
    BY <2>1 DEF HandlerInv, Assigned, Active
  <2>4. QED
    BY <1>2, <1>4, <1>5, <2>2, <2>3
<1>8. ASSUME NEW p \in Requests \ {r}, NEW q \in Requests \ {r}, p # q,
             Active(p)', Active(q)'
      PROVE  ctx'[p] # ctx'[q]
  BY <1>5, <1>8 DEF HandlerInv, ExclusiveContext, Active
<1>9. ExclusiveContext'
  BY <1>2, <1>5, <1>7, <1>8 DEF ExclusiveContext
<1>10. BodyByStep'
  BY <1>3, <1>5 DEF HandlerInv, BodyByStep
<1>11. QED
  BY <1>1, <1>6, <1>9, <1>10 DEF HandlerInv

(* What one write does to the bodies, once the writer is known to be the   *)
(* request's own.                                                          *)
LEMMA WriteEffect ==
  ASSUME HandlerInv, NEW r \in Requests, Active(r), NEW doc, NEW ok \in BOOLEAN,
         GinWrite(ctx[r], doc, ok), body[r] = <<>>
  PROVE  /\ \A q \in Requests \ {r} : body'[q] = body[q] /\ broken'[q] = broken[q]
         /\ broken'[r] \/ Len(body'[r]) = 1
         /\ Len(body'[r]) <= 1
         /\ ok => Len(body'[r]) = 1
         /\ ~ok => body'[r] = <<>>
<1>1. owner[ctx[r]] = r
  BY DEF HandlerInv, ExclusiveContext
<1>2. body \in [Requests -> Seq({"response", "status", "text"})]
  BY DEF HandlerInv, TypeOK
<1>3. broken \in [Requests -> BOOLEAN]
  BY DEF HandlerInv, TypeOK
<1>4. broken' = [broken EXCEPT ![r] = ~ok]
  BY <1>1, Zenon DEF GinWrite
<1>b. \A q \in Requests \ {r} : broken'[q] = broken[q]
  BY <1>3, <1>4
<1>5. CASE ok
  <2>1. body' = [body EXCEPT ![r] = Append(@, doc)]
    BY <1>1, <1>5, Zenon DEF GinWrite
  <2>2. body'[r] = Append(<<>>, doc)
    BY <1>2, <2>1
  <2>3. Len(body'[r]) = 1
    BY <2>2
  <2>4. \A q \in Requests \ {r} : body'[q] = body[q]
    BY <1>2, <2>1
  <2>5. QED
    BY <1>b, <1>5, <2>3, <2>4
<1>6. CASE ~ok
  <2>1. body' = body
    BY <1>6, Zenon DEF GinWrite
  <2>2. broken'[r] = TRUE
    BY <1>3, <1>4, <1>6
  <2>3. QED
    BY <1>b, <1>6, <2>1, <2>2
<1>7. QED
  BY <1>5, <1>6

LEMMA InvWriteBody ==
  ASSUME HandlerInv, NEW r \in Requests, WriteBody(r)
  PROVE  HandlerInv'
<1>1. pc[r] = "write" /\ Active(r) /\ body[r] = <<>> /\ ctx[r] \in Contexts
  BY DEF WriteBody, Active, HandlerInv, BodyByStep, Assigned
<1>2. TypeOK'
  BY <1>1, TypeWriteBody DEF HandlerInv
<1>3. PICK ok \in BOOLEAN : /\ GinWrite(ctx[r], "response", ok)
                            /\ pc' = [pc EXCEPT ![r] = IF ok THEN "trailers" ELSE "error"]
  BY DEF WriteBody, Goto, Fail
<1>4. pc \in [Requests -> Steps]
  BY DEF HandlerInv, TypeOK
<1>5. UNCHANGED <<ctx, pool, owner>>
  BY <1>3 DEF WriteBody, GinWrite
<1>6. /\ \A q \in Requests \ {r} : pc'[q] = pc[q]
      /\ pc'[r] = IF ok THEN "trailers" ELSE "error"
  BY <1>3, <1>4
<1>7. ContextInv'
  BY <1>1, <1>5, <1>6, ContextsKept DEF HandlerInv, ContextInv, Active
<1>8. /\ \A q \in Requests \ {r} : body'[q] = body[q] /\ broken'[q] = broken[q]
      /\ Len(body'[r]) <= 1
      /\ ok => Len(body'[r]) = 1
      /\ ~ok => body'[r] = <<>>
  BY <1>1, <1>3, WriteEffect
<1>9. BodyByStep'
  BY <1>6, <1>8 DEF HandlerInv, BodyByStep
<1>10. QED
  BY <1>2, <1>7, <1>9 DEF HandlerInv, ContextInv

LEMMA InvErrorBody ==
  ASSUME HandlerInv, NEW r \in Requests, ErrorBody(r)
  PROVE  HandlerInv'
<1>1. Active(r) /\ body[r] = <<>> /\ ctx[r] \in Contexts
  BY DEF ErrorBody, Active, HandlerInv, BodyByStep, Assigned
<1>2. TypeOK'
  BY <1>1, TypeErrorBody DEF HandlerInv
<1>3. PICK doc \in {"status", "text"}, ok \in BOOLEAN : GinWrite(ctx[r], doc, ok)
  BY DEF ErrorBody
<1>4. pc \in [Requests -> Steps] /\ pc' = [pc EXCEPT ![r] = "finish"]
  BY DEF HandlerInv, TypeOK, ErrorBody, Goto
<1>5. UNCHANGED <<ctx, pool, owner>>
  BY <1>3 DEF ErrorBody, GinWrite
<1>6. pc'[r] = "finish" /\ \A q \in Requests \ {r} : pc'[q] = pc[q]
  BY <1>4
<1>7. ContextInv'
  BY <1>1, <1>5, <1>6, ContextsKept DEF HandlerInv, ContextInv, Active
<1>8. /\ \A q \in Requests \ {r} : body'[q] = body[q] /\ broken'[q] = broken[q]
      /\ Len(body'[r]) <= 1
      /\ broken'[r] \/ Len(body'[r]) = 1
  BY <1>1, <1>3, WriteEffect
<1>9. BodyByStep'
  BY <1>6, <1>8 DEF HandlerInv, BodyByStep
<1>10. QED
  BY <1>2, <1>7, <1>9 DEF HandlerInv, ContextInv

LEMMA InvWriteTrailer ==
  ASSUME HandlerInv, NEW r \in Requests, WriteTrailer(r)
  PROVE  HandlerInv'
<1>1. TypeOK'
  BY TypeWriteTrailer DEF HandlerInv
<1>2. /\ pc[r] = "trailers"
      /\ pc' = [pc EXCEPT ![r] = "finish"]
      /\ UNCHANGED <<ctx, pool, owner, body, broken>>
  BY DEF WriteTrailer, Goto, ginVars, wireVars
<1>3. pc'[r] = "finish" /\ \A q \in Requests \ {r} : pc'[q] = pc[q]
  BY <1>2 DEF HandlerInv, TypeOK
<1>4. ContextInv'
  BY <1>2, <1>3, ContextsKept DEF HandlerInv, ContextInv, Active
<1>5. BodyByStep'
  BY <1>2, <1>3 DEF HandlerInv, BodyByStep
<1>6. QED
  BY <1>1, <1>4, <1>5 DEF HandlerInv, ContextInv

(* The context goes back to the pool: no other active request holds it.    *)
LEMMA InvFinish ==
  ASSUME HandlerInv, NEW r \in Requests, Finish(r)
  PROVE  HandlerInv'
<1>1. /\ pc[r] = "finish"
      /\ pc' = [pc EXCEPT ![r] = "done"]
      /\ pool' = pool \cup {ctx[r]}
      /\ UNCHANGED <<ctx, owner, body, broken>>
  BY DEF Finish, Goto
<1>2. ctx[r] \in Contexts /\ Active(r)
  BY <1>1 DEF HandlerInv, Assigned, Active
<1>3. TypeOK'
  BY <1>2, TypeFinish DEF HandlerInv
<1>4. pc'[r] = "done" /\ \A q \in Requests \ {r} : pc'[q] = pc[q]
  BY <1>1 DEF HandlerInv, TypeOK
<1>5. Assigned'
  BY <1>1, <1>2, <1>4 DEF HandlerInv, Assigned
<1>6. ExclusiveContext'
  BY <1>1, <1>2, <1>4 DEF HandlerInv, ExclusiveContext, Active
<1>7. BodyByStep'
  BY <1>1, <1>4 DEF HandlerInv, BodyByStep
<1>8. QED
  BY <1>3, <1>5, <1>6, <1>7 DEF HandlerInv

-----------------------------------------------------------------------------
LEMMA InvInit == Init => HandlerInv
<1> SUFFICES ASSUME Init PROVE HandlerInv
  OBVIOUS
<1>1. TypeOK
  BY TypeInit
<1>2. /\ \A r \in Requests : pc[r] = "idle"
      /\ \A r \in Requests : body[r] = <<>>
  BY DEF Init
<1>3. Assigned /\ ExclusiveContext /\ BodyByStep
  BY <1>2 DEF Assigned, ExclusiveContext, Active, BodyByStep
<1>4. QED
  BY <1>1, <1>3 DEF HandlerInv

LEMMA InvNext == HandlerInv /\ [Next]_vars => HandlerInv'
<1> SUFFICES ASSUME HandlerInv, [Next]_vars
             PROVE  HandlerInv'
  OBVIOUS
<1>1. CASE UNCHANGED vars
  BY <1>1 DEF vars, callVars, streamVars, ginVars, wireVars, HandlerInv, TypeOK, Assigned,
              ExclusiveContext, Active, BodyByStep
<1>2. ASSUME NEW r \in Requests, Accept(r)
      PROVE  HandlerInv'
  BY <1>2, InvAccept
<1>3. ASSUME NEW r \in Requests, HandlerStep(r)
      PROVE  HandlerInv'
  <2>1. CASE ReadBody(r) \/ ParseQuery(r) \/ Decode(r) \/ AssertMessage(r) \/ Marshal(r)
    BY <2>1, InvLocalStep DEF LocalStep
  <2>2. CASE Reply(r)
    BY <2>2, InvReply
  <2>3. CASE WriteBody(r)
    BY <2>3, InvWriteBody
  <2>4. CASE WriteTrailer(r)
    BY <2>4, InvWriteTrailer
  <2>5. CASE ErrorResponse(r)
    BY <2>5, InvErrorResponse
  <2>6. CASE ErrorBody(r)
    BY <2>6, InvErrorBody
  <2>7. CASE Finish(r)
    BY <2>7, InvFinish
  <2>8. QED
    BY <1>3, <2>1, <2>2, <2>3, <2>4, <2>5, <2>6, <2>7 DEF HandlerStep
<1>4. ASSUME NEW r \in Requests, ServiceStep(r)
      PROVE  HandlerInv'
  <2>1. CASE CallService(r) \/ ServiceReturns(r) \/ InterceptorReturns(r) \/ Panic(r)
    BY <2>1, InvLocalStep DEF LocalStep
  <2>2. CASE SetHeader(r) \/ SendHeader(r) \/ SetTrailer(r)
    BY <2>2, InvStreamCall
  <2>3. QED
    BY <1>4, <2>1, <2>2 DEF ServiceStep
<1>5. QED
  BY <1>1, <1>2, <1>3, <1>4 DEF Next, Quiescent

(* HandlerInv is an invariant of every behaviour of the gateway.           *)
THEOREM HandlerInvariant == Spec => []HandlerInv
<1>1. QED
  BY InvInit, InvNext, PTL DEF Spec

(* The variables keep their types (TypeOK of the run "handler").           *)
THEOREM TypeCorrect == Spec => []TypeOK
<1>1. HandlerInv => TypeOK
  BY DEF HandlerInv
<1>2. QED
  BY <1>1, HandlerInvariant, PTL

(* Requests in flight never share a gin.Context and write to their own     *)
(* client, whatever goroutines the services leave behind.                  *)
THEOREM ContextsExclusive == Spec => []ExclusiveContext
<1>1. HandlerInv => ExclusiveContext
  BY DEF HandlerInv
<1>2. QED
  BY <1>1, HandlerInvariant, PTL

(* A client gets at most one document, and exactly one unless its          *)
(* connection broke or the service panicked.                               *)
THEOREM AnsweredOnce == Spec => []OneAnswer
<1>1. HandlerInv => OneAnswer
  BY DEF HandlerInv, BodyByStep, OneAnswer
<1>2. QED
  BY <1>1, HandlerInvariant, PTL
=============================================================================
