# Verification of protoc-gen-apigw

`protoc-gen-apigw` is a `protoc` plugin. From services annotated with HTTP
operations it generates Go handlers and OpenAPI 3.1 documents; a small runtime
(`apigw/v1`) and a router shim (`routers/ginapi`) let these handlers serve a REST
gateway in front of gRPC service implementations. This directory holds TLA+
models of both halves, TLC configurations that check them on small instances, and
TLAPS proofs for every value of the constants.

    tlc -workers 2 -config handler.cfg MCGinHandler.tla
    tlapm GinHandler_proofs.tla

Paths below are relative to `src/`. `PROJECT.json` lists the components, the runs,
the source lines of each definition, the hazards and the findings.

## 1. The system

### 1.1 Request path (run time)

| Component | State it keeps | Operations |
|---|---|---|
| Handler (`routers/ginapi/ginapi_handler.go`) and the generated method handler (`internal/apigw/templates/service.tmpl`) | the step a request is at, its context, its stream | read body, parse query, decode, call the interceptor or the method, marshal, write headers, body, trailers |
| `ginTransportStream` (same file) | `headers`, `trailers`, a pointer to the `gin.Context` | `SetHeader`, `SendHeader`, `SetTrailer`, called by services, interceptors and what they start |
| `ErrorResponse` (`ginapi_error.go`), `HTTPStatusFromCode` (`apigw/v1/grpc_internals.go`) | none | error to status and document |
| gin's engine, context and writer (vendored) | pool of contexts; per context the writer it wraps, a status, whether it was written | take and put back a context, record a status, send the header block, write |
| Registry (`ginapi_registry.go`) and gin's route tree (vendored) | the tree | `RegisterService`, `Handle` |
| Routes (`ParseRoute`, `ConvertRoute`) | none | route to tokens, tokens to gin pattern |
| Request decoder (`ginapi_decoder.go`, generated decoder) | the message being decoded | body, then query, then path parameters |
| Incoming metadata, peer, timeout (`apigw/v1/http_bridge.go`) | none | header map to `metadata.MD` |
| `ChainUnaryInterceptors` (`grpc_internals.go`) | none | composition of interceptors |

They interact through calls and two pieces of shared state. The stream points to
a *pooled* `gin.Context`, which is recycled as soon as the handler returns. And
gin's writer only *records* a status: the status line and the header block go out
with the first write of the body, or at the end of the request.

What makes this correct: every error path answers exactly once and stops; status
line, document and error agree whatever the service did to the stream before; what
was sent is final; a request's headers and answer reach its own client and no
other one, as often and in the order the calls on its stream say.

The decoder is generated per method. It unmarshals the body, then turns each query
parameter and each path parameter into a few bytes of wire format and merges these
into the same message. Correct means: a parameter reaches the field the route names;
the rest of the body survives; a request is decoded whole or refused for its first
fault; and which of the requests the document calls legal are refused is known.

### 1.2 Registration (start-up)

Services are registered one after the other on one router; any problem is a panic.
Three places read a route: the generator (to number the parameters its decoders ask
for), `ConvertRoute` (to make the gin pattern) and the OpenAPI builder. Correct
means: the numberings agree, services that name the parameters of overlapping
routes differently share a router without a clash, and a service is registered
with all its methods or the program stops, for a reason that is in its descriptors.

### 1.3 Generator (build time)

| Component | State it keeps | Operations |
|---|---|---|
| Module (`internal/apigw/apigw.go`) | `canonicalRouteMapper`, artifacts | `Execute`, `processFile`, `applyTemplate`, `renderForcedMessages` |
| Service and method rendering (`apigw_service.go`, `apigw_method.go`) | import tracker, variable namer | `renderService`, `methodContext`, field converters |
| OpenAPI documents (`apigw_openapi.go`) | document, `msgTracker` of the service | `buildOpenAPIService`, `buildOpenAPIWithoutService`, `buildOperation`, `addOperation`, `storeCanonicalRoute`, `Add`, `AddInput` |
| Schemas (`apigw_openapi_schema.go`, `_wkt.go`, `_scalar.go`) | `schemaContainer` | `Message`, `Field`, `Enum`, `OneOf` |
| Terraform and Speakeasy extensions (`apigw_openapi.go`) | none | option values to extension nodes |
| Deprecation validation, annotation bag | none | accept or refuse |
| Templates, imports, `main.go` | text | rendering, I/O |

It is sequential, but `Execute` ranges over a Go *map* of the target files, so the
order of files is arbitrary, and the route map outlives the files. Correct means:
every run ends; what it writes is complete or it writes nothing; routes equal up to
parameter names are one path in all documents; references resolve; and the order of
files shows as little as the code intends. For each operation, the document has to
say what the run time does: schemas admit what `protojson` sends, the request body
leaves out what the URL carries, options and extensions arrive as declared, and a
message below itself is not opened again within itself.

## 2. The modules

| Module | Models |
|---|---|
| `UnaryExchange` | abstract contract: what a client may see of one exchange |
| `GinHandler` | 1.1 in detail; refines `UnaryExchange` |
| `Selections` | the loops that copy some elements of a slice, in their order |
| `Routes` | tokens, `ParseRoute`, `ConvertRoute`, canonical keys; EXTENDS `Selections` |
| `Registry` | 1.2; EXTENDS `Routes` |
| `Generator` | 1.3; EXTENDS `Routes` |
| `Messages` | proto messages and their fields, by name and by number |
| `Converters` | from an operation to the steps of its decoder (`apigw_method.go`); EXTENDS `Routes`, `Messages` |
| `Decoder` | a generated decoder on one request; EXTENDS `Converters`, `Schemas` |
| `Schemas` | the schema of a field, and what `protojson` sends for it; EXTENDS `Messages` |
| `Operations` | one operation of a document: extensions, parameters, schemas; EXTENDS `Schemas`, `Converters` |
| `Bookstore` | the example services: messages, operations, checked-in decoders |
| `MCGinHandler`, `MCRegistry`, `MCGenerator`, `MCMessages`, `MCDecoder`, `MCOperations` | small instances for TLC |
| `GinHandler_proofs`, `GinHandler_wire_proofs` | theorems about `GinHandler`, the second on top of the first: what reaches the client |
| `Routes_proofs`, `Converters_proofs` | lemmas about routes, selections and paths of names, under the modules below |
| `Registry_proofs`, `Generator_proofs`, `Operations_proofs`, `Decoder_proofs` | theorems about the module of that name |

Operators named `X_Something` that stand before `X` and are marked "Mutant" are
plausible wrong versions of `X`. They are not used by the specifications; putting
one in the place of `X` makes a named property fail (`mutants` in `PROJECT.json`),
which is how each property is known to have teeth.

### GinHandler

`pc[r]` is the line of the closure request `r` is at; the actions follow the
closure from top to bottom.

| Action | Code |
|---|---|
| `Accept` | `ServeHTTP` takes and resets a context, then lines 38-54 |
| `ReadBody`, `ParseQuery` | 56-67, 69-73 |
| `Decode` | the method handler up to the call (`service.tmpl` 28-43) |
| `CallService`, `InterceptorReturns`, `AssertMessage` | the interceptor's handler, its return, `rv.(proto.Message)` |
| `ServiceReturns`, `Panic` | what the service does |
| `Marshal`, `Reply`, `WriteBody`, `WriteTrailer` | 88-92, 93-99, 101-105, 107-113 |
| `ErrorResponse`, `ErrorBody` | `ErrorResponse` up to its write, and the write |
| `Finish` | `WriteHeaderNow`, `pool.Put`, net/http's end of the response |
| `SetHeader`, `SendHeader`, `SetTrailer` | the stream |

`ctx[r]` is the stream's pointer and is never cleared, as in the code. `owner[c]`
says whose `http.ResponseWriter` context `c` wraps, so that a stream call after the
request is over goes to the context's current owner. Header values are pairs of an
author and the number of a call: enough to tell whose value it is and from which call.
`calls[r]` is the history of the calls on the stream of `r`, from which
`HeadersReachClient` computes what the header block has to be. The requests in `Detached` have a service that leaves goroutines behind.
`GinWriteHeader` only records a status; `GinWriteHeaderNow` sends it once.

An interceptor may do whatever a function of its type may: call the service up to
`MaxServes` times, not at all, fail afterwards, return nil. This covers every chain
`ChainUnaryInterceptors` builds, which therefore has no module.

Left out: the bytes of documents; the request id in the message of an error;
middleware and recovery of gin (a panic drops the connection and the context never
returns to the pool); the data race of two goroutines inside one Go map.

### Selections, Routes and Registry

`Selected(s, I)` is the elements of `s` at the positions `I`, in their order. It takes
the place of `SelectSeq`, which the library defines by recursion on a test that is a
parameter: the provers can do induction over neither. With a set of positions the
same loop is a function of the cardinalities of sets, which `Routes_proofs` reasons
about.

A route is the sequence `strings.Split` makes of it: static segments, parameters
and empty tokens, and whether it starts with a slash. `.` and `..` (which
`path.Join` cleans) and static segments with `:` or `*` (wildcards to gin) are left
out. `RegisterService` checks the implementation, `Handle` is one turn of its loop,
`Return` its end; calls do not overlap. Of gin's tree `Refusal` keeps when
`addRoute` panics: a wildcard of another name below a common prefix, or a taken
pattern.

### Generator

One run of `Execute`. `program` is what protoc hands over; `ProcessFile` picks any
target not yet visited. `RenderService` is `renderService` with the checks of
`methodContext` in their order (`Verdict`), and the head of `buildOpenAPIService`;
`SkipMethod` and `BuildOperation` are the turns of its loop; `AddDocument`,
`RenderForcedMessages`, `AddGoFile` and `Return` are the rest. A schema is a pair of a
message and the fields filtered from it, its component key the message and whether there
is a filter. `Reached` is what the recursion of `schemaContainer.Message` and `Field`
reaches: the smallest set of messages that holds the ones it starts from and, with a
message, those of its fields. `Rerun` runs the plugin again on the same input, so that
two runs can be compared in one behaviour.

Left out: text, tags, summaries, webhooks; names of messages as strings (so that no
message is called like another's `...Input`). Extensions and the schemas of fields are
in `Operations`. Path parameters are bound to scalars.

### Messages, Converters and Decoder

A message is the sequence of its fields as declared, with the kind of a map's keys and
whether its file is proto2; a message *value* is the function
from the paths of field numbers it has populated to values, so that a nested field is
a path of two or more numbers. Proto itself (looking up a field by number, cutting a
varint to the width of its field, merging, oneofs, implicit presence) is external and
modelled from the options the generated code passes (`AllowPartial`, `Merge`).

`Steps(rpc)` is what `methodContext` renders: for each parameter its source, the field
numbers of its path as `path2fieldNumbers` returns them, and one of four templates. A
nested parameter is always packed as a string.

| Action of `Decoder` | Code (`service.tmpl`, for example `bookstore.pb.apigw.go`) |
|---|---|
| `ReadBody`, `RefuseBody` | 58-69: read and unmarshal, unless the verb is GET |
| `MergeParam` | 75-91: one query or path parameter, converted and merged, or refused |
| `Return` | 92 |

Texts are words, numbers or not UTF-8; they are absent or empty where the request may
leave them out. `Wide` and `Narrow` stand for 64 and 32 bits. Requests are of proto3
messages (`Proto3Assumption`). A query parameter names one field (`methodContext` refuses
others).

What the packed bytes of a step do to the message is decided by the request's
descriptor, field by field. `Along` follows the tags of `protopack_message.tmpl` through
message fields; the bytes *end* (`Ends`) at the last of the numbers, or before it in a
field that is no message: a string or bytes field there takes the encoding of the
messages inside for its value (`Packed`), and anything of another wire type is unknown to
proto and skipped. This is what happens with paths of three names, whose numbers are in
the wrong order. A leaf that is a message, a list or a map takes the bytes too: a message
is unmarshalled from them or refused, a list of strings gets one element more, a packed list
or a map entry is parsed. What is inside such a value is not looked at (`Opaque`);
whether proto can parse it is left open, so that `MergeParam` may refuse it or take it
where both can happen (`MayRefuse`, `MustRefuse`).

`ParametersDelivered` is about values the field can hold, fields whose template writes
their encoding, and paths of at most two names. The code loses the others: a 64-bit number
is cut to a 32-bit field, `sint` fields read a plain varint as zigzag, `fixed` fields drop
it, a nested field that is no string ignores the string packed for it, and of paths of
three names see `nested_path`. A query parameter that is absent is among them: it puts a
zero in the place of what the body had (a bool does not). `BodyKept` has no such
exceptions: what a parameter may overwrite is where its bytes end, which for a path of
three names may be a field the route does not name.
`DocumentedRequestsDecode` says of the requests the document admits which are decoded, and
it is an equivalence: refused are enums (documented by the names of their values, parsed as
numbers) and `uint` parameters the query does without (documented as optional), and no
others.

### Schemas and Operations

A schema keeps what may contradict a value or lose an option: types, format, `$ref`,
items, read-only, deprecated, stability, sunset and the annotation bag. `Operations`
follows `buildOperation` for one operation:

| Action | Code (`apigw_openapi.go`, `apigw_openapi_schema.go`) |
|---|---|
| `TerraformEntity` | one turn of the loop at 439-495 |
| `Extensions` | the entity node, the pagination, stability and deprecation, 303-333 |
| `Parameters` | 356-409 with the entries of the tracker |
| `Track` | one turn of the loop at 410-413 |
| `RenderField`, `Close` | the recursion of `sc.Message` and `Field`, unrolled onto `stack` |
| `Finish` | 414-418 |

`stack` holds the messages `sc.Message` is in the middle of, each with the fields it
has left; a message that is open has a placeholder in `schemas`. `Track` takes the
tracker's keys in any order, the code in the order of their names. The tracker is that
of one operation here; how a service's operations share it is in `Generator`.

`ResponsesAdmitted` compares a schema with all JSON types `protojson` may write for the
field (`ScalarJSON`, `EnumJSON`, `MessageJSON`, `Populated`, `Unpopulated`): null for unset
messages, for unset scalars of proto2 and for `google.protobuf.NullValue`, numbers for
unknown values of enums, strings for NaN and the infinities. The schemas do not admit
all of them. `Undocumented` and `UndocumentedField` list the types they forget, and the
property asks that these are *exactly* the ones refused: the number of an enum, the
string of a floating-point field or wrapper, the null of a `NullValue` and of an unset proto2
scalar. It leaves out one case, a user's message that is called `FieldMask` (which
`IsWellKnown` takes for google.protobuf's). In
`InputOmitsParameters` members of a oneof and fields filled by a nested parameter are
documented twice, as the code has it, and a well-known input has no schema of its own.
`ExtensionAsDeclared` takes the two exclusions the way the code reads them, which is the
reverse of their comments; see `options`.
An operation whose parameter leads to no field is left out: `path2fieldNumbers` panics.

`Bookstore` states the example services twice, from the proto files (as generated
structs and descriptors have them) and from the checked-in decoders;
`GeneratedAsCheckedIn` compares what `Converters` derives from the one with the other.

## 3. The runs

| Run | Instance | Distinct states | Shows |
|---|---|---|---|
| `handler` | 1 request, intercepted, at most 2 calls of the service, 2 header keys, 3 stream calls | 165,598 | `AnswerMatchesFault`, `HeadersReachClient`, refinement of `UnaryExchange` |
| `pool` | 2 requests, 2 contexts (symmetric), 1 stream call each, one request detached | 248,008 | `ExclusiveContext`, `OneAnswer`, `NoForeignHeaders`, `SentIsFinal` |
| `registry` | 2 services, one with one method, routes of at most 2 tokens over 2 parameter names, 2 verbs | 323,382 | `NoWildcardPanic`, `ParametersReachTheirFields`, `AllOrPanic` |
| `generator` | 2 files, 4 messages (one recursive, one well-known, two mutually reached), routes of at most 2 parameters, 2 runs | 63,669 | `OnePathPerRoute`, `OperationsPresent`, `RefsResolve`, `Complete`, `Reproducible` |
| `decoder` | the 17 methods of the bookstore and 7 of a test service with paths of up to three names, message and list parameters, 4 and 3 bits for wide and narrow integers, every kind of body, texts on both sides of each width | 67,342 | `ParametersDelivered`, `BodyKept`, `FirstFaultAnswers`, `DocumentedRequestsDecode`, `GeneratedAsCheckedIn` |
| `document` | lists of at most 3 entities, paginations of at most 2 inputs, 4 deprecations, recursive messages, a proto2 message and all well-known types under 3 verbs, routes and queries, the bookstore | 16,766 | `OpenOnce`, `SchemasSettle`, `ResponsesAdmitted`, `InputOmitsParameters`, `ExtensionAsDeclared`, `PaginationComplete` |
| `oversize`, `error_headers`, `trailers` | as `handler`, 2 stream calls | - | violations, see 5 |
| `dangling_ref` | as `generator`, 1 run | - | violation, see 5 |
| `nested_path` | as `decoder`, two methods, one with a path of three names | - | violation, see 5 |
| `options` | as `document`, one operation of the bookstore | - | violation, see 5 |

Why the bounds are enough. A single request meets every step and every error path; two
calls of the service are the least for a retry, two stream calls for `SendHeader`
followed by a failure and for a value that replaces another, and three for a value that is
sent, replaced and sent again. Header keys matter only in
being Content-Type or not. Contexts are recycled between two requests in `pool`, and
since a request never takes a second context, two are enough for sharing, recycling, and
a goroutine that writes into a stranger's context; contexts are interchangeable, so the
symmetry is sound. Wildcards clash, and
numberings differ, at the first segment where two routes part: two tokens suffice, and
the proofs cover routes of any length. In `generator` two files are the least that can
be swapped, two methods the least that can contend for a path item or an input message.
Its list of methods holds routes of one and of two parameters that are equal up to
names, one input under two filters, a field of a oneof as a path parameter, a well-known
response, and each kind of refusal.

In `decoder` a request is a behaviour of its own, so the bound is the set of requests:
each template meets an absent, an empty, an accepted and a refused text and the values
beside each limit of both widths; bodies meet a parameter in the same field, in the
same oneof, in the message around it and nowhere. Two widths need no more than to
differ, and three bits hold both signs. In `document` two entities are the least for a
null that must not be repeated, a third follows it in either list; two pagination inputs
are the least of which one can be skipped; the messages `Tree` and `Other` hold each
other through each kind of field. The proofs drop all of these bounds.

`AnswerMatchesFault` accepts 400 and 500 for an oversize body, the subject of the
run `oversize`.

### Fairness and deadlock

No run assumes fairness, and no property needs any. The handler's closure, the plugin and
a rendered operation are each one thread of straight-line code and loops over finite
collections, with input and output that has no deadline: what could be said about their
progress would follow from the fairness assumed. What a change of the code could break is
that a step goes back or a recursion opens what is open already, and both are
safety: `OpenOnce`, and the theorems `HandlerGoesForward`, `RunsGoDown` and
`RenderingGoesDown`.

`handler`, `pool`, `registry` and `generator` check that there is no deadlock; a
system that is over stutters explicitly (`Quiescent`, `Over`). The runs of `Decoder` and
`Operations` switch the check off, because a decoder and an operation come to an end.

## 4. The proofs

Every safety invariant and action property of the passing runs is a theorem, except
`GeneratedAsCheckedIn`, which is about one instance. `PROJECT.json` lists which theorem
states which property. Assumptions are on constants only; they are named in the module
that declares the constants, and TLC evaluates them on each instance. A few theorems have
a hypothesis more, on the constants too, explained where they occur:

* `Detached = {}` and `NamesApart` for four properties that fail without; the
  instances `handler` and `document` satisfy them. Next to each stands a theorem
  that needs no such hypothesis and says what holds always and how much may be lost. Only
  the refinement of `UnaryExchange` has no such weaker form.
* `IsFiniteSet(Messages)` and `IsFiniteSet(Files)` where something has to end. protoc hands
  over one finite descriptor set.

### GinHandler

`GinHandler_proofs`, for any sets of requests, contexts, keys and any bounds, under
`ConstantsAssumption` only:

* `HandlerInvariant`: `HandlerInv`, the conjunction of `TypeOK`, `Assigned`,
  `ExclusiveContext` and `BodyByStep`, is inductive.
* `TypeCorrect`, `ContextsExclusive`, `AnsweredOnce` (`OneAnswer`) follow.

None of the parts is inductive alone. `OneAnswer` bounds the documents a client
has, but a write adds one: `BodyByStep` says that before the write there was none.
The write goes to `owner[ctx[r]]`, which is `r` by `ExclusiveContext`; and this is
kept by `Accept` because a context in the pool belongs to no request in flight, and
needs `Assigned` for `ctx[r]` to be a context at all. The proof has a lemma for the
effect of each group of operators, one per action for types, and one per action for
the rest; actions that touch only `pc`, `fault` and `served` share one
(`LocalStepEffect`), stream calls another (`InvStreamCall`).

`GinHandler_wire_proofs` has the wire in it. Most of it is for every service:

* `WireFollowsSteps`: `WireByStep` is inductive given `HandlerInv`. `FaultAt` says which
  fault a request may have at its step, `WireAt` what is on its wire there. `SentStaysSent`
  (`SentIsFinal`) follows: a step that would write a second time finds `written` set.
* `NobodyElsesHeaders` (`NoForeignHeaders`) from `AuthorsKnown`: the authors of every
  value in the header map of a request, and in those the code keeps aside for it. The
  property speaks of the wire, and what reaches the wire is what these hold.
* `WrongStatusOnlyByGoroutines`: an error is never answered as a response, nor a response
  as an error, and the status is that of the first fault or, if a goroutine that outlives
  its call holds a stream made on the same context, 200. Such a `SendHeader` comes late and
  records its 200 on a context that by then may wrap another request's writer, and that
  request may be between the `WriteHeader` of its `ErrorResponse` and the body.
* `HeadersDisturbedOnlyByGoroutines`: the header block of a response is what the history of
  the stream's calls makes it, unless there is such a goroutine: under each key the last
  value given, after one value for each earlier `SendHeader`, the one held at that call; for
  Content-Type the gateway's and the last value. That an earlier `SetHeader` of the same
  key is replaced, and not merged as grpc documents, is part of what is proved.

Both follow from `AllAnswered`, which adds the status recorded on the context (`RecordedAt`)
and the headers on their way (`HeadersAt`) to what is on the wire. It is inductive only with
`Holders`: whoever a context serves was given it, so that a late write names a request
that shares the context, `Late(r)` being the statuses this may leave. Then, if no
request leaves goroutines behind (`Detached = {}`):

* `AnswersMatchFaults` (`AnswerMatchesFault`) and `HeadersFollowCalls`
  (`HeadersReachClient`) are what is left of the two.
* `ImplementsExchange` (`KeepsExchange`): under the mapping of `Phase` and `Received`
  every step is one of `UnaryExchange` or a stutter.

Last, the order of steps, for every service again:

* `RequestsMoveOn`: no request comes back to a step it has left, except between the service
  and its interceptor; the service is entered from the decoder or the interceptor; the first
  fault stays the fault. So no error path of `Handler` lacks its return.
* `HandlerGoesForward`: every step of the gateway leaves its place for a later one, ten at
  most outside the service.

### Registry

`Routes_proofs` has the lemmas about `Selected` (a selection is in order, complete, and
grows at its end) and about routes. `PatternIsCanonicalKey` identifies the gin pattern
with the generator's canonical key.

`Registry_proofs`, for all services and routes of any length, under
`DescriptorsAssumption`:

* `RegistryInvariant`: `RegistryInv`, the conjunction of `TypeOK`, `TreeByLoop`,
  `NoWildcardPanic` and `AllOrPanic`, is inductive.
* `RegistryTypeCorrect`, `WildcardsNeverClash` (`NoWildcardPanic`) and
  `RegisteredOrPanicked` (`AllOrPanic`) follow.
* `DecodersReadTheirSegments` (`ParametersReachTheirFields`): the parameter a decoder
  asks for by number is bound to the segment where its route has it, since the number of
  parameters before a parameter tells it from all others (`RankDistinguishes`).

* `RegisteredRoutesApart`: registered methods, of one service or of two, never share a verb
  and a shape of route. The key of the generator's mapper is the pattern, so this is the
  hypothesis of `EachMethodItsOperation` below.

The point is the lemma `NoConflict`: two patterns that agree before a place have the
same number of parameters before it (`SamePrefixSameNumber`), so the wildcards there
carry the same number and cannot clash. `TreeByLoop` is what makes `AllOrPanic`
inductive: the loop's counter says what is in the tree.

### Generator

`Generator_proofs`, for all programs, any number of runs and every order of the target
map, under `GeneratorAssumption`. Each theorem has an invariant of its own, on top of the
types and of `Placed` (where the loops are):

* `GeneratorTypeCorrect` (`TypeOK`).
* `NothingLeftOut` (`Complete`) from `Worked`: what is behind the loops has been written,
  at the level of files, of services and of methods.
* `OneTemplatePerShape` (`OnePathPerRoute`) from `Mapped`: every path in every document is
  a canonical key of the mapper with the names kept for it, so that paths of one shape have
  one key (`ShapeOfKey`), and one key has one list of names.
* `NoOperationLost` (`OperationsPresent`) from `Documented`: the methods behind the loop
  are in the document under construction, each with its query parameters, its response and
  its body, or another has been written over it.
* `NoOperationInvented` from `SourcedSoFar`: each operation of a document is one method's of
  its service. `EachMethodItsOperation`: if no two methods of the service share verb and
  canonical route, none is written over. It follows from the theorem before: the
  path determines the route up to the names of parameters.
* `NoDanglingReference` (`RefsResolve`) from `Tracked`: the schemas of the document are
  those the tracker reaches, the references of its operations are keys of the tracker, and
  an input has one filter. `Reached` is the smallest closed set, so that it is closed
  (`ReachedClosed`) and grows with the set it starts from (`ReachedGrows`) without an
  induction.
* `RunsAgree` (`Reproducible`) from four invariants that say a run's state is a function
  of the program, up to the names of path parameters: of the tracker and the document of
  the current service (`ServiceDetermined`), of how the run ends (`OutcomeDetermined`), of
  what it has written (`ArtifactsDetermined`), of what the earlier runs came to
  (`EarlierDetermined`). Two runs are not compared step by step, since they visit the files
  in different orders; each is compared with `Outputs`.
* `RunsGoDown`: each step of the plugin lowers `Effort`, six numbers of which the first to
  change decides (runs, files, and the places of the loops in a file), and no sequence of
  such numbers falls without end (`LowerEnds` in `Routes_proofs`).

### Converters and Decoder

`Converters_proofs` is about the recursions over paths of names and of numbers
(`FieldOf`, `PathNumbers`, `Numbers`, `FieldAt`). A recursive function is a `CHOOSE`, and
that there is such a function has to be shown first. The induction theorems of the library
take an operator and cannot be used, so `Descent` proves existence for every recursion that
goes to one smaller argument, from the least length for which there is no solution. From
there: what each of the four is at a path of one name, and of two (`SingleNumber`,
`TwoNumbers`, `OneName`), and where the reversal in `path2fieldNumbers` goes wrong
(`nested_path`), which needs no induction either:

* `LongPathsEndInTheSecondName`: a path of three names or more, the first two of which lead
  to messages, ends in the number of its second name, whatever its last name is.
* `ThreeNamesSwapped`: of three numbers the last two change places.

`Decoder_proofs`, for all messages, methods, requests and widths:

* `DecoderTypeCorrect` (`TypeOK`) from `Fit`: every merge keeps a message `Holdable`, with
  the messages around its fields and one member of each oneof.
* `FirstFault` (`FirstFaultAnswers`) from the invariant `Progress`: no step before the
  one the decoder is at has a fault, and a decoder that refused did so for the fault of
  the step it is at. The property speaks of the end only and says nothing of the steps
  on the way.
* `BodySurvives` (`BodyKept`) from `Progress` and `Merged`: what the steps *so far* have
  kept of the body and added to it. Its lemmas `MergeKeeps`, `MergeAdds` and
  `AlongIsPrefix` say what one merge does to a field it does not contend for.
  Since `Contends` asks where the bytes of a step end, there is no exception for long paths.
* `DocumentedDecode` (`DocumentedRequestsDecode`) from `Progress`, in both directions:
  a step that reads a text the document admits has no fault, unless it is one of the two
  named in `RefusedThough`, and then it has. The lemmas compare the two readings
  of a field, the schema and the converter, kind by kind.
* `ParametersArrive` (`ParametersDelivered`) from `DeliveredBefore`: the parameters of the
  steps so far have arrived, or a later step contended for their field. The property looks at
  the parameters as the route and the query give them, absent ones of the query included,
  the decoder at its steps, so `GivenStep` and `GivenField` match the two: the step's numbers
  lead to the field the names lead to. It has no hypothesis: parameters of more than two names
  are not promised anything, but they are among those that contend.

Their assumptions are `RpcsAssumption` (every parameter has a template: `methodContext`
fails otherwise, and `path2fieldNumbers` panics for one that names no field),
`CallsAssumption` (requests are for methods there are, bodies are messages proto can hold,
gin binds each wildcard), `OrderAssumption` (query parameters are in a sequence, names split
into at least one part), `MessagesAssumption` (protoc's rules for fields), `Proto3Assumption` and the two on
widths; `PowersAssumption` states what `2 ^ n` is where it is used, because `^` is opaque to
the provers.

### Operations

`Operations_proofs`, for all messages, however they contain each other, and all
operations, under `OperationsAssumption` (the messages are there, the entities and
paginations are of apigw.proto's types, and parameters name fields), `MessagesAssumption`
and `NamesAssumption` (the well-known names):

* `OperationTypeCorrect` (`TypeOK`), from the invariants below and `TInv`: all schemas are
  built with the same fields, whatever the kind of field (`FieldShaped`).
* `MessageOpenOnce` (`OpenOnce`) and `CompleteSchemasStay` (`SchemasSettle`) from
  `IInv`, that `stack` and `schemas` are `Balanced`: the stack's frames have distinct
  keys, and those are exactly the keys of open schemas. A new key on the stack is fresh
  only because `sc.Message` sees the placeholders, and `Close` completes an open schema
  only because its key is on the stack; each needs the other. The lemmas `FramesAppended`,
  `FramesPopped` and `MessageStep` carry both through the two kinds of change.
* `EntitiesInTheirLists` (`ExtensionAsDeclared`) and `PaginationAllOrNothing`
  (`PaginationComplete`) from `EInv`: `Lists` says what the loop over the entities has put
  in a list so far, the null it keeps once included.
* `DocumentAdmitsResponses` (`ResponsesAdmitted`) from `SInv`: a complete schema is that of
  its message and all its fields are `Met`, that is, their messages have a schema or a
  placeholder; an open one has met those that are not left. At the end nothing is open, and
  what is met has a schema. It says of every kind of field exactly which JSON types of
  `protojson` its schema refuses. `SchemaAdmits` compares the schema of a field with what
  `protojson` writes for it, kind by kind.
* `SchemasExactlyReferred` from `RInv`: the schemas are the least set that has those of the
  output and the input and is closed under the fields' messages; nothing is missing and
  nothing is rendered that is not referred to. The messages of *parameters* are not in it,
  which is the finding of `dangling_ref`.
* `BodyRepeatsNoParameter` from `SInv`: the request body repeats no field a parameter fills,
  members of a oneof of the message excepted, and what it lacks has a name, in JSON or in
  the proto file, that a parameter uses.
* `InputWithoutParameters` (`InputOmitsParameters`) from `SInv` too, with the hypothesis
  `NamesApart`: no field is called in JSON what another is called in the proto file. protoc
  accepts such a `json_name`; then the filter removes two fields where a parameter fills one.
* `RecursionBounded`: keys on the stack are distinct, so there are no more than messages,
  and one for the input with its filter. The proof counts an injection.
* `RenderingGoesDown`: each step lowers `Effort`, again six numbers: the phases left, the
  entities left, the messages not yet opened, those waiting, the frames of the stack, the
  fields left in them. Opening a message adds a frame and fields, but that message is not
  opened again (`SchemasSettle`), which is why the third comes before the last two.

### What is only model-checked

TLC evaluated inductive invariants on the instances before they were proved:
`HandlerInv`, `WireByStep` and `AuthorsKnown` on `handler` and `pool`, `AnswerByStep` on
`handler`, `RegistryInv` on `registry`, `Placed`, `Worked`, `Mapped`, `Documented` and
`Tracked` on `generator`, `Progress`, `Merged` and `DeliveredBefore` on `decoder`, `IInv`
and `SInv` on `document`; of the later ones `AllAnswered` and `Holders` on `pool`,
`NothingInvented` and `OwnOperations` on `generator`.

Liveness is neither checked nor proved. Proved is that nothing
goes round in circles (`HandlerGoesForward`, `RunsGoDown`, `RenderingGoesDown`), for every
value of the constants. `GeneratedAsCheckedIn` is about one instance by nature. All numbers of
a path of any length would be a statement by induction over data; what is proved is where
such a path ends, and where it starts to go wrong.

## 5. What the code does against its documentation

1. `oversize`: the branch for a body over the limit compares with a fresh pointer
   and is dead; the client gets 500 instead of `InvalidArgument`
   (`ginapi_handler.go:59`).
2. `error_headers`: grpc documents that the metadata of several `SetHeader` calls is
   merged and sent with the status, error or success (`vendor/google.golang.org/grpc/server.go:2019-2027`).
   Headers set before a service fails are not sent (`ginapi_handler.go:83`), and an
   earlier `SetHeader` of a key is replaced (`ginapi_handler.go:138-143`).
   `HeadersReachClient` says exactly what is sent instead; a value may also be sent more than
   once, by each `SendHeader` and by the reply.
3. `trailers`: `metadata.MD` lower-cases the trailer prefix, so net/http never
   recognises a trailer (`ginapi_handler.go:164`).
4. `dangling_ref`: a method that returns a well-known type refers to a schema no
   document has (`apigw_openapi.go:769`).
5. `nested_path`: the field numbers of a path of three names `a.b.c` come out as those
   of `b`, `c`, `a`, because the recursion reverses them on each level
   (`apigw_method.go:73`). For `part.deep.id` the decoder packs `9:{1:{4:text}}`, and
   `proto.Unmarshal` puts the bytes of the inner message into the string `part.id`, which
   has number 1; `part.deep.id` stays empty.
6. `options`: stability and deprecation, and the read-only option where the type is no
   well-known one, of a field whose type is a message do not reach its schema
   (`apigw_openapi_schema.go:384`; promised in `apigw.proto:52-55`).
7. `options`: `OPTIONAL_EXCLUSION_RESOURCE_ONLY` is documented to exclude from the
   resource and `DATA_SOURCE_ONLY` from the data source (`apigw.proto:148-151`); the code
   excludes each from the other (`apigw_openapi.go:469-475`). The run refutes the two halves
   of `OptionsAsDocumented`, `FieldOptionsReachSchema` and `ExclusionAsDocumented`, in one state.

Met on the way, without a text that promises otherwise: integer parameters are parsed
with 64 bits and cut to the field; `sint`, `fixed` and nested non-string parameters
lose their value; a `uint` parameter that is absent is refused, and so is an enum given by
name; schemas refuse some of what `protojson` writes (see `ResponsesAdmitted`); pagination without
outputs is a nil dereference (`apigw_openapi.go:636`); a HEAD request's body is read
though the document has none; the `uint` template needs imports its case does not ask
for (`apigw_method.go:310`).

## 6. Plan

Done, in this order: request path (`UnaryExchange`, `GinHandler`), registration
(`Routes`, `Registry`), `Generator`, the decoder (`Messages`, `Converters`, `Decoder`,
`Bookstore`), the schemas and extensions of an operation (`Schemas`, `Operations`).

The properties of all passing runs but one are proved, and that the loops go on to an end,
see 4.

Next, in order of importance:

1. `Decoder` in the place of `GinHandler`'s `Decode`, by a refinement mapping of its
   outcomes to faults. Today the two meet in `FirstFaultAnswers`, which says which
   requests end in which outcome, and in the three outcomes of `Decode`.
2. The collision of a message with another's `...Input`, with names as sequences.


### Not modelled

* Incoming metadata, peer and timeout (`http_bridge.go`): pure functions of one request
  whose result only the service reads.
* `ChainUnaryInterceptors`: see GinHandler.
* Webhooks, forced messages as webhook bodies, document and group names, tags, summaries,
  name overrides: text that is copied. The collision of a message called like another's
  `...Input` needs names as strings.
* Import tracking and templates other than the decoder's: they select lines of text.
* The rules for dates in `validation.go`: parsing, with table tests in the repository.
* `main.go` (I/O), generated protobuf accessors and gRPC stubs.
