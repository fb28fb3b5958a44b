------------------------------ MODULE Generator ------------------------------
(***************************************************************************)
(* One run of the plugin, Module.Execute: the target files in the order of *)
(* Go's map iteration; for each of their services the Go handlers          *)
(* (renderService), then the OpenAPI document built method by method with  *)
(* the canonicalRouteMapper of the whole run and the msgTracker of the     *)
(* service; then the document of the forced messages and the Go file.  An  *)
(* error ends the process through Fail, a panic by itself: either way no   *)
(* artifact is returned.  Descriptions, titles, tags and extensions, which *)
(* no step reads back, are left out.                                       *)
(***************************************************************************)
EXTENDS Routes, Functions

CONSTANTS
  Files,        \* the target files
  Messages,     \* the proto messages
  WellKnown,    \* those IsWellKnown says are rendered inline
  Fields,       \* Fields[m]: the fields of m, see FieldSet
  Scalar,       \* the type of the fields that hold no message
  SnakeCase,    \* toSnakeCase, a function on ParamNames: "." becomes "_"
  Binds,        \* the pairs <<m, p>> such that p names a field of m, or of a
                \* message in it, that a converter can be generated for
  Programs,     \* the possible descriptors of the targets, see ProgramSet
  NoFile,       \* the target when Execute is between two files
  NoBody,       \* the request body of an operation that has none
  MaxRuns       \* bound: runs of the plugin on the same input

Verbs == {"GET", "HEAD", "POST", "PUT", "PATCH", "DELETE"}
FieldSet == [name : ParamNames, type : Messages \cup {Scalar}, inOneOf : BOOLEAN]

(* A method with its apigw options; query: the fields its query parameters *)
(* bind, in the order of their names; valid: its deprecation validates.    *)
RpcSet == [operations : Nat, verb : Verbs \cup {"OTHER"},
           route : RouteSet, query : Seq(ParamNames), valid : BOOLEAN,
           input : Messages, output : Messages]
ServiceSet == [methods : Seq(RpcSet), valid : BOOLEAN]
ProgramSet == [Files -> [services : Seq(ServiceSet), forced : SUBSET Messages]]

ASSUME GeneratorAssumption ==
  /\ WellKnown \subseteq Messages
  /\ Scalar \notin Messages
  /\ NoBody \notin Messages \X BOOLEAN
  /\ Fields \in [Messages -> SUBSET FieldSet]
  /\ SnakeCase \in [ParamNames -> STRING]
  /\ NoFile \notin Files
  /\ Programs \subseteq ProgramSet
  /\ MaxRuns \in Nat

VARIABLES
  program,    \* the descriptors protoc hands to the plugin
  todo,       \* the targets the loop of Execute has not reached
  file,       \* the target it is at, or NoFile
  step,       \* where applyTemplate is in it
  service,    \* the service of the file it is at
  method,     \* the method of the service buildOpenAPIService is at
  mapper,     \* canonicalRouteMapper: canonical route -> parameter names
  tracker,    \* msgTracker.messages: messages and what is filtered from them
  doc,        \* the service's OpenAPI document so far
  artifacts,  \* what AddGeneratorFile was called with
  outcome,    \* "running", "done", "failed" (Fail) or "panicked"
  earlier     \* what the earlier runs of the plugin on this input came to

place == <<todo, file, step, service, method>>
spec == <<mapper, tracker, doc>>
vars == <<program, place, spec, artifacts, outcome, earlier>>

Put(f, k, v) == [x \in DOMAIN f \cup {k} |-> IF x = k THEN v ELSE f[x]]
NoMap == [k \in {} |-> <<>>]
EmptyDoc == [operations |-> NoMap, schemas |-> {}]

Services == program[file].services
Methods == Services[service].methods

Bound(rpc) == ParamsOf(ParseRoute(rpc.route)) \o rpc.query

-----------------------------------------------------------------------------
(* methodContext: what becomes of a method, in the order of its checks.    *)

(* A query name is looked up as one name: it leads into no other message.  *)
Bindable(rpc) ==
  /\ \A p \in Range(Bound(rpc)) : <<rpc.input, p>> \in Binds
  /\ \A p \in Range(rpc.query) : \E f \in Fields[rpc.input] : f.name = p

Verdict(rpc) ==
  CASE rpc.operations = 0 -> "skipped"
    [] rpc.operations > 1 \/ (rpc.operations = 1 /\ ~Valid(rpc.route)) -> "failed"
    [] rpc.operations = 1 /\ Valid(rpc.route) /\ ~Bindable(rpc) -> "panicked"
    [] rpc.operations = 1 /\ Valid(rpc.route) /\ Bindable(rpc)
       -> IF rpc.verb \in Verbs THEN "rendered" ELSE "failed"

(* What renderService stops with: the verdict on its first bad method.     *)
Rendering(ms) ==
  LET Bad(i) == Verdict(ms[i]) \in {"failed", "panicked"}
  IN IF \E i \in DOMAIN ms : Bad(i)
       THEN Verdict(ms[CHOOSE i \in DOMAIN ms : Bad(i) /\ \A j \in 1..(i - 1) : ~Bad(j)])
       ELSE "running"

-----------------------------------------------------------------------------
(* Schemas.  A message is a component under its name, or, when a filter    *)
(* takes fields away from it, under its name and "Input"; no message is    *)
(* named like the "Input" of another one.                                  *)
Key(m, filter) == <<m, filter # <<>> >>
Keys(schemas) == {Key(s[1], s[2]) : s \in schemas}

(* The properties of the schema of m: the filter is not asked about the    *)
(* fields of a oneof.                                                      *)
Shown(m, filter) == {f \in Fields[m] : f.inOneOf \/ f.name \notin Range(filter)}

(* The messages that have a schema of their own: not the well-known ones,  *)
(* which are rendered inline.                                              *)
Named == Messages \ WellKnown

Embedded(schemas) ==
  {<<m, <<>> >> : m \in Named \cap
     {f.type : f \in UNION {Shown(s[1], s[2]) : s \in schemas}}}

(* Mutant: only the fields of the messages themselves are followed.        *)
Reached_Direct(schemas) == schemas \cup Embedded(schemas)

(* schemaContainer.Message on each of a set of messages: their schemas and *)
(* those of all the messages below them, a recursive one only once.  It is *)
(* the smallest set with the schemas that is closed under Embedded.        *)
Above(schemas) == {schemas \cup more : more \in SUBSET (Named \X {<<>>})}

Reached(schemas) ==
  {s \in schemas \cup (Named \X {<<>>}) :
     \A closed \in Above(schemas) : Embedded(closed) \subseteq closed => s \in closed}

Rendered(messages) == Reached({s \in messages : s[1] \in Named})

(* AddInput panics over a second filter for the same input.                *)
Clash(mt, m, filter) == filter # <<>> /\ \E s \in mt : s[1] = m /\ s[2] \notin {<<>>, filter}

-----------------------------------------------------------------------------
(* Paths.                                                                  *)

Template(name) == <<"{}", name>>

(* Mutant: every route keeps its own names.                                *)
CanonicalNames_Own(tkn) ==
  [i \in DOMAIN ParamsOf(tkn) |-> SnakeCase[ParamsOf(tkn)[i]]]

(* storeCanonicalRoute: the names the first route of its shape had.        *)
CanonicalNames(tkn) ==
  IF CanonicalKey(tkn) \in DOMAIN mapper
    THEN mapper[CanonicalKey(tkn)]
    ELSE [i \in DOMAIN ParamsOf(tkn) |-> SnakeCase[ParamsOf(tkn)[i]]]

(* The route of the document, with the canonical names in braces.          *)
SnakeRoute(tkn, names) ==
  [i \in DOMAIN tkn |-> IF tkn[i].IsParam THEN Template(names[tkn[i].ParamIndex + 1])
                                          ELSE Segment(tkn[i].Name)]

Operation(rpc, names) ==
  [names |-> names,
   query |-> rpc.query,
   output |-> Key(rpc.output, <<>>),
   body |-> IF rpc.verb \in {"GET", "HEAD"} THEN NoBody ELSE Key(rpc.input, Bound(rpc))]

(* Mutant: a path item is made anew for every operation.                   *)
AddOperation_NewItem(d, path, verb, op, schemas) ==
  [operations |-> Put([k \in {l \in DOMAIN d.operations : l[1] # path} |-> d.operations[k]],
                      <<path, verb>>, op),
   schemas |-> {s \in d.schemas : Key(s[1], s[2]) \notin Keys(schemas)} \cup schemas]

AddOperation(d, path, verb, op, schemas) ==
  [operations |-> Put(d.operations, <<path, verb>>, op),
   schemas |-> {s \in d.schemas : Key(s[1], s[2]) \notin Keys(schemas)} \cup schemas]

-----------------------------------------------------------------------------
(* The steps of Execute.  When one stops the process the rest of the state *)
(* does not matter any more.                                               *)

Init ==
  /\ program \in Programs
  /\ todo = Files
  /\ file = NoFile
  /\ step = "next"
  /\ service = 1
  /\ method = 1
  /\ mapper = NoMap
  /\ tracker = {}
  /\ doc = EmptyDoc
  /\ artifacts = {}
  /\ outcome = "running"
  /\ earlier = <<>>

At(where) == outcome = "running" /\ step = where

(* The loop of Execute, over a Go map.                                     *)
ProcessFile(f) ==
  /\ At("next")
  /\ f \in todo
  /\ todo' = todo \ {f}
  /\ file' = f
  /\ step' = "service"
  /\ service' = 1
  /\ UNCHANGED <<program, method, spec, artifacts, outcome, earlier>>

(* Mutant: the tracker belongs to the module instead of to the service.    *)
RenderService_KeepsTracker ==
  /\ At("service")
  /\ service \in DOMAIN Services
  /\ outcome' = IF Rendering(Methods) # "running" THEN Rendering(Methods)
                ELSE IF Services[service].valid THEN "running" ELSE "failed"
  /\ step' = "operation"
  /\ method' = 1
  /\ doc' = EmptyDoc
  /\ UNCHANGED <<program, todo, file, service, mapper, tracker, artifacts, earlier>>

(* renderService, and buildOpenAPIService up to its loop.                  *)
RenderService ==
  /\ At("service")
  /\ service \in DOMAIN Services
  /\ outcome' = IF Rendering(Methods) # "running" THEN Rendering(Methods)
                ELSE IF Services[service].valid THEN "running" ELSE "failed"
  /\ step' = "operation"
  /\ method' = 1
  /\ tracker' = {}
  /\ doc' = EmptyDoc
  /\ UNCHANGED <<program, todo, file, service, mapper, artifacts, earlier>>

SkipMethod ==
  /\ At("operation")
  /\ method \in DOMAIN Methods
  /\ Methods[method].operations = 0
  /\ method' = method + 1
  /\ UNCHANGED <<program, todo, file, step, service, spec, artifacts, outcome, earlier>>

(* buildOperation and addOperation.                                        *)
BuildOperation ==
  /\ At("operation")
  /\ method \in DOMAIN Methods
  /\ LET rpc == Methods[method]
         tkn == ParseRoute(rpc.route)
         names == CanonicalNames(tkn)
         op == Operation(rpc, names)
         filter == IF op.body = NoBody THEN <<>> ELSE Bound(rpc)
         known == tracker \cup {<<rpc.output, <<>> >>}
                    \cup IF op.body = NoBody THEN {} ELSE {<<rpc.input, filter>>}
     IN /\ rpc.operations # 0
        /\ mapper' = IF CanonicalKey(tkn) \in DOMAIN mapper THEN mapper
                     ELSE Put(mapper, CanonicalKey(tkn), names)
        /\ outcome' = IF ~rpc.valid THEN "failed"
                      ELSE IF Clash(tracker, rpc.input, filter) THEN "panicked"
                      ELSE "running"
        /\ IF outcome' = "running"
             THEN /\ tracker' = known
                  /\ doc' = AddOperation(doc, SnakeRoute(tkn, names), rpc.verb, op,
                                         Rendered(known))
             ELSE UNCHANGED <<tracker, doc>>
  /\ method' = method + 1
  /\ UNCHANGED <<program, todo, file, step, service, artifacts, earlier>>

Artifact(kind, n, d) == [kind |-> kind, file |-> file, service |-> n, doc |-> d]

(* The rest of renderOpenAPI, and AddGeneratorFile.                        *)
AddDocument ==
  /\ At("operation")
  /\ method \notin DOMAIN Methods
  /\ artifacts' = artifacts \cup {Artifact("service", service, doc)}
  /\ service' = service + 1
  /\ step' = "service"
  /\ UNCHANGED <<program, todo, file, method, spec, outcome, earlier>>

(* Mutant: a file without services is left before its forced messages.     *)
RenderForcedMessages_ServicesFirst ==
  /\ At("service")
  /\ service \notin DOMAIN Services
  /\ LET forced == {<<m, <<>> >> : m \in program[file].forced}
     IN artifacts' = IF forced = {} \/ Services = <<>> THEN artifacts
                     ELSE artifacts \cup {Artifact("messages", 0,
                            [EmptyDoc EXCEPT !.schemas = Rendered(forced)])}
  /\ step' = "gofile"
  /\ UNCHANGED <<program, todo, file, service, method, spec, outcome, earlier>>

(* renderForcedMessages.                                                   *)
RenderForcedMessages ==
  /\ At("service")
  /\ service \notin DOMAIN Services
  /\ LET forced == {<<m, <<>> >> : m \in program[file].forced}
     IN artifacts' = IF forced = {} THEN artifacts
                     ELSE artifacts \cup {Artifact("messages", 0,
                            [EmptyDoc EXCEPT !.schemas = Rendered(forced)])}
  /\ step' = "gofile"
  /\ UNCHANGED <<program, todo, file, service, method, spec, outcome, earlier>>

(* The end of applyTemplate and of processFile.                            *)
AddGoFile ==
  /\ At("gofile")
  /\ artifacts' = IF Services = <<>> THEN artifacts
                  ELSE artifacts \cup {Artifact("go", 0, EmptyDoc)}
  /\ file' = NoFile
  /\ step' = "next"
  /\ UNCHANGED <<program, todo, service, method, spec, outcome, earlier>>

Return ==
  /\ At("next")
  /\ todo = {}
  /\ outcome' = "done"
  /\ UNCHANGED <<program, place, spec, artifacts, earlier>>

(* The plugin is run again on the same input, by a new process.            *)
Result == [outcome |-> outcome, artifacts |-> IF outcome = "done" THEN artifacts ELSE {}]

Rerun ==
  /\ outcome # "running"
  /\ Len(earlier) + 1 < MaxRuns
  /\ earlier' = Append(earlier, Result)
  /\ todo' = Files
  /\ file' = NoFile
  /\ step' = "next"
  /\ service' = 1
  /\ method' = 1
  /\ mapper' = NoMap
  /\ tracker' = {}
  /\ doc' = EmptyDoc
  /\ artifacts' = {}
  /\ outcome' = "running"
  /\ UNCHANGED program

Over == outcome # "running" /\ Len(earlier) + 1 >= MaxRuns /\ UNCHANGED vars

PluginStep ==
  \/ \E f \in Files : ProcessFile(f)
  \/ RenderService \/ SkipMethod \/ BuildOperation \/ AddDocument
  \/ RenderForcedMessages \/ AddGoFile \/ Return

Next == PluginStep \/ Rerun \/ Over

Spec == Init /\ [][Next]_vars

-----------------------------------------------------------------------------
(* Properties.                                                             *)

KeySet == Messages \X BOOLEAN
SchemaSet == Messages \X Seq(ParamNames)
OperationSet == [names : Seq(STRING), query : Seq(ParamNames), output : KeySet,
                 body : KeySet \cup {NoBody}]

DocTyped(d) == /\ \A k \in DOMAIN d.operations : d.operations[k] \in OperationSet
               /\ d.schemas \subseteq SchemaSet

(* Every canonical route has a name for each of its parameters: buildOpera-*)
(* tion indexes params with the ParamIndex of other routes                 *)
(* (apigw_openapi.go:265).                                                 *)
ParamCount(key) == Cardinality({i \in DOMAIN key : key[i][1] = ":"})

TypeOK ==
  /\ program \in ProgramSet
  /\ todo \subseteq Files
  /\ file \in Files \cup {NoFile}
  /\ step \in {"next", "service", "operation", "gofile"}
  /\ service \in Nat
  /\ method \in Nat
  /\ \A key \in DOMAIN mapper : /\ mapper[key] \in Seq(STRING)
                                /\ Len(mapper[key]) = ParamCount(key)
  /\ tracker \subseteq SchemaSet
  /\ DocTyped(doc)
  /\ \A a \in artifacts : DocTyped(a.doc)
  /\ outcome \in {"running", "done", "failed", "panicked"}

(* The documents of this run, the one being built included.                *)
Docs == {a.doc : a \in artifacts} \cup {doc}

ErasedRoute(tkn) ==
  [i \in DOMAIN tkn |-> IF tkn[i].IsParam THEN Template("") ELSE Segment(tkn[i].Name)]
Erased(path) == [i \in DOMAIN path |-> IF path[i][1] = "{}" THEN Template("") ELSE path[i]]

TemplateNames(path) ==
  LET ts == Selected(path, {i \in DOMAIN path : path[i][1] = "{}"}) IN
  [n \in DOMAIN ts |-> ts[n][2]]

(* Routes that differ in the names of their parameters only are one path   *)
(* in all the documents of a run, whichever file or service they are in,   *)
(* and each operation documents its path parameters under the names its    *)
(* path has (the comment on canonicalRouteMapper, apigw.go:31-34).         *)
OnePathPerRoute ==
  \A d, e \in Docs : \A k \in DOMAIN d.operations, l \in DOMAIN e.operations :
    /\ Erased(k[1]) = Erased(l[1]) => k[1] = l[1]
    /\ d.operations[k].names = TemplateNames(k[1])

Documents(d, ms, i) ==
  \E j \in DOMAIN ms, k \in DOMAIN d.operations :
    /\ CanonicalKey(ParseRoute(ms[j].route)) = CanonicalKey(ParseRoute(ms[i].route))
    /\ Erased(k[1]) = ErasedRoute(ParseRoute(ms[i].route))
    /\ k[2] = ms[i].verb
    /\ ms[j].verb = ms[i].verb
    /\ ms[j].operations # 0
    /\ d.operations[k] = Operation(ms[j], d.operations[k].names)

(* The document of a service has every operation of it; what two methods   *)
(* contend for, the same verb on the same route up to parameter names, one *)
(* of them gets: ginapi would refuse to register such a service.           *)
OperationsPresent ==
  \A a \in artifacts : a.kind = "service" =>
    LET ms == program[a.file].services[a.service].methods IN
    \A i \in DOMAIN ms : ms[i].operations = 1 => Documents(a.doc, ms, i)

(* References to messages that are not well-known resolve to one schema,   *)
(* in the document of the operation as in the schemas themselves, however  *)
(* the messages of the service's other methods were added before.          *)
RefsResolve ==
  \A d \in Docs :
    /\ \A k \in DOMAIN d.operations :
         \A ref \in {d.operations[k].output, d.operations[k].body} \ {NoBody} :
           ref[1] \in Named => Cardinality({s \in d.schemas : Key(s[1], s[2]) = ref}) = 1
    /\ Embedded(d.schemas) \subseteq d.schemas

ServiceDone(f, n) ==
  LET ms == program[f].services[n].methods IN
  /\ \E a \in artifacts : a.kind = "service" /\ a.file = f /\ a.service = n
  /\ \A i \in DOMAIN ms : Verdict(ms[i]) \in {"skipped", "rendered"}

ForcedDone(f) ==
  program[f].forced # {} => \E a \in artifacts : a.kind = "messages" /\ a.file = f

FileDone(f) ==
  /\ \A n \in DOMAIN program[f].services : ServiceDone(f, n)
  /\ ForcedDone(f)
  /\ program[f].services # <<>> => \E a \in artifacts : a.kind = "go" /\ a.file = f

(* A run that ends well has written, for every file, a document for each   *)
(* service, one for its forced messages and the Go code; and it ends well  *)
(* only if every method is one it supports.                                *)
Complete == outcome = "done" => \A f \in Files : FileDone(f)

(* The order in which Go iterates over the targets shows in nothing but    *)
(* the names of path parameters: two runs on one input both write their    *)
(* files or neither does, and what they write is the same up to the names. *)
ErasedOperation(op) == [op EXCEPT !.names = Len(@)]
Entries(d) ==
  {<<Erased(k[1]), k[2], ErasedOperation(d.operations[k])>> : k \in DOMAIN d.operations}
ErasedArtifact(a) ==
  [kind |-> a.kind, file |-> a.file, service |-> a.service, schemas |-> a.doc.schemas,
   operations |-> Entries(a.doc)]

Reproducible ==
  outcome # "running" => \A i \in DOMAIN earlier :
    /\ (earlier[i].outcome = "done") = (Result.outcome = "done")
    /\ {ErasedArtifact(a) : a \in earlier[i].artifacts} =
         {ErasedArtifact(a) : a \in Result.artifacts}

(* The parts of the inductive invariant of the safety proofs.  Where the   *)
(* loops are, and what is behind them.                                     *)
Placed ==
  /\ file = NoFile <=> step = "next"
  /\ file \notin todo
  /\ service > 0 /\ method > 0
  /\ step = "operation" => service \in DOMAIN Services
  /\ outcome = "done" => step = "next" /\ todo = {}

Worked ==
  outcome \in {"running", "done"} =>
    /\ \A f \in Files \ todo : f # file => FileDone(f)
    /\ step # "next" => \A n \in DOMAIN Services : n < service => ServiceDone(file, n)
    /\ step = "operation" =>
         \A i \in DOMAIN Methods : Verdict(Methods[i]) \in {"skipped", "rendered"}
    /\ step = "gofile" => ForcedDone(file) /\ \A n \in DOMAIN Services : n < service

Documented ==
  outcome = "running" /\ step = "operation" =>
    \A i \in DOMAIN Methods :
      i < method /\ Methods[i].operations = 1 => Documents(doc, Methods, i)

(* Every path is made of a canonical route and the names kept for it.      *)
Wilds(key) == {i \in DOMAIN key : key[i][1] = ":"}

Canonical(key) ==
  /\ Len(key) \in Nat
  /\ key = [i \in 1..Len(key) |->
              IF i \in Wilds(key) THEN Wild(Cardinality({j \in Wilds(key) : j < i}))
                                  ELSE Segment(key[i][2])]

PathOf(key, names) ==
  [i \in DOMAIN key |-> IF i \in Wilds(key) THEN Template(names[key[i][2] + 1]) ELSE key[i]]

Mapped ==
  /\ \A key \in DOMAIN mapper : Canonical(key)
  /\ \A d \in Docs : \A k \in DOMAIN d.operations : \E key \in DOMAIN mapper :
       k[1] = PathOf(key, mapper[key]) /\ d.operations[k].names = mapper[key]

(* The document under construction follows the tracker of its service.     *)
Tracked ==
  /\ \A s, t \in tracker : s[1] = t[1] /\ <<>> \notin {s[2], t[2]} => s = t
  /\ doc.schemas = Rendered(tracker)
  /\ \A k \in DOMAIN doc.operations :
       {doc.operations[k].output, doc.operations[k].body} \subseteq Keys(tracker) \cup {NoBody}

(* apigw_openapi_schema.go:124-125: well-known types are rendered inline,  *)
(* and not a Ref.                                                          *)
WellKnownInline ==
  \A d \in Docs : \A k \in DOMAIN d.operations :
    d.operations[k].output \in Keys(d.schemas)
=============================================================================
