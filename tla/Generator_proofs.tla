-------------------------- MODULE Generator_proofs --------------------------
(***************************************************************************)
(* Theorems about Generator: for every set of files, services, methods and *)
(* messages, and every order of Go's map iteration.                        *)
(***************************************************************************)
EXTENDS Generator, Routes_proofs

-----------------------------------------------------------------------------
(* Routes, parameters and names.                                           *)

LEMMA ParamsOfRoute ==
  ASSUME NEW route \in RouteSet
  PROVE  LET tkn == ParseRoute(route)
             P == ParamsAt(tkn)
         IN /\ P \in SUBSET Nat /\ IsFiniteSet(P) /\ Cardinality(P) \in Nat
            /\ ParamsOf(tkn) \in Seq(ParamNames)
            /\ DOMAIN ParamsOf(tkn) = 1..Cardinality(P)
            /\ Len(ParamsOf(tkn)) = Cardinality(P)
<1> DEFINE tkn == ParseRoute(route)
           P == ParamsAt(tkn)
<1>1. /\ tkn \in Seq(Parsed)
      /\ \A i \in P : tkn[i].Name \in ParamNames
  BY ParsedRoute
<1> HIDE DEF tkn
<1>2. P \in SUBSET DOMAIN tkn
  BY DEF ParamsAt
<1>3. P \in SUBSET Nat /\ IsFiniteSet(P) /\ Cardinality(P) \in Nat
  BY <1>1, <1>2, Positions
<1>4. Params(tkn) = Selected(tkn, P)
  BY DEF Params, ParamsAt
<1>5. DOMAIN Params(tkn) = 1..Cardinality(P)
  BY <1>1, <1>2, <1>4, SelectedType
<1>6. \A n \in 1..Cardinality(P) : Params(tkn)[n].Name \in ParamNames
  BY <1>1, <1>2, <1>4, SelectedElements
<1>7. ParamsOf(tkn) = [n \in 1..Cardinality(P) |-> Params(tkn)[n].Name]
  BY <1>5 DEF ParamsOf
<1>8. ParamsOf(tkn) \in Seq(ParamNames) /\ Len(ParamsOf(tkn)) = Cardinality(P)
  BY <1>3, <1>6, <1>7
<1>9. QED
  BY <1>3, <1>5, <1>7, <1>8 DEF tkn

LEMMA BoundType ==
  ASSUME NEW rpc \in RpcSet
  PROVE  /\ rpc.route \in RouteSet /\ rpc.query \in Seq(ParamNames)
         /\ rpc.input \in Messages /\ rpc.output \in Messages
         /\ rpc.operations \in Nat /\ rpc.valid \in BOOLEAN
         /\ Bound(rpc) \in Seq(ParamNames)
<1>1. /\ rpc.route \in RouteSet /\ rpc.query \in Seq(ParamNames)
      /\ rpc.input \in Messages /\ rpc.output \in Messages
      /\ rpc.operations \in Nat /\ rpc.valid \in BOOLEAN
  BY DEF RpcSet
<1>2. ParamsOf(ParseRoute(rpc.route)) \in Seq(ParamNames)
  BY <1>1, ParamsOfRoute
<1>3. QED
  BY <1>1, <1>2 DEF Bound

(* The wildcards of a key are the parameters of the route it is made of.   *)
LEMMA KeyOfRoute ==
  ASSUME NEW route \in RouteSet
  PROVE  LET tkn == ParseRoute(route)
             key == CanonicalKey(tkn)
         IN /\ DOMAIN key = DOMAIN tkn
            /\ Wilds(key) = ParamsAt(tkn)
            /\ ParamCount(key) = Cardinality(ParamsAt(tkn))
            /\ Canonical(key)
<1> DEFINE tkn == ParseRoute(route)
           key == CanonicalKey(tkn)
<1>1. \A i \in ParamsAt(tkn) : tkn[i].ParamIndex = Rank(ParamsAt(tkn), i)
  BY ParsedRoute
<1> HIDE DEF tkn
<1>2. DOMAIN key = DOMAIN tkn
  BY DEF CanonicalKey
<1>3. \A i \in DOMAIN tkn : key[i] = IF tkn[i].IsParam THEN Wild(tkn[i].ParamIndex)
                                                      ELSE Segment(tkn[i].Name)
  BY DEF CanonicalKey
<1> HIDE DEF key
<1>4. Wilds(key) = ParamsAt(tkn)
  <2>1. \A n : Wild(n)[1] = ":" /\ Segment(n)[1] = "" /\ Segment(n)[2] = n
    BY DEF Wild, Segment
  <2>2. \A i \in DOMAIN tkn : key[i][1] = ":" <=> tkn[i].IsParam
    BY <1>3, <2>1
  <2>3. QED
    BY <1>2, <2>2 DEF Wilds, ParamsAt
<1>5. ParamCount(key) = Cardinality(ParamsAt(tkn))
  BY <1>4 DEF ParamCount, Wilds
<1>6. ASSUME NEW i \in DOMAIN key
      PROVE  key[i] = IF i \in Wilds(key) THEN Wild(Cardinality({j \in Wilds(key) : j < i}))
                                          ELSE Segment(key[i][2])
  <2>1. CASE i \in ParamsAt(tkn)
    BY <1>1, <1>3, <1>4, <2>1 DEF ParamsAt, Rank
  <2>2. CASE i \notin ParamsAt(tkn)
    <3>1. key[i] = Segment(tkn[i].Name)
      BY <1>2, <1>3, <2>2 DEF ParamsAt
    <3>2. Segment(tkn[i].Name)[2] = tkn[i].Name
      BY DEF Segment
    <3>3. QED
      BY <1>4, <2>2, <3>1, <3>2
  <2>3. QED
    BY <1>4, <2>1, <2>2
<1>7. Canonical(key)
  <2>1. tkn \in Seq(Parsed)
    BY ParsedRoute DEF tkn
  <2>2. key = [i \in DOMAIN tkn |-> key[i]]
    BY DEF key, CanonicalKey
  <2>3. DOMAIN key = 1..Len(key) /\ Len(key) \in Nat
    BY <2>1, <2>2
  <2>4. key = [i \in 1..Len(key) |-> key[i]]
    BY <2>2, <2>3
  <2>5. QED
    BY <1>6, <2>3, <2>4 DEF Canonical
<1>8. QED
  BY <1>2, <1>4, <1>5, <1>7 DEF tkn, key

-----------------------------------------------------------------------------
(* Schemas.                                                                *)

LEMMA RenderedType ==
  ASSUME NEW mt \in SUBSET SchemaSet
  PROVE  Rendered(mt) \in SUBSET SchemaSet
<1>1. \A m \in Named : <<m, <<>> >> \in SchemaSet
  <2>1. <<>> \in Seq(ParamNames) /\ Named \in SUBSET Messages
    BY DEF Named
  <2>2. QED
    BY <2>1 DEF SchemaSet
<1>2. Rendered(mt) \subseteq {s \in mt : s[1] \in Named} \cup (Named \X {<<>>})
  BY DEF Rendered, Reached
<1>3. QED
  BY <1>1, <1>2

-----------------------------------------------------------------------------
(* The verdicts on the methods of a service.                               *)

Good(rpc) == Verdict(rpc) \in {"skipped", "rendered"}

LEMMA VerdictType ==
  ASSUME NEW rpc \in RpcSet
  PROVE  Verdict(rpc) \in {"skipped", "rendered", "failed", "panicked"}
<1>1. rpc.operations \in Nat
  BY DEF RpcSet
<1>2. CASE rpc.operations = 0
  BY <1>2 DEF Verdict
<1>3. CASE rpc.operations > 1 \/ (rpc.operations = 1 /\ ~Valid(rpc.route))
  BY <1>1, <1>3 DEF Verdict
<1>4. CASE rpc.operations = 1 /\ Valid(rpc.route)
  <2>1. CASE Bindable(rpc)
    BY <1>4, <2>1 DEF Verdict
  <2>2. CASE ~Bindable(rpc)
    BY <1>4, <2>2 DEF Verdict
  <2>3. QED
    BY <2>1, <2>2
<1>5. QED
  BY <1>1, <1>2, <1>3, <1>4

(* renderService goes on exactly when it has no bad method.                *)
LEMMA RenderingType ==
  ASSUME NEW ms \in Seq(RpcSet)
  PROVE  \/ Rendering(ms) = "running" /\ \A i \in DOMAIN ms : Good(ms[i])
         \/ Rendering(ms) \in {"failed", "panicked"}
<1> DEFINE Bad(i) == Verdict(ms[i]) \in {"failed", "panicked"}
           First(i) == Bad(i) /\ \A j \in 1..(i - 1) : ~Bad(j)
           bad == {i \in DOMAIN ms : Bad(i)}
<1>1. \A i \in DOMAIN ms : Bad(i) \/ Good(ms[i])
  <2>1. \A i \in DOMAIN ms : ms[i] \in RpcSet
    OBVIOUS
  <2>2. QED
    BY <2>1, VerdictType DEF Good
<1>2. Rendering(ms) = IF bad # {} THEN Verdict(ms[CHOOSE i \in DOMAIN ms : First(i)])
                                  ELSE "running"
  BY DEF Rendering
<1>3. CASE bad = {}
  BY <1>1, <1>2, <1>3
<1>4. CASE bad # {}
  <2>1. bad \in SUBSET Nat
    OBVIOUS
  <2>2. PICK i \in bad : \A j \in bad : i <= j
    BY <1>4, <2>1, Least
  <2>3. i \in DOMAIN ms /\ First(i)
    <3>1. i \in 1..Len(ms) /\ Len(ms) \in Nat
      OBVIOUS
    <3>2. ASSUME NEW j \in 1..(i - 1) PROVE ~Bad(j)
      <4>1. j \in DOMAIN ms /\ ~(i <= j)
        BY <3>1
      <4>2. QED
        BY <2>2, <4>1
    <3>3. QED
      BY <3>1, <3>2
  <2> DEFINE first == CHOOSE k \in DOMAIN ms : First(k)
  <2> HIDE DEF First
  <2>4. First(first)
    BY <2>3
  <2>5. Bad(first)
    BY <2>4 DEF First
  <2>6. QED
    BY <1>2, <1>4, <2>5
<1>5. QED
  BY <1>3, <1>4

-----------------------------------------------------------------------------
(* Types, and where the loops are.                                         *)

TypeInv == TypeOK /\ Placed

(* The method the plugin is at is one of a program's.                      *)
LEMMA HereTyped ==
  ASSUME TypeOK, Placed, step # "next"
  PROVE  /\ file \in Files
         /\ program[file].forced \in SUBSET Messages
         /\ Services \in Seq(ServiceSet)
         /\ service \in DOMAIN Services =>
              /\ Methods \in Seq(RpcSet)
              /\ \A i \in DOMAIN Methods : Methods[i] \in RpcSet
<1>1. file \in Files
  BY DEF TypeOK, Placed
<1>2. program[file] \in [services : Seq(ServiceSet), forced : SUBSET Messages]
  BY <1>1 DEF TypeOK, ProgramSet
<1>3. Services \in Seq(ServiceSet) /\ program[file].forced \in SUBSET Messages
  BY <1>2 DEF Services
<1>4. ASSUME service \in DOMAIN Services PROVE Methods \in Seq(RpcSet)
  <2>1. Services[service] \in ServiceSet
    BY <1>3, <1>4
  <2>2. QED
    BY <2>1 DEF ServiceSet, Methods
<1>5. QED
  BY <1>1, <1>3, <1>4

(* The names of a canonical route: as many as it has parameters.           *)
LEMMA NamesType ==
  ASSUME TypeOK, NEW route \in RouteSet
  PROVE  LET tkn == ParseRoute(route) IN
         /\ CanonicalNames(tkn) \in Seq(STRING)
         /\ Len(CanonicalNames(tkn)) = ParamCount(CanonicalKey(tkn))
<1> DEFINE tkn == ParseRoute(route)
           ps == ParamsOf(tkn)
<1>1. /\ ps \in Seq(ParamNames)
      /\ Len(ps) = ParamCount(CanonicalKey(tkn))
  BY ParamsOfRoute, KeyOfRoute
<1>2. CASE CanonicalKey(tkn) \in DOMAIN mapper
  BY <1>2 DEF CanonicalNames, TypeOK
<1>3. CASE CanonicalKey(tkn) \notin DOMAIN mapper
  <2>1. CanonicalNames(tkn) = [i \in DOMAIN ps |-> SnakeCase[ps[i]]]
    BY <1>3 DEF CanonicalNames
  <2>2. \A i \in DOMAIN ps : SnakeCase[ps[i]] \in STRING
    BY <1>1, GeneratorAssumption
  <2>3. CanonicalNames(tkn) \in Seq(STRING) /\ Len(CanonicalNames(tkn)) = Len(ps)
    BY <1>1, <2>1, <2>2
  <2>4. QED
    BY <1>1, <2>3
<1>4. QED
  BY <1>2, <1>3

LEMMA TypeInit == Init => TypeInv
<1>1. SUFFICES ASSUME Init PROVE TypeOK /\ Placed
  BY DEF TypeInv
<1>2. DocTyped(EmptyDoc)
  BY DEF DocTyped, EmptyDoc, NoMap
<1>3. DOMAIN NoMap = {}
  BY DEF NoMap
<1>4. TypeOK
  BY <1>1, <1>2, <1>3, GeneratorAssumption DEF Init, TypeOK
<1>5. Placed
  BY <1>1, GeneratorAssumption DEF Init, Placed
<1>6. QED
  BY <1>4, <1>5

LEMMA OperationType ==
  ASSUME NEW rpc \in RpcSet, NEW names \in Seq(STRING)
  PROVE  /\ Operation(rpc, names) \in OperationSet
         /\ Operation(rpc, names).body \in {NoBody, Key(rpc.input, Bound(rpc))}
<1>1. /\ rpc.query \in Seq(ParamNames)
      /\ rpc.input \in Messages /\ rpc.output \in Messages
  BY BoundType
<1>2. Key(rpc.output, <<>>) \in KeySet /\ Key(rpc.input, Bound(rpc)) \in KeySet
  BY <1>1 DEF Key, KeySet
<1>3. Operation(rpc, names).body \in {NoBody, Key(rpc.input, Bound(rpc))}
  BY DEF Operation
<1>4. Operation(rpc, names) =
        [names |-> names, query |-> rpc.query, output |-> Key(rpc.output, <<>>),
         body |-> Operation(rpc, names).body]
  BY DEF Operation
<1>5. Operation(rpc, names).body \in KeySet \cup {NoBody}
  BY <1>2, <1>3
<1>6. ASSUME NEW b \in KeySet \cup {NoBody}, NEW o \in KeySet
      PROVE  [names |-> names, query |-> rpc.query, output |-> o, body |-> b] \in OperationSet
  BY <1>1 DEF OperationSet
<1>7. QED
  BY <1>2, <1>3, <1>4, <1>5, <1>6

LEMMA AddOperationType ==
  ASSUME NEW d, DocTyped(d), NEW path, NEW verb, NEW op \in OperationSet,
         NEW schemas \in SUBSET SchemaSet
  PROVE  DocTyped(AddOperation(d, path, verb, op, schemas))
<1> DEFINE e == AddOperation(d, path, verb, op, schemas)
           key == <<path, verb>>
<1>1. e.operations = Put(d.operations, key, op) /\ e.schemas \subseteq d.schemas \cup schemas
  BY DEF AddOperation
<1> HIDE DEF e, key
<1>2. e.schemas \in SUBSET SchemaSet
  BY <1>1 DEF DocTyped
<1>3. ASSUME NEW k \in DOMAIN e.operations PROVE e.operations[k] \in OperationSet
  <2>1. /\ DOMAIN e.operations = DOMAIN d.operations \cup {key}
        /\ e.operations[key] = op
        /\ \A x \in DOMAIN d.operations \ {key} : e.operations[x] = d.operations[x]
    BY <1>1 DEF Put
  <2>2. \A x \in DOMAIN d.operations : d.operations[x] \in OperationSet
    BY DEF DocTyped
  <2>3. k = key \/ k \in DOMAIN d.operations \ {key}
    BY <2>1
  <2>4. QED
    BY <2>1, <2>2, <2>3
<1>4. QED
  BY <1>2, <1>3 DEF DocTyped, e

(* buildOperation, with the values its definition names.                   *)
Known(rpc, names) ==
  LET op == Operation(rpc, names)
      filter == IF op.body = NoBody THEN <<>> ELSE Bound(rpc)
  IN tracker \cup {<<rpc.output, <<>> >>}
       \cup IF op.body = NoBody THEN {} ELSE {<<rpc.input, filter>>}

Filter(rpc, names) == IF Operation(rpc, names).body = NoBody THEN <<>> ELSE Bound(rpc)

Built(rpc, tkn, names) ==
  /\ rpc.operations # 0
  /\ mapper' = IF CanonicalKey(tkn) \in DOMAIN mapper THEN mapper
               ELSE Put(mapper, CanonicalKey(tkn), names)
  /\ outcome' = IF ~rpc.valid THEN "failed"
                ELSE IF Clash(tracker, rpc.input, Filter(rpc, names)) THEN "panicked"
                ELSE "running"
  /\ IF outcome' = "running"
       THEN /\ tracker' = Known(rpc, names)
            /\ doc' = AddOperation(doc, SnakeRoute(tkn, names), rpc.verb,
                                   Operation(rpc, names), Rendered(Known(rpc, names)))
       ELSE UNCHANGED <<tracker, doc>>

LEMMA BuildOperationParts ==
  ASSUME TypeOK, Placed, BuildOperation
  PROVE  /\ outcome = "running" /\ step = "operation" /\ method \in DOMAIN Methods
         /\ Methods[method] \in RpcSet
         /\ method' = method + 1
         /\ UNCHANGED <<program, todo, file, step, service, artifacts, earlier>>
         /\ Built(Methods[method], ParseRoute(Methods[method].route),
                  CanonicalNames(ParseRoute(Methods[method].route)))
<1>1. outcome = "running" /\ step = "operation" /\ method \in DOMAIN Methods
  BY DEF BuildOperation, At
<1>2. Methods[method] \in RpcSet
  BY <1>1, HereTyped DEF Placed
<1>3. QED
  BY <1>1, <1>2 DEF BuildOperation, Built, Known, Filter

LEMMA KnownType ==
  ASSUME TypeOK, NEW rpc \in RpcSet, NEW names
  PROVE  Known(rpc, names) \in SUBSET SchemaSet
<1>1. rpc.output \in Messages /\ rpc.input \in Messages /\ Bound(rpc) \in Seq(ParamNames)
  BY BoundType
<1>2. <<>> \in Seq(ParamNames)
  OBVIOUS
<1>3. tracker \in SUBSET SchemaSet
  BY DEF TypeOK
<1>4. ASSUME NEW m \in Messages, NEW f \in Seq(ParamNames) PROVE <<m, f>> \in SchemaSet
  BY DEF SchemaSet
<1>5. CASE Operation(rpc, names).body = NoBody
  BY <1>1, <1>2, <1>3, <1>4, <1>5 DEF Known
<1>6. CASE Operation(rpc, names).body # NoBody
  BY <1>1, <1>2, <1>3, <1>4, <1>6 DEF Known
<1>7. QED
  BY <1>5, <1>6

LEMMA BuildOperationType ==
  ASSUME TypeInv, BuildOperation
  PROVE  TypeInv'
<1> USE DEF TypeInv
<1> DEFINE rpc == Methods[method]
           tkn == ParseRoute(rpc.route)
           key == CanonicalKey(tkn)
           names == CanonicalNames(tkn)
<1>1. /\ outcome = "running" /\ step = "operation" /\ method \in DOMAIN Methods
      /\ rpc \in RpcSet /\ method' = method + 1
      /\ UNCHANGED <<program, todo, file, step, service, artifacts, earlier>>
      /\ Built(rpc, tkn, names)
  BY BuildOperationParts
<1>2. names \in Seq(STRING) /\ Len(names) = ParamCount(key)
  BY <1>1, BoundType, NamesType
<1> HIDE DEF rpc, tkn, key, names
<1>3. outcome' \in {"running", "failed", "panicked"}
  BY <1>1 DEF Built
<1>4. \A k \in DOMAIN mapper' : mapper'[k] \in Seq(STRING) /\ Len(mapper'[k]) = ParamCount(k)
  <2>1. CASE mapper' = mapper
    BY <2>1 DEF TypeOK
  <2>2. CASE mapper' = Put(mapper, key, names)
    BY <1>2, <2>2 DEF TypeOK, Put
  <2>3. QED
    BY <1>1, <2>1, <2>2 DEF Built, key
<1>5. tracker' \subseteq SchemaSet /\ DocTyped(doc)'
  <2>1. CASE outcome' = "running"
    <3>1. /\ tracker' = Known(rpc, names)
          /\ doc' = AddOperation(doc, SnakeRoute(tkn, names), rpc.verb,
                                 Operation(rpc, names), Rendered(Known(rpc, names)))
      BY <1>1, <2>1 DEF Built
    <3>2. /\ Known(rpc, names) \in SUBSET SchemaSet
          /\ Rendered(Known(rpc, names)) \in SUBSET SchemaSet
      BY <1>1, KnownType, RenderedType
    <3>3. DocTyped(doc')
      <4>1. Operation(rpc, names) \in OperationSet /\ DocTyped(doc)
        BY <1>1, <1>2, OperationType DEF TypeOK
      <4>2. QED
        BY <3>1, <3>2, <4>1, AddOperationType
    <3>4. QED
      BY <3>1, <3>2, <3>3 DEF DocTyped
  <2>2. CASE outcome' # "running"
    BY <1>1, <2>2 DEF Built, TypeOK, DocTyped
  <2>3. QED
    BY <2>1, <2>2
<1>6. TypeOK'
  BY <1>1, <1>3, <1>4, <1>5 DEF TypeOK, DocTyped
<1>7. Placed'
  BY <1>1, <1>3 DEF Placed, TypeOK, Services
<1>8. QED
  BY <1>6, <1>7

(* The rest of a file's document and artifacts.                            *)
LEMMA ArtifactsTyped ==
  ASSUME TypeInv, file \in Files
  PROVE  \A n : /\ DocTyped(Artifact("service", n, doc).doc)
                /\ DocTyped(Artifact("go", n, EmptyDoc).doc)
                /\ program[file].forced \in SUBSET Messages =>
                     DocTyped(Artifact("messages", n,
                       [EmptyDoc EXCEPT !.schemas =
                          Rendered({<<m, <<>> >> : m \in program[file].forced})]).doc)
<1>1. DocTyped(doc) /\ DocTyped(EmptyDoc)
  BY DEF TypeInv, TypeOK, DocTyped, EmptyDoc, NoMap
<1>2. ASSUME program[file].forced \in SUBSET Messages
      PROVE  DocTyped([EmptyDoc EXCEPT !.schemas =
                         Rendered({<<m, <<>> >> : m \in program[file].forced})])
  <2> DEFINE forced == {<<m, <<>> >> : m \in program[file].forced}
  <2>1. <<>> \in Seq(ParamNames)
    OBVIOUS
  <2>2. forced \in SUBSET SchemaSet
    <3>1. \A m \in program[file].forced : <<m, <<>> >> \in SchemaSet
      BY <1>2, <2>1 DEF SchemaSet
    <3>2. QED
      BY <3>1
  <2>3. Rendered(forced) \in SUBSET SchemaSet
    BY <2>2, RenderedType
  <2>4. QED
    BY <2>3 DEF DocTyped, EmptyDoc, NoMap
<1>3. QED
  BY <1>1, <1>2 DEF Artifact

LEMMA TypeNext == TypeInv /\ [Next]_vars => TypeInv'
<1>1. SUFFICES ASSUME TypeInv, [Next]_vars PROVE TypeInv'
  OBVIOUS
<1> USE DEF TypeInv
<1>2. DocTyped(EmptyDoc) /\ DOMAIN NoMap = {}
  BY DEF DocTyped, EmptyDoc, NoMap
<1>3. ASSUME NEW f \in Files, ProcessFile(f) PROVE TypeInv'
  <2>1. TypeOK'
    BY <1>1, <1>3 DEF ProcessFile, spec, TypeOK, DocTyped
  <2>2. Placed'
    BY <1>1, <1>3, GeneratorAssumption DEF ProcessFile, At, Placed, TypeOK
  <2>3. QED
    BY <2>1, <2>2
<1>4. CASE RenderService
  <2>1. outcome' \in {"running", "failed", "panicked"}
    <3>1. service \in DOMAIN Services /\ step = "service"
      BY <1>4 DEF RenderService, At
    <3>2. Methods \in Seq(RpcSet)
      BY <1>1, <3>1, HereTyped
    <3>3. Rendering(Methods) \in {"running", "failed", "panicked"}
      BY <3>2, RenderingType
    <3>4. QED
      BY <1>4, <3>3 DEF RenderService
  <2>2. TypeOK'
    BY <1>1, <1>2, <1>4, <2>1 DEF RenderService, TypeOK, DocTyped
  <2>3. Placed'
    BY <1>1, <1>4, <2>1 DEF RenderService, At, Placed, TypeOK, Services
  <2>4. QED
    BY <2>2, <2>3
<1>5. CASE SkipMethod
  <2>1. TypeOK'
    BY <1>1, <1>5 DEF SkipMethod, spec, TypeOK, DocTyped
  <2>2. Placed'
    BY <1>1, <1>5 DEF SkipMethod, Placed, TypeOK, Services
  <2>3. QED
    BY <2>1, <2>2
<1>6. CASE BuildOperation
  BY <1>1, <1>6, BuildOperationType
<1>7. CASE AddDocument
  <2>1. step = "operation" /\ file \in Files
    BY <1>1, <1>7 DEF AddDocument, At, Placed, TypeOK
  <2>2. \A a \in artifacts' : DocTyped(a.doc)
    BY <1>1, <1>7, <2>1, ArtifactsTyped DEF AddDocument, TypeOK
  <2>3. TypeOK'
    BY <1>1, <1>7, <2>2 DEF AddDocument, spec, TypeOK, DocTyped
  <2>4. Placed'
    BY <1>1, <1>7 DEF AddDocument, At, Placed, TypeOK
  <2>5. QED
    BY <2>3, <2>4
<1>8. CASE RenderForcedMessages
  <2>1. step = "service" /\ file \in Files /\ program[file].forced \in SUBSET Messages
    BY <1>1, <1>8, HereTyped DEF RenderForcedMessages, At
  <2>2. \A a \in artifacts' : DocTyped(a.doc)
    BY <1>1, <1>8, <2>1, ArtifactsTyped DEF RenderForcedMessages, TypeOK
  <2>3. TypeOK'
    BY <1>1, <1>8, <2>2 DEF RenderForcedMessages, spec, TypeOK, DocTyped
  <2>4. Placed'
    BY <1>1, <1>8 DEF RenderForcedMessages, At, Placed, TypeOK
  <2>5. QED
    BY <2>3, <2>4
<1>9. CASE AddGoFile
  <2>1. step = "gofile" /\ file \in Files
    BY <1>1, <1>9 DEF AddGoFile, At, Placed, TypeOK
  <2>2. \A a \in artifacts' : DocTyped(a.doc)
    BY <1>1, <1>9, <2>1, ArtifactsTyped DEF AddGoFile, TypeOK
  <2>3. TypeOK'
    BY <1>1, <1>9, <2>2 DEF AddGoFile, spec, TypeOK, DocTyped
  <2>4. Placed'
    BY <1>1, <1>9, GeneratorAssumption DEF AddGoFile, At, Placed, TypeOK
  <2>5. QED
    BY <2>3, <2>4
<1>10. CASE Return
  BY <1>1, <1>10 DEF Return, At, place, spec, TypeOK, DocTyped, Placed, Services
<1>11. CASE Rerun
  BY <1>1, <1>2, <1>11, GeneratorAssumption DEF Rerun, TypeOK, DocTyped, Placed
<1>12. CASE UNCHANGED vars
  BY <1>1, <1>12 DEF vars, place, spec, TypeOK, DocTyped, Placed, Services
<1>13. QED
  BY <1>1, <1>3, <1>4, <1>5, <1>6, <1>7, <1>8, <1>9, <1>10, <1>11, <1>12
     DEF Next, PluginStep, Over

(* The state of a run has its types: among others, every canonical route   *)
(* has a name for each of its parameters, so that buildOperation never     *)
(* indexes past the names an earlier route left.                           *)
THEOREM GeneratorTypeCorrect == Spec => []TypeOK
<1>1. TypeInv => TypeOK
  BY DEF TypeInv
<1>2. QED
  BY <1>1, TypeInit, TypeNext, PTL DEF Spec

-----------------------------------------------------------------------------
(* What the loops leave behind them.                                       *)

(* What is done stays done: artifacts are only added.                      *)
LEMMA DoneStays ==
  ASSUME program' = program, artifacts \subseteq artifacts'
  PROVE  \A f : /\ \A n : ServiceDone(f, n) => ServiceDone(f, n)'
                /\ ForcedDone(f) => ForcedDone(f)'
                /\ FileDone(f) => FileDone(f)'
<1>1. \A f, n : ServiceDone(f, n) => ServiceDone(f, n)'
  BY DEF ServiceDone
<1>2. \A f : ForcedDone(f) => ForcedDone(f)'
  BY DEF ForcedDone
<1>3. ASSUME NEW f, FileDone(f) PROVE FileDone(f)'
  BY <1>1, <1>2, <1>3 DEF FileDone
<1>4. QED
  BY <1>1, <1>2, <1>3

LEMMA ArtifactFields ==
  \A kind, n, d : /\ Artifact(kind, n, d).kind = kind /\ Artifact(kind, n, d).file = file
                  /\ Artifact(kind, n, d).service = n /\ Artifact(kind, n, d).doc = d
BY DEF Artifact

LEMMA WorkedInit == Init => Worked
BY DEF Init, Worked

(* A step that stays where it is in the loops, or stops the process.       *)
LEMMA WorkedStays ==
  ASSUME Worked, program' = program, artifacts \subseteq artifacts',
         UNCHANGED <<todo, file, step, service>>,
         outcome' \in {"running", "done"} => outcome \in {"running", "done"}
  PROVE  Worked'
<1> SUFFICES ASSUME outcome' \in {"running", "done"},
                    NEW g, g = file
             PROVE  Worked'
  BY DEF Worked
<1>1. Services' = Services /\ Methods' = Methods
  BY DEF Services, Methods
<1>2. \A f \in Files \ todo : f # g => FileDone(f)'
  BY DoneStays DEF Worked
<1>3. step # "next" => \A n \in DOMAIN Services : n < service => ServiceDone(g, n)'
  BY DoneStays DEF Worked
<1>4. step = "gofile" => ForcedDone(g)'
  BY DoneStays DEF Worked
<1>5. QED
  BY <1>1, <1>2, <1>3, <1>4 DEF Worked

(* The steps of the loops.                                                 *)
LEMMA WorkedNext == TypeInv /\ Worked /\ [Next]_vars => Worked'
<1>1. SUFFICES ASSUME TypeInv, Worked, [Next]_vars PROVE Worked'
  OBVIOUS
<1> USE DEF TypeInv
<1>2. ASSUME NEW f \in Files, ProcessFile(f) PROVE Worked'
  <2>1. /\ step = "next" /\ file = NoFile /\ outcome = "running"
        /\ file' = f /\ todo' = todo \ {f} /\ step' = "service" /\ service' = 1
        /\ program' = program /\ artifacts' = artifacts
    BY <1>1, <1>2 DEF ProcessFile, At, Placed
  <2>2. \A g \in Files \ todo' : g # f => FileDone(g)'
    <3>1. \A g \in Files \ todo' : g # f => FileDone(g)
      BY <1>1, <2>1, GeneratorAssumption DEF Worked
    <3>2. QED
      BY <2>1, <3>1, DoneStays
  <2>3. \A n \in DOMAIN Services' : ~(n < service')
    <3>1. program[f].services \in Seq(ServiceSet)
      BY <1>1 DEF TypeOK, ProgramSet
    <3>2. Services' = program[f].services
      BY <2>1 DEF Services
    <3>3. QED
      BY <2>1, <3>1, <3>2
  <2>4. QED
    BY <2>1, <2>2, <2>3 DEF Worked
<1>3. CASE RenderService
  <2>1. /\ step = "service" /\ service \in DOMAIN Services
        /\ step' = "operation" /\ artifacts' = artifacts
        /\ UNCHANGED <<program, todo, file, service>>
    BY <1>3 DEF RenderService, At
  <2> SUFFICES ASSUME outcome' \in {"running", "done"}, NEW g, g = file
               PROVE  Worked'
    BY DEF Worked
  <2>2. Methods' = Methods /\ Services' = Services
    BY <2>1 DEF Methods, Services
  <2>3. \A i \in DOMAIN Methods : Verdict(Methods[i]) \in {"skipped", "rendered"}
    <3>1. Methods \in Seq(RpcSet)
      BY <1>1, <2>1, HereTyped
    <3>2. Rendering(Methods) \notin {"failed", "panicked"}
      BY <1>3 DEF RenderService
    <3>3. QED
      BY <3>1, <3>2, RenderingType DEF Good
  <2>4. outcome = "running"
    BY <1>3 DEF RenderService, At
  <2>5. /\ \A f \in Files \ todo : f # g => FileDone(f)'
        /\ \A n \in DOMAIN Services : n < service => ServiceDone(g, n)'
    BY <1>1, <2>1, <2>4, DoneStays DEF Worked
  <2>6. QED
    BY <2>1, <2>2, <2>3, <2>5 DEF Worked
<1>4. CASE SkipMethod
  BY <1>1, <1>4, WorkedStays DEF SkipMethod
<1>5. CASE BuildOperation
  <2>1. UNCHANGED <<program, todo, file, step, service, artifacts>> /\ outcome = "running"
    BY <1>5 DEF BuildOperation, At
  <2>2. QED
    BY <1>1, <2>1, WorkedStays
<1>6. CASE AddDocument
  <2>1. /\ outcome = "running" /\ step = "operation" /\ service \in DOMAIN Services
        /\ artifacts \subseteq artifacts'
        /\ service' = service + 1 /\ step' = "service"
        /\ UNCHANGED <<program, todo, file>>
    BY <1>1, <1>6 DEF AddDocument, At, Placed
  <2> SUFFICES ASSUME NEW g, g = file PROVE Worked'
    OBVIOUS
  <2>2. ServiceDone(g, service)
         \/ \A i \in DOMAIN Methods : Verdict(Methods[i]) \in {"skipped", "rendered"}
    BY <1>1, <2>1 DEF Worked
  <2>3. \E a \in artifacts' : a.kind = "service" /\ a.file = g /\ a.service = service
    <3>1. Artifact("service", service, doc) \in artifacts'
      BY <1>6 DEF AddDocument
    <3>2. QED
      BY <3>1, ArtifactFields
  <2>4. ASSUME NEW n, n = service PROVE ServiceDone(g, n)'
    <3>1. \A i \in DOMAIN Methods : Verdict(Methods[i]) \in {"skipped", "rendered"}
      BY <1>1, <2>1 DEF Worked
    <3>2. QED
      BY <2>1, <2>3, <2>4, <3>1 DEF ServiceDone, Methods, Services
  <2>5. /\ \A f \in Files \ todo : f # g => FileDone(f)'
        /\ \A n \in DOMAIN Services : n < service => ServiceDone(g, n)'
    BY <1>1, <2>1, DoneStays DEF Worked
  <2>6. \A n \in DOMAIN Services : n < service + 1 => ServiceDone(g, n)'
    <3>1. Services \in Seq(ServiceSet) /\ service \in Nat
      BY <1>1, <2>1, HereTyped DEF TypeOK
    <3>2. \A n \in DOMAIN Services : n < service + 1 => n < service \/ n = service
      BY <3>1
    <3>3. QED
      BY <2>4, <2>5, <3>2
  <2>7. Services' = Services
    BY <2>1 DEF Services
  <2>8. QED
    BY <2>1, <2>5, <2>6, <2>7 DEF Worked
<1>7. CASE RenderForcedMessages
  <2>1. /\ outcome = "running" /\ step = "service" /\ service \notin DOMAIN Services
        /\ artifacts \subseteq artifacts' /\ step' = "gofile"
        /\ UNCHANGED <<program, todo, file, service>>
    BY <1>1, <1>7 DEF RenderForcedMessages, At
  <2> SUFFICES ASSUME NEW g, g = file PROVE Worked'
    OBVIOUS
  <2>2. /\ \A f \in Files \ todo : f # g => FileDone(f)'
        /\ \A n \in DOMAIN Services : n < service => ServiceDone(g, n)'
    BY <1>1, <2>1, DoneStays DEF Worked
  <2>3. \A n \in DOMAIN Services : n < service
    <3>1. Services \in Seq(ServiceSet) /\ service \in Nat /\ service > 0
      BY <1>1, <2>1, HereTyped DEF TypeOK, Placed
    <3>2. QED
      BY <2>1, <3>1
  <2>4. ForcedDone(g)'
    <3>1. ASSUME program[g].forced # {}
          PROVE  \E a \in artifacts' : a.kind = "messages" /\ a.file = g
      <4>1. {<<m, <<>> >> : m \in program[file].forced} # {}
        BY <3>1
      <4>2. \E d : Artifact("messages", 0, d) \in artifacts'
        BY <1>7, <4>1 DEF RenderForcedMessages
      <4>3. QED
        BY <4>2, ArtifactFields
    <3>2. QED
      BY <2>1, <3>1 DEF ForcedDone
  <2>5. Services' = Services
    BY <2>1 DEF Services
  <2>6. QED
    BY <2>1, <2>2, <2>3, <2>4, <2>5 DEF Worked
<1>8. CASE AddGoFile
  <2>1. /\ outcome = "running" /\ step = "gofile" /\ file \in Files
        /\ artifacts \subseteq artifacts' /\ step' = "next" /\ file' = NoFile
        /\ UNCHANGED <<program, todo>>
    BY <1>1, <1>8, HereTyped DEF AddGoFile, At
  <2> SUFFICES ASSUME NEW g, g = file PROVE Worked'
    OBVIOUS
  <2>2. FileDone(g)'
    <3>1. /\ ForcedDone(g)
          /\ \A n \in DOMAIN Services : ServiceDone(g, n)
      BY <1>1, <2>1 DEF Worked
    <3>2. ForcedDone(g)' /\ \A n \in DOMAIN Services : ServiceDone(g, n)'
      BY <2>1, <3>1, DoneStays
    <3>3. Services # <<>> => \E a \in artifacts' : a.kind = "go" /\ a.file = g
      <4>1. Services # <<>> => Artifact("go", 0, EmptyDoc) \in artifacts'
        BY <1>8 DEF AddGoFile
      <4>2. QED
        BY <4>1, ArtifactFields
    <3>4. QED
      BY <2>1, <3>2, <3>3 DEF FileDone, Services
  <2>3. \A f \in Files \ todo : f # g => FileDone(f)'
    BY <1>1, <2>1, DoneStays DEF Worked
  <2>4. QED
    BY <2>1, <2>2, <2>3 DEF Worked
<1>9. CASE Return
  BY <1>1, <1>9, WorkedStays DEF Return, At, place
<1>10. CASE Rerun
  BY <1>10 DEF Rerun, Worked
<1>11. CASE UNCHANGED vars
  BY <1>1, <1>11, WorkedStays DEF vars, place
<1>12. QED
  BY <1>1, <1>2, <1>3, <1>4, <1>5, <1>6, <1>7, <1>8, <1>9, <1>10, <1>11
     DEF Next, PluginStep, Over

(* A run of the plugin that ends well has written everything: a document   *)
(* for each service of each file, one for its forced messages and the Go   *)
(* code; and none of the methods was one it does not support.              *)
THEOREM NothingLeftOut == Spec => []Complete
<1>1. Init => TypeInv /\ Worked
  BY TypeInit, WorkedInit
<1>2. (TypeInv /\ Worked) /\ [Next]_vars => (TypeInv /\ Worked)'
  BY TypeNext, WorkedNext
<1>3. TypeInv /\ Worked => Complete
  BY GeneratorAssumption DEF TypeInv, Placed, Worked, Complete
<1>4. QED
  BY <1>1, <1>2, <1>3, PTL DEF Spec

-----------------------------------------------------------------------------
(* One path per route.                                                     *)

(* What can be read off the path of a canonical route.                     *)
LEMMA PathOfKey ==
  ASSUME NEW key, Canonical(key), NEW names \in Seq(STRING), Len(names) = ParamCount(key)
  PROVE  /\ Erased(PathOf(key, names)) =
              [i \in DOMAIN key |-> IF i \in Wilds(key) THEN Template("") ELSE key[i]]
         /\ TemplateNames(PathOf(key, names)) = names
<1> DEFINE path == PathOf(key, names)
           W == Wilds(key)
<1>1. /\ Len(key) \in Nat /\ DOMAIN key = 1..Len(key)
      /\ \A i \in W : key[i][2] = Rank(W, i)
      /\ \A i \in DOMAIN key \ W : key[i][1] = ""
  <2>1. \A i \in DOMAIN key : key[i] = IF i \in W THEN Wild(Rank(W, i)) ELSE Segment(key[i][2])
    BY DEF Canonical, Rank
  <2>2. DOMAIN key = 1..Len(key) /\ Len(key) \in Nat
    BY DEF Canonical
  <2>3. \A n : Wild(n)[2] = n /\ Segment(n)[1] = ""
    BY DEF Wild, Segment
  <2>4. W \subseteq DOMAIN key
    BY DEF Wilds
  <2> HIDE DEF W
  <2>5. \A i \in W : key[i][2] = Rank(W, i)
    BY <2>1, <2>3, <2>4
  <2>6. ASSUME NEW i \in DOMAIN key \ W PROVE key[i][1] = ""
    <3>1. key[i] = Segment(key[i][2])
      BY <2>1
    <3>2. QED
      BY <2>3, <3>1
  <2>7. QED
    BY <2>2, <2>5, <2>6
<1>2. W \in SUBSET Nat /\ IsFiniteSet(W) /\ Cardinality(W) \in Nat
  <2>1. PICK n \in Nat : W \subseteq 1..n
    BY <1>1 DEF Wilds
  <2>2. IsFiniteSet(1..n)
    BY FS_Interval
  <2>3. QED
    BY <2>1, <2>2, FS_Subset, FS_CardinalityType
<1>3. \A n : Template(n)[1] = "{}" /\ Template(n)[2] = n
  BY DEF Template
<1>4. /\ DOMAIN path = DOMAIN key
      /\ \A i \in DOMAIN key : path[i] = IF i \in W THEN Template(names[key[i][2] + 1]) ELSE key[i]
  BY DEF PathOf
<1> HIDE DEF path, W
<1>5. \A i \in DOMAIN key : path[i][1] = "{}" <=> i \in W
  <2>1. TAKE i \in DOMAIN key
  <2>2. CASE i \in W
    BY <1>3, <1>4, <2>2
  <2>3. CASE i \notin W
    BY <1>1, <1>4, <2>3
  <2>4. QED
    BY <2>2, <2>3
<1>6. Erased(path) = [i \in DOMAIN key |-> IF i \in W THEN Template("") ELSE key[i]]
  <2>1. \A i \in DOMAIN key : (IF path[i][1] = "{}" THEN Template("") ELSE path[i])
                               = (IF i \in W THEN Template("") ELSE key[i])
    BY <1>4, <1>5
  <2>2. QED
    BY <1>4, <2>1 DEF Erased
<1>7. TemplateNames(path) = names
  <2> DEFINE ts == Selected(path, W)
  <2>1. {i \in DOMAIN path : path[i][1] = "{}"} = W
    <3>1. W \subseteq DOMAIN key
      BY DEF W, Wilds
    <3>2. QED
      BY <1>4, <1>5, <3>1
  <2>2. TemplateNames(path) = [n \in DOMAIN ts |-> ts[n][2]]
    BY <2>1 DEF TemplateNames
  <2>3. DOMAIN ts = 1..Cardinality(W) /\ \A n \in 1..Cardinality(W) : ts[n] = path[Nth(W, n)]
    BY DEF Selected
  <2>4. ASSUME NEW n \in 1..Cardinality(W) PROVE ts[n][2] = names[n]
    <3>1. Nth(W, n) \in W /\ Rank(W, Nth(W, n)) = n - 1
      BY <1>2, NthInSet
    <3>2. Nth(W, n) \in DOMAIN key
      BY <3>1 DEF W, Wilds
    <3>3. path[Nth(W, n)] = Template(names[(n - 1) + 1])
      BY <1>1, <1>4, <3>1, <3>2
    <3>4. (n - 1) + 1 = n
      BY <1>2
    <3>5. QED
      BY <1>3, <2>3, <3>3, <3>4
  <2>5. Len(names) = Cardinality(W)
    BY DEF ParamCount, W, Wilds
  <2>6. names = [n \in 1..Cardinality(W) |-> names[n]]
    BY <1>2, <2>5
  <2> HIDE DEF ts
  <2>7. QED
    BY <2>2, <2>3, <2>4, <2>6
<1>8. QED
  BY <1>6, <1>7 DEF path, W

(* Canonical routes of one shape are one.                                  *)
LEMMA ShapeOfKey ==
  ASSUME NEW key, Canonical(key), NEW other, Canonical(other),
         [i \in DOMAIN key |-> IF i \in Wilds(key) THEN Template("") ELSE key[i]] =
           [i \in DOMAIN other |-> IF i \in Wilds(other) THEN Template("") ELSE other[i]]
  PROVE  key = other
<1> DEFINE Shape(k) == [i \in DOMAIN k |-> IF i \in Wilds(k) THEN Template("") ELSE k[i]]
<1>1. \A k : Canonical(k) =>
        /\ k = [i \in DOMAIN k |-> IF i \in Wilds(k) THEN Wild(Cardinality({j \in Wilds(k) : j < i}))
                                                    ELSE Segment(k[i][2])]
        /\ \A i \in DOMAIN k \ Wilds(k) : k[i] # Template("")
  <2>1. \A k : Canonical(k) => DOMAIN k = 1..Len(k)
    BY DEF Canonical
  <2>2. ASSUME NEW k, Canonical(k), NEW i \in DOMAIN k \ Wilds(k) PROVE k[i] # Template("")
    <3>1. k[i] = Segment(k[i][2])
      BY <2>2 DEF Canonical
    <3>2. Segment(k[i][2])[1] = "" /\ Template("")[1] = "{}"
      BY DEF Segment, Template
    <3>3. QED
      BY <3>1, <3>2
  <2>3. QED
    BY <2>1, <2>2 DEF Canonical
<1>2. DOMAIN key = DOMAIN other
  BY Zenon
<1>3. \A i \in DOMAIN key : Shape(key)[i] = Shape(other)[i]
  OBVIOUS
<1>4. Wilds(key) = Wilds(other)
  <2>1. \A i \in DOMAIN key : i \in Wilds(key) <=> i \in Wilds(other)
    BY <1>1, <1>2, <1>3
  <2>2. Wilds(key) \subseteq DOMAIN key /\ Wilds(other) \subseteq DOMAIN other
    BY DEF Wilds
  <2>3. QED
    BY <1>2, <2>1, <2>2
<1>5. \A i \in DOMAIN key : i \notin Wilds(key) => key[i] = other[i]
  BY <1>2, <1>3, <1>4
<1>6. \A i \in DOMAIN key : i \in Wilds(key) => key[i] = other[i]
  <2>1. TAKE i \in DOMAIN key
  <2>2. HAVE i \in Wilds(key)
  <2>3. /\ key[i] = Wild(Cardinality({j \in Wilds(key) : j < i}))
        /\ other[i] = Wild(Cardinality({j \in Wilds(other) : j < i}))
    BY <1>1, <1>2, <1>4, <2>2
  <2>4. QED
    BY <1>4, <2>3
<1>7. key = [i \in DOMAIN key |-> key[i]] /\ other = [i \in DOMAIN other |-> other[i]]
  BY <1>1
<1>8. QED
  BY <1>2, <1>5, <1>6, <1>7

LEMMA MappedOnePath == TypeOK /\ Mapped => OnePathPerRoute
<1> SUFFICES ASSUME TypeOK, Mapped,
                    NEW d \in Docs, NEW e \in Docs,
                    NEW k \in DOMAIN d.operations, NEW l \in DOMAIN e.operations
             PROVE  /\ Erased(k[1]) = Erased(l[1]) => k[1] = l[1]
                    /\ d.operations[k].names = TemplateNames(k[1])
  BY DEF OnePathPerRoute
<1>1. PICK key \in DOMAIN mapper : /\ k[1] = PathOf(key, mapper[key])
                                  /\ d.operations[k].names = mapper[key]
  BY DEF Mapped
<1>2. PICK other \in DOMAIN mapper : l[1] = PathOf(other, mapper[other])
  BY DEF Mapped
<1>3. \A c \in DOMAIN mapper : /\ Canonical(c) /\ mapper[c] \in Seq(STRING)
                              /\ Len(mapper[c]) = ParamCount(c)
  BY DEF TypeOK, Mapped
<1>4. \A c \in DOMAIN mapper :
        /\ Erased(PathOf(c, mapper[c])) =
             [i \in DOMAIN c |-> IF i \in Wilds(c) THEN Template("") ELSE c[i]]
        /\ TemplateNames(PathOf(c, mapper[c])) = mapper[c]
  BY <1>3, PathOfKey
<1>5. ASSUME Erased(k[1]) = Erased(l[1]) PROVE key = other
  <2>1. Erased(PathOf(key, mapper[key])) = Erased(PathOf(other, mapper[other]))
    BY <1>1, <1>2, <1>5
  <2>2. [i \in DOMAIN key |-> IF i \in Wilds(key) THEN Template("") ELSE key[i]] =
          [i \in DOMAIN other |-> IF i \in Wilds(other) THEN Template("") ELSE other[i]]
    BY <1>4, <2>1
  <2>3. QED
    BY <1>3, <2>2, ShapeOfKey
<1>6. QED
  BY <1>1, <1>2, <1>4, <1>5

LEMMA MappedInit == Init => Mapped
<1>1. SUFFICES ASSUME Init PROVE Mapped
  OBVIOUS
<1>2. DOMAIN mapper = {} /\ Docs = {EmptyDoc} /\ DOMAIN EmptyDoc.operations = {}
  BY <1>1 DEF Init, Docs, NoMap, EmptyDoc
<1>3. QED
  BY <1>2 DEF Mapped

(* The path of an operation is that of its canonical route.                *)
LEMMA PathOfRoute ==
  ASSUME NEW route \in RouteSet, NEW names
  PROVE  SnakeRoute(ParseRoute(route), names) = PathOf(CanonicalKey(ParseRoute(route)), names)
<1> DEFINE tkn == ParseRoute(route)
           key == CanonicalKey(tkn)
<1>1. DOMAIN key = DOMAIN tkn /\ Wilds(key) = ParamsAt(tkn)
  BY KeyOfRoute
<1> HIDE DEF tkn
<1>2. \A n : Wild(n)[2] = n
  BY DEF Wild
<1>3. ASSUME NEW i \in DOMAIN tkn
      PROVE  (IF tkn[i].IsParam THEN Template(names[tkn[i].ParamIndex + 1])
                                ELSE Segment(tkn[i].Name))
             = (IF i \in Wilds(key) THEN Template(names[key[i][2] + 1]) ELSE key[i])
  <2>1. CASE tkn[i].IsParam
    <3>1. i \in Wilds(key) /\ key[i] = Wild(tkn[i].ParamIndex)
      BY <1>1, <2>1 DEF ParamsAt, CanonicalKey
    <3>2. key[i][2] = tkn[i].ParamIndex
      BY <1>2, <3>1
    <3>3. QED
      BY <2>1, <3>1, <3>2
  <2>2. CASE ~tkn[i].IsParam
    <3>1. i \notin Wilds(key) /\ key[i] = Segment(tkn[i].Name)
      BY <1>1, <2>2 DEF ParamsAt, CanonicalKey
    <3>2. QED
      BY <2>2, <3>1
  <2>3. QED
    BY <2>1, <2>2
<1>4. SnakeRoute(tkn, names) = PathOf(key, names)
  BY <1>1, <1>3 DEF SnakeRoute, PathOf
<1>5. QED
  BY <1>4 DEF tkn

(* Documents that add no operations.                                       *)
LEMMA MappedStays ==
  ASSUME Mapped, mapper' = mapper,
         \A d \in Docs' : DOMAIN d.operations = {} \/ \E e \in Docs : d.operations = e.operations
  PROVE  Mapped'
<1> SUFFICES ASSUME NEW d \in Docs', NEW k \in DOMAIN d.operations
             PROVE  \E key \in DOMAIN mapper :
                      k[1] = PathOf(key, mapper[key]) /\ d.operations[k].names = mapper[key]
  BY DEF Mapped
<1>1. PICK e \in Docs : d.operations = e.operations
  OBVIOUS
<1>2. QED
  BY <1>1 DEF Mapped

LEMMA MappedNext == TypeInv /\ Mapped /\ [Next]_vars => Mapped'
<1>1. SUFFICES ASSUME TypeInv, Mapped, [Next]_vars PROVE Mapped'
  OBVIOUS
<1>2. DOMAIN EmptyDoc.operations = {}
  BY DEF EmptyDoc, NoMap
<1>3. ASSUME NEW f \in Files, ProcessFile(f) PROVE Mapped'
  BY <1>1, <1>3, MappedStays DEF ProcessFile, spec, Docs
<1>4. CASE RenderService
  <2>1. mapper' = mapper /\ Docs' \subseteq Docs \cup {EmptyDoc}
    BY <1>4 DEF RenderService, Docs
  <2>2. QED
    BY <1>1, <1>2, <2>1, MappedStays
<1>5. CASE SkipMethod
  BY <1>1, <1>5, MappedStays DEF SkipMethod, spec, Docs
<1>6. CASE BuildOperation
  <2> DEFINE rpc == Methods[method]
             tkn == ParseRoute(rpc.route)
             key == CanonicalKey(tkn)
             names == CanonicalNames(tkn)
             path == SnakeRoute(tkn, names)
  <2>1. rpc \in RpcSet /\ artifacts' = artifacts /\ Built(rpc, tkn, names)
    BY <1>1, <1>6, BuildOperationParts DEF TypeInv
  <2>2. rpc.route \in RouteSet
    BY <2>1, BoundType
  <2>3. Canonical(key) /\ path = PathOf(key, names)
    BY <2>2, KeyOfRoute, PathOfRoute
  <2>4. key \in DOMAIN mapper => names = mapper[key]
    BY DEF CanonicalNames
  <2> HIDE DEF rpc, tkn, key, names, path
  <2>5. /\ DOMAIN mapper' = DOMAIN mapper \cup {key}
        /\ mapper'[key] = names
        /\ \A c \in DOMAIN mapper : mapper'[c] = mapper[c]
    <3>1. CASE key \in DOMAIN mapper
      BY <2>1, <2>4, <3>1 DEF Built, key
    <3>2. CASE key \notin DOMAIN mapper
      <4>1. mapper' = Put(mapper, key, names)
        BY <2>1, <3>2 DEF Built, key
      <4>2. QED
        BY <3>2, <4>1 DEF Put
    <3>3. QED
      BY <3>1, <3>2
  <2>6. ASSUME NEW d \in Docs, NEW k \in DOMAIN d.operations
        PROVE  \E c \in DOMAIN mapper' :
                 k[1] = PathOf(c, mapper'[c]) /\ d.operations[k].names = mapper'[c]
    <3>1. PICK c \in DOMAIN mapper : /\ k[1] = PathOf(c, mapper[c])
                                    /\ d.operations[k].names = mapper[c]
      BY <1>1 DEF Mapped
    <3>2. QED
      BY <2>5, <3>1
  <2>7. ASSUME NEW k \in DOMAIN doc'.operations
        PROVE  \E c \in DOMAIN mapper' :
                 k[1] = PathOf(c, mapper'[c]) /\ doc'.operations[k].names = mapper'[c]
    <3>1. doc \in Docs
      BY DEF Docs
    <3>2. CASE doc' = doc
      BY <2>6, <3>1, <3>2
    <3>3. CASE doc'.operations = Put(doc.operations, <<path, rpc.verb>>, Operation(rpc, names))
      <4>1. CASE k = <<path, rpc.verb>>
        <5>1. k[1] = path /\ doc'.operations[k] = Operation(rpc, names)
          BY <3>3, <4>1 DEF Put
        <5>2. Operation(rpc, names).names = names
          BY DEF Operation
        <5>3. QED
          BY <2>3, <2>5, <5>1, <5>2
      <4>2. CASE k # <<path, rpc.verb>>
        <5>1. k \in DOMAIN doc.operations /\ doc'.operations[k] = doc.operations[k]
          BY <3>3, <4>2 DEF Put
        <5>2. QED
          BY <2>6, <3>1, <5>1
      <4>3. QED
        BY <4>1, <4>2
    <3>4. doc' = doc \/ doc'.operations = Put(doc.operations, <<path, rpc.verb>>, Operation(rpc, names))
      BY <2>1 DEF Built, AddOperation, path
    <3>5. QED
      BY <3>2, <3>3, <3>4
  <2>8. \A d \in Docs' : d \in Docs \/ d = doc'
    BY <2>1 DEF Docs
  <2>9. \A c \in DOMAIN mapper' : Canonical(c)
    BY <1>1, <2>3, <2>5 DEF Mapped
  <2>10. QED
    BY <2>6, <2>7, <2>8, <2>9 DEF Mapped
<1>7. CASE AddDocument
  <2>1. mapper' = mapper /\ Docs' = Docs
    BY <1>7, ArtifactFields DEF AddDocument, spec, Docs
  <2>2. QED
    BY <1>1, <2>1, MappedStays
<1>8. CASE RenderForcedMessages
  <2> DEFINE messages == [EmptyDoc EXCEPT !.schemas =
                            Rendered({<<m, <<>> >> : m \in program[file].forced})]
  <2>1. /\ mapper' = mapper /\ doc' = doc
        /\ artifacts' \subseteq artifacts \cup {Artifact("messages", 0, messages)}
    BY <1>8 DEF RenderForcedMessages, spec
  <2>2. messages.operations = EmptyDoc.operations
    BY DEF EmptyDoc
  <2> HIDE DEF messages
  <2>3. Docs' \subseteq Docs \cup {messages}
    BY <2>1, ArtifactFields DEF Docs
  <2>4. QED
    BY <1>1, <1>2, <2>1, <2>2, <2>3, MappedStays
<1>9. CASE AddGoFile
  <2>1. mapper' = mapper /\ Docs' \subseteq Docs \cup {EmptyDoc}
    BY <1>9, ArtifactFields DEF AddGoFile, spec, Docs
  <2>2. QED
    BY <1>1, <1>2, <2>1, MappedStays
<1>10. CASE Return
  BY <1>1, <1>10, MappedStays DEF Return, spec, Docs
<1>11. CASE Rerun
  <2>1. DOMAIN mapper' = {} /\ Docs' = {EmptyDoc}
    BY <1>11 DEF Rerun, NoMap, Docs
  <2>2. QED
    BY <1>2, <2>1 DEF Mapped
<1>12. CASE UNCHANGED vars
  BY <1>1, <1>12, MappedStays DEF vars, spec, Docs
<1>13. QED
  BY <1>1, <1>3, <1>4, <1>5, <1>6, <1>7, <1>8, <1>9, <1>10, <1>11, <1>12
     DEF Next, PluginStep, Over

(* In all the documents of a run the routes of one shape share one path,   *)
(* and the operations on it document the parameters its template names:    *)
(* the canonical route and the names kept for it determine each other.     *)
THEOREM OneTemplatePerShape == Spec => []OnePathPerRoute
<1>1. Init => TypeInv /\ Mapped
  BY TypeInit, MappedInit
<1>2. (TypeInv /\ Mapped) /\ [Next]_vars => (TypeInv /\ Mapped)'
  BY TypeNext, MappedNext
<1>3. TypeInv /\ Mapped => OnePathPerRoute
  BY MappedOnePath DEF TypeInv
<1>4. QED
  BY <1>1, <1>2, <1>3, PTL DEF Spec

-----------------------------------------------------------------------------
(* The operations of a document.                                           *)

(* A route, its path and its canonical route have the same shape.          *)
LEMMA ShapeOfRoute ==
  ASSUME NEW route \in RouteSet, NEW names
  PROVE  LET tkn == ParseRoute(route)
             key == CanonicalKey(tkn)
         IN /\ Erased(SnakeRoute(tkn, names)) = ErasedRoute(tkn)
            /\ ErasedRoute(tkn) =
                 [i \in DOMAIN key |-> IF i \in Wilds(key) THEN Template("") ELSE key[i]]
<1> DEFINE tkn == ParseRoute(route)
           key == CanonicalKey(tkn)
           path == SnakeRoute(tkn, names)
<1>1. DOMAIN key = DOMAIN tkn /\ Wilds(key) = ParamsAt(tkn)
  BY KeyOfRoute
<1> HIDE DEF tkn
<1>2. \A n : Template(n)[1] = "{}" /\ Segment(n)[1] = ""
  BY DEF Template, Segment
<1>3. ErasedRoute(tkn) = [i \in DOMAIN key |-> IF i \in Wilds(key) THEN Template("") ELSE key[i]]
  <2>1. \A i \in DOMAIN tkn : (IF tkn[i].IsParam THEN Template("") ELSE Segment(tkn[i].Name))
                              = (IF i \in Wilds(key) THEN Template("") ELSE key[i])
    BY <1>1 DEF ParamsAt, CanonicalKey
  <2> HIDE DEF key
  <2>2. QED
    BY <1>1, <2>1 DEF ErasedRoute
<1>4. Erased(path) = ErasedRoute(tkn)
  <2>1. DOMAIN path = DOMAIN tkn
    BY DEF SnakeRoute
  <2>2. ASSUME NEW i \in DOMAIN tkn
        PROVE  (IF path[i][1] = "{}" THEN Template("") ELSE path[i])
               = (IF tkn[i].IsParam THEN Template("") ELSE Segment(tkn[i].Name))
    <3>1. path[i] = IF tkn[i].IsParam THEN Template(names[tkn[i].ParamIndex + 1])
                                      ELSE Segment(tkn[i].Name)
      BY DEF SnakeRoute
    <3> HIDE DEF path
    <3>2. QED
      BY <1>2, <3>1
  <2> HIDE DEF path
  <2>3. QED
    BY <2>1, <2>2 DEF Erased, ErasedRoute
<1>5. QED
  BY <1>3, <1>4 DEF tkn

LEMMA DocumentsInit == Init => Documented /\ OperationsPresent
BY DEF Init, Documented, OperationsPresent

LEMMA PresentStays ==
  ASSUME OperationsPresent, program' = program,
         \A a \in artifacts' : a \in artifacts \/ a.kind # "service"
  PROVE  OperationsPresent'
BY DEF OperationsPresent

LEMMA DocumentedStays ==
  ASSUME Documented, UNCHANGED <<program, file, service, method, doc>>,
         outcome' = "running" /\ step' = "operation" => outcome = "running" /\ step = "operation"
  PROVE  Documented'
BY DEF Documented, Methods, Services

(* buildOperation documents the method it is at, and no method less: what  *)
(* it overwrites was the operation of the same verb on the same route.     *)
LEMMA DocumentedByBuild ==
  ASSUME TypeInv, Documented, BuildOperation, outcome' = "running"
  PROVE  \A i \in DOMAIN Methods :
           i < method + 1 /\ Methods[i].operations = 1 => Documents(doc', Methods, i)
<1> DEFINE rpc == Methods[method]
           tkn == ParseRoute(rpc.route)
           names == CanonicalNames(tkn)
           path == SnakeRoute(tkn, names)
           at == <<path, rpc.verb>>
           op == Operation(rpc, names)
<1>1. /\ step = "operation" /\ outcome = "running" /\ method \in DOMAIN Methods
      /\ rpc \in RpcSet /\ Built(rpc, tkn, names)
      /\ Methods \in Seq(RpcSet) /\ method \in Nat
  BY BuildOperationParts, HereTyped DEF TypeInv, TypeOK, Placed
<1>2. /\ Erased(path) = ErasedRoute(tkn)
      /\ \A i \in DOMAIN Methods :
           LET t == ParseRoute(Methods[i].route)
               key == CanonicalKey(t)
           IN ErasedRoute(t) =
                [n \in DOMAIN key |-> IF n \in Wilds(key) THEN Template("") ELSE key[n]]
  <2>1. \A i \in DOMAIN Methods : Methods[i].route \in RouteSet
    BY <1>1, BoundType
  <2>2. QED
    BY <1>1, <2>1, ShapeOfRoute
<1>3. \A i, j \in DOMAIN Methods :
        ErasedRoute(ParseRoute(Methods[i].route)) = ErasedRoute(ParseRoute(Methods[j].route))
          => CanonicalKey(ParseRoute(Methods[i].route)) = CanonicalKey(ParseRoute(Methods[j].route))
  <2>1. \A i \in DOMAIN Methods : Canonical(CanonicalKey(ParseRoute(Methods[i].route)))
    <3>1. \A i \in DOMAIN Methods : Methods[i].route \in RouteSet
      BY <1>1, BoundType
    <3>2. QED
      BY <3>1, KeyOfRoute
  <2>2. ASSUME NEW i \in DOMAIN Methods, NEW j \in DOMAIN Methods,
               ErasedRoute(ParseRoute(Methods[i].route)) = ErasedRoute(ParseRoute(Methods[j].route))
        PROVE  CanonicalKey(ParseRoute(Methods[i].route)) = CanonicalKey(ParseRoute(Methods[j].route))
    <3> DEFINE key == CanonicalKey(ParseRoute(Methods[i].route))
               other == CanonicalKey(ParseRoute(Methods[j].route))
    <3>1. [n \in DOMAIN key |-> IF n \in Wilds(key) THEN Template("") ELSE key[n]] =
            [n \in DOMAIN other |-> IF n \in Wilds(other) THEN Template("") ELSE other[n]]
      BY <1>2, <2>2, Zenon
    <3>2. Canonical(key) /\ Canonical(other)
      BY <2>1
    <3> HIDE DEF key, other
    <3>3. key = other
      BY <3>1, <3>2, ShapeOfKey
    <3>4. QED
      BY <3>3 DEF key, other
  <2>3. QED
    BY <2>2
<1>4. op = Operation(rpc, op.names) /\ rpc.operations # 0
  BY <1>1 DEF Operation, Built
<1>5. doc'.operations = Put(doc.operations, at, op)
  BY <1>1 DEF Built, AddOperation
<1>6. /\ at[1] = path /\ at[2] = rpc.verb
      /\ at \in DOMAIN doc'.operations /\ doc'.operations[at] = op
      /\ DOMAIN doc.operations \subseteq DOMAIN doc'.operations
      /\ \A k \in DOMAIN doc.operations \ {at} : doc'.operations[k] = doc.operations[k]
  BY <1>5 DEF Put
<1> HIDE DEF names, path, at, op
<1>7. ASSUME NEW i \in DOMAIN Methods,
             CanonicalKey(ParseRoute(Methods[i].route)) = CanonicalKey(tkn),
             ErasedRoute(ParseRoute(Methods[i].route)) = ErasedRoute(tkn),
             Methods[i].verb = rpc.verb
      PROVE  Documents(doc', Methods, i)
  BY <1>1, <1>2, <1>4, <1>6, <1>7 DEF Documents
<1>8. ASSUME NEW i \in DOMAIN Methods, i < method, Methods[i].operations = 1
      PROVE  Documents(doc', Methods, i)
  <2>1. Documents(doc, Methods, i)
    BY <1>1, <1>8 DEF Documented
  <2>2. PICK j \in DOMAIN Methods, k \in DOMAIN doc.operations :
          /\ CanonicalKey(ParseRoute(Methods[j].route)) = CanonicalKey(ParseRoute(Methods[i].route))
          /\ Erased(k[1]) = ErasedRoute(ParseRoute(Methods[i].route))
          /\ k[2] = Methods[i].verb
          /\ Methods[j].verb = Methods[i].verb
          /\ Methods[j].operations # 0
          /\ doc.operations[k] = Operation(Methods[j], doc.operations[k].names)
    BY <2>1 DEF Documents
  <2>3. CASE k = at
    <3>1. ErasedRoute(ParseRoute(Methods[i].route)) = ErasedRoute(tkn) /\ Methods[i].verb = rpc.verb
      BY <1>2, <1>6, <2>2, <2>3
    <3>2. CanonicalKey(ParseRoute(Methods[i].route)) = CanonicalKey(tkn)
      BY <1>1, <1>3, <3>1
    <3>3. QED
      BY <1>7, <3>1, <3>2
  <2>4. CASE k # at
    <3>1. k \in DOMAIN doc'.operations /\ doc'.operations[k] = doc.operations[k]
      BY <1>6, <2>2, <2>4
    <3>2. QED
      BY <2>2, <3>1 DEF Documents
  <2>5. QED
    BY <2>3, <2>4
<1>9. Documents(doc', Methods, method)
  BY <1>1, <1>7
<1>10. \A i \in DOMAIN Methods : i < method + 1 => i < method \/ i = method
  BY <1>1
<1>11. QED
  BY <1>8, <1>9, <1>10

LEMMA DocumentedNext ==
  TypeInv /\ Documented /\ OperationsPresent /\ [Next]_vars
    => Documented' /\ OperationsPresent'
<1>1. SUFFICES ASSUME TypeInv, Documented, OperationsPresent, [Next]_vars
      PROVE  Documented' /\ OperationsPresent'
  OBVIOUS
<1> USE DEF TypeInv
<1>2. ASSUME NEW f \in Files, ProcessFile(f) PROVE Documented' /\ OperationsPresent'
  BY <1>1, <1>2, PresentStays DEF ProcessFile, Documented
<1>3. CASE RenderService
  <2>1. Methods' = Methods /\ method' = 1 /\ Methods \in Seq(RpcSet)
    <3>1. step = "service" /\ service \in DOMAIN Services /\ method' = 1
          /\ UNCHANGED <<program, file, service>>
      BY <1>3 DEF RenderService, At
    <3>2. QED
      BY <1>1, <3>1, HereTyped DEF Methods, Services
  <2>2. \A i \in DOMAIN Methods' : ~(i < method')
    BY <2>1
  <2>3. QED
    BY <1>1, <1>3, <2>2, PresentStays DEF RenderService, Documented
<1>4. CASE SkipMethod
  <2>1. /\ step = "operation" /\ outcome = "running" /\ method \in DOMAIN Methods
        /\ Methods[method].operations = 0 /\ method' = method + 1
        /\ Methods' = Methods /\ doc' = doc /\ Methods \in Seq(RpcSet)
    BY <1>1, <1>4, HereTyped DEF SkipMethod, At, spec, Methods, Services, Placed
  <2>2. \A i \in DOMAIN Methods : i < method + 1 => i < method \/ i = method
    BY <2>1
  <2>3. Documented'
    BY <1>1, <2>1, <2>2 DEF Documented
  <2>4. QED
    BY <1>1, <1>4, <2>3, PresentStays DEF SkipMethod
<1>5. CASE BuildOperation
  <2>1. /\ method' = method + 1
        /\ UNCHANGED <<program, file, step, service, artifacts>>
    BY <1>5 DEF BuildOperation
  <2>2. Methods' = Methods
    BY <2>1 DEF Methods, Services
  <2>3. Documented'
    BY <1>1, <1>5, <2>1, <2>2, DocumentedByBuild DEF Documented
  <2>4. QED
    BY <1>1, <2>1, <2>3, PresentStays
<1>6. CASE AddDocument
  <2>1. /\ outcome = "running" /\ step = "operation" /\ method \notin DOMAIN Methods
        /\ program' = program /\ step' = "service"
        /\ artifacts' = artifacts \cup {Artifact("service", service, doc)}
    BY <1>6 DEF AddDocument, At
  <2>2. Methods \in Seq(RpcSet) /\ method \in Nat /\ method > 0
    BY <1>1, <2>1, HereTyped DEF TypeOK, Placed
  <2>3. \A i \in DOMAIN Methods : i < method
    BY <2>1, <2>2
  <2>4. \A i \in DOMAIN Methods : Methods[i].operations = 1 => Documents(doc, Methods, i)
    BY <1>1, <2>1, <2>3 DEF Documented
  <2>5. Documented'
    BY <2>1 DEF Documented
  <2>6. ASSUME NEW a \in artifacts', a.kind = "service"
        PROVE  LET ms == program[a.file].services[a.service].methods IN
               \A i \in DOMAIN ms : ms[i].operations = 1 => Documents(a.doc, ms, i)
    <3>1. CASE a \in artifacts
      BY <1>1, <2>6, <3>1 DEF OperationsPresent
    <3>2. CASE a = Artifact("service", service, doc)
      <4>1. a.file = file /\ a.service = service /\ a.doc = doc
        BY <3>2, ArtifactFields
      <4>2. QED
        BY <2>4, <4>1 DEF Methods, Services
    <3>3. QED
      BY <2>1, <3>1, <3>2
  <2>7. OperationsPresent'
    BY <2>1, <2>6 DEF OperationsPresent
  <2>8. QED
    BY <2>5, <2>7
<1>7. CASE RenderForcedMessages
  <2>1. /\ program' = program /\ step' = "gofile"
        /\ \E d : artifacts' \subseteq artifacts \cup {Artifact("messages", 0, d)}
    BY <1>7 DEF RenderForcedMessages
  <2>2. OperationsPresent'
    BY <1>1, <2>1, ArtifactFields, PresentStays
  <2>3. QED
    BY <2>1, <2>2 DEF Documented
<1>8. CASE AddGoFile
  <2>1. /\ program' = program /\ step' = "next"
        /\ artifacts' \subseteq artifacts \cup {Artifact("go", 0, EmptyDoc)}
    BY <1>8 DEF AddGoFile
  <2>2. OperationsPresent'
    BY <1>1, <2>1, ArtifactFields, PresentStays
  <2>3. QED
    BY <2>1, <2>2 DEF Documented
<1>9. CASE Return
  BY <1>1, <1>9, PresentStays, DocumentedStays DEF Return, place, spec
<1>10. CASE Rerun
  BY <1>10 DEF Rerun, Documented, OperationsPresent
<1>11. CASE UNCHANGED vars
  BY <1>1, <1>11, PresentStays, DocumentedStays DEF vars, place, spec
<1>12. QED
  BY <1>1, <1>2, <1>3, <1>4, <1>5, <1>6, <1>7, <1>8, <1>9, <1>10, <1>11
     DEF Next, PluginStep, Over

(* The document of a service has every operation of it, with the           *)
(* parameters, the body and the response of the method or of the one that  *)
(* registers the same verb on the same route.                              *)
THEOREM NoOperationLost == Spec => []OperationsPresent
<1>1. Init => TypeInv /\ Documented /\ OperationsPresent
  BY TypeInit, DocumentsInit
<1>2. (TypeInv /\ Documented /\ OperationsPresent) /\ [Next]_vars
        => (TypeInv /\ Documented /\ OperationsPresent)'
  BY TypeNext, DocumentedNext
<1>3. QED
  BY <1>1, <1>2, PTL DEF Spec

(* The other direction: every operation of a document is that of a method  *)
(* of its service, under the method's verb and on a path of its shape.     *)
Sourced(d, ms) ==
  \A k \in DOMAIN d.operations : \E j \in DOMAIN ms :
    /\ ms[j].operations # 0
    /\ Erased(k[1]) = ErasedRoute(ParseRoute(ms[j].route)) /\ k[2] = ms[j].verb
    /\ d.operations[k] = Operation(ms[j], d.operations[k].names)

MethodsOf(a) == program[a.file].services[a.service].methods

NothingInvented == \A a \in artifacts : a.kind = "service" => Sourced(a.doc, MethodsOf(a))

SourcedSoFar ==
  /\ outcome = "running" /\ step = "operation" => Sourced(doc, Methods)
  /\ NothingInvented

LEMMA SourcedInit == Init => SourcedSoFar
BY DEF Init, SourcedSoFar, NothingInvented

LEMMA InventedStays ==
  ASSUME NothingInvented, program' = program,
         \A a \in artifacts' : a \in artifacts \/ a.kind # "service"
  PROVE  NothingInvented'
BY DEF NothingInvented, MethodsOf

LEMMA SourcedNext == TypeInv /\ SourcedSoFar /\ [Next]_vars => SourcedSoFar'
<1>1. SUFFICES ASSUME TypeInv, SourcedSoFar, [Next]_vars PROVE SourcedSoFar'
  OBVIOUS
<1> USE DEF TypeInv
<1>2. NothingInvented
  BY <1>1 DEF SourcedSoFar
<1>3. ASSUME NEW f \in Files, ProcessFile(f) PROVE SourcedSoFar'
  <2>1. program' = program /\ artifacts' = artifacts /\ step' = "service"
    BY <1>3 DEF ProcessFile
  <2>2. QED
    BY <1>2, <2>1, InventedStays DEF SourcedSoFar
<1>4. CASE RenderService
  <2>1. program' = program /\ artifacts' = artifacts /\ doc' = EmptyDoc
    BY <1>4 DEF RenderService
  <2>2. DOMAIN EmptyDoc.operations = {}
    BY DEF EmptyDoc, NoMap
  <2>3. \A ms : Sourced(doc', ms)
    BY <2>1, <2>2 DEF Sourced
  <2>4. NothingInvented'
    BY <1>2, <2>1, InventedStays
  <2>5. QED
    BY <2>3, <2>4 DEF SourcedSoFar
<1>5. ASSUME UNCHANGED <<program, file, service, artifacts, doc>>,
             outcome' = "running" /\ step' = "operation"
               => outcome = "running" /\ step = "operation"
      PROVE  SourcedSoFar'
  <2>1. NothingInvented'
    BY <1>2, <1>5, InventedStays
  <2>2. Methods' = Methods
    BY <1>5 DEF Methods, Services
  <2>3. QED
    BY <1>1, <1>5, <2>1, <2>2 DEF SourcedSoFar
<1>6. CASE SkipMethod
  BY <1>5, <1>6 DEF SkipMethod, spec
<1>7. CASE BuildOperation
  <2> DEFINE rpc == Methods[method]
             tkn == ParseRoute(rpc.route)
             names == CanonicalNames(tkn)
             path == SnakeRoute(tkn, names)
             at == <<path, rpc.verb>>
             op == Operation(rpc, names)
  <2>1. /\ outcome = "running" /\ step = "operation" /\ method \in DOMAIN Methods
        /\ rpc \in RpcSet /\ Built(rpc, tkn, names)
        /\ UNCHANGED <<program, file, service, artifacts>>
    BY <1>1, <1>7, BuildOperationParts DEF TypeOK, Placed
  <2>2. Methods' = Methods /\ NothingInvented'
    BY <1>2, <2>1, InventedStays DEF Methods, Services
  <2>3. Sourced(doc, Methods)
    BY <1>1, <2>1 DEF SourcedSoFar
  <2>4. CASE outcome' = "running"
    <3>1. doc'.operations = Put(doc.operations, at, op)
      BY <2>1, <2>4 DEF Built, AddOperation
    <3>2. /\ DOMAIN doc'.operations = DOMAIN doc.operations \cup {at}
          /\ doc'.operations[at] = op
          /\ \A k \in DOMAIN doc.operations \ {at} : doc'.operations[k] = doc.operations[k]
      BY <3>1 DEF Put
    <3>3. /\ at[1] = path /\ at[2] = rpc.verb
          /\ op = Operation(rpc, op.names) /\ rpc.operations # 0
      BY <2>1 DEF Operation, Built
    <3>4. Erased(path) = ErasedRoute(tkn)
      BY <2>1, BoundType, ShapeOfRoute
    <3> HIDE DEF names, path, at, op
    <3>5. Sourced(doc', Methods)
      <4>1. ASSUME NEW k \in DOMAIN doc'.operations
            PROVE  \E j \in DOMAIN Methods :
                     /\ Methods[j].operations # 0
                     /\ Erased(k[1]) = ErasedRoute(ParseRoute(Methods[j].route))
                     /\ k[2] = Methods[j].verb
                     /\ doc'.operations[k] = Operation(Methods[j], doc'.operations[k].names)
        <5>1. CASE k = at
          BY <2>1, <3>2, <3>3, <3>4, <5>1
        <5>2. CASE k # at
          <6>1. k \in DOMAIN doc.operations /\ doc'.operations[k] = doc.operations[k]
            BY <3>2, <4>1, <5>2
          <6>2. QED
            BY <2>3, <6>1 DEF Sourced
        <5>3. QED
          BY <5>1, <5>2
      <4>2. QED
        BY <4>1 DEF Sourced
    <3>6. QED
      BY <2>2, <3>5 DEF SourcedSoFar
  <2>5. CASE outcome' # "running"
    BY <2>2, <2>5 DEF SourcedSoFar
  <2>6. QED
    BY <2>4, <2>5
<1>8. CASE AddDocument
  <2>1. /\ outcome = "running" /\ step = "operation" /\ program' = program
        /\ step' = "service" /\ artifacts' = artifacts \cup {Artifact("service", service, doc)}
    BY <1>8 DEF AddDocument, At
  <2>2. Sourced(doc, Methods)
    BY <1>1, <2>1 DEF SourcedSoFar
  <2>3. ASSUME NEW a \in artifacts', a.kind = "service" PROVE Sourced(a.doc, MethodsOf(a))
    <3>1. CASE a \in artifacts
      BY <1>2, <2>3, <3>1 DEF NothingInvented
    <3>2. CASE a = Artifact("service", service, doc)
      <4>1. a.file = file /\ a.service = service /\ a.doc = doc
        BY <3>2, ArtifactFields
      <4>2. QED
        BY <2>2, <4>1 DEF MethodsOf, Methods, Services
    <3>3. QED
      BY <2>1, <2>3, <3>1, <3>2
  <2>4. NothingInvented'
    BY <2>1, <2>3 DEF NothingInvented, MethodsOf
  <2>5. QED
    BY <2>1, <2>4 DEF SourcedSoFar
<1>9. CASE RenderForcedMessages
  <2>1. /\ program' = program /\ step' = "gofile"
        /\ \E d : artifacts' \subseteq artifacts \cup {Artifact("messages", 0, d)}
    BY <1>9 DEF RenderForcedMessages
  <2>2. NothingInvented'
    BY <1>2, <2>1, ArtifactFields, InventedStays
  <2>3. QED
    BY <2>1, <2>2 DEF SourcedSoFar
<1>10. CASE AddGoFile
  <2>1. /\ program' = program /\ step' = "next"
        /\ artifacts' \subseteq artifacts \cup {Artifact("go", 0, EmptyDoc)}
    BY <1>10 DEF AddGoFile
  <2>2. NothingInvented'
    BY <1>2, <2>1, ArtifactFields, InventedStays
  <2>3. QED
    BY <2>1, <2>2 DEF SourcedSoFar
<1>11. CASE Return
  BY <1>5, <1>11 DEF Return, place, spec
<1>12. CASE Rerun
  BY <1>12 DEF Rerun, SourcedSoFar, NothingInvented
<1>13. CASE UNCHANGED vars
  BY <1>5, <1>13 DEF vars, place, spec
<1>14. QED
  BY <1>1, <1>3, <1>4, <1>6, <1>7, <1>8, <1>9, <1>10, <1>11, <1>12, <1>13
     DEF Next, PluginStep, Over

(* Nothing in a document is left from another service or from another      *)
(* method: each operation is one method's, with its query parameters, its  *)
(* response and its body, though addOperation writes over what another     *)
(* method put on the same verb and path.                                   *)
THEOREM NoOperationInvented == Spec => []NothingInvented
<1>1. Init => TypeInv /\ SourcedSoFar
  BY TypeInit, SourcedInit
<1>2. (TypeInv /\ SourcedSoFar) /\ [Next]_vars => (TypeInv /\ SourcedSoFar)'
  BY TypeNext, SourcedNext
<1>3. SourcedSoFar => NothingInvented
  BY DEF SourcedSoFar
<1>4. QED
  BY <1>1, <1>2, <1>3, PTL DEF Spec

(* A service whose methods have routes of their own, which is what ginapi  *)
(* takes (RoutesApart in Registry_proofs): each method's operation is the  *)
(* method's own.                                                           *)
Apart(ms) ==
  \A i, j \in DOMAIN ms :
    /\ ms[i].operations # 0 /\ ms[j].operations # 0 /\ ms[i].verb = ms[j].verb
    /\ CanonicalKey(ParseRoute(ms[i].route)) = CanonicalKey(ParseRoute(ms[j].route))
    => i = j

OwnOperation(d, rpc) ==
  \E k \in DOMAIN d.operations :
    /\ Erased(k[1]) = ErasedRoute(ParseRoute(rpc.route)) /\ k[2] = rpc.verb
    /\ d.operations[k] = Operation(rpc, d.operations[k].names)

OwnOperations ==
  \A a \in artifacts : a.kind = "service" /\ Apart(MethodsOf(a)) =>
    \A i \in DOMAIN MethodsOf(a) :
      MethodsOf(a)[i].operations = 1 => OwnOperation(a.doc, MethodsOf(a)[i])

(* OwnOperations: no method of such a service loses its operation to       *)
(* another one's, whatever the services before it left in the mapper.      *)
THEOREM EachMethodItsOperation == Spec => []OwnOperations
<1>1. ASSUME OperationsPresent, NEW a \in artifacts, a.kind = "service", Apart(MethodsOf(a)),
             NEW i \in DOMAIN MethodsOf(a), MethodsOf(a)[i].operations = 1
      PROVE  OwnOperation(a.doc, MethodsOf(a)[i])
  <2> DEFINE ms == MethodsOf(a)
  <2>1. Documents(a.doc, ms, i)
    BY <1>1 DEF OperationsPresent, MethodsOf
  <2> HIDE DEF ms
  <2>2. PICK j \in DOMAIN ms, k \in DOMAIN a.doc.operations :
          /\ CanonicalKey(ParseRoute(ms[j].route)) = CanonicalKey(ParseRoute(ms[i].route))
          /\ Erased(k[1]) = ErasedRoute(ParseRoute(ms[i].route))
          /\ k[2] = ms[i].verb /\ ms[j].verb = ms[i].verb /\ ms[j].operations # 0
          /\ a.doc.operations[k] = Operation(ms[j], a.doc.operations[k].names)
    BY <2>1 DEF Documents
  <2>3. i \in DOMAIN ms /\ ms[i].operations # 0
    BY <1>1 DEF ms
  <2>4. j = i
    BY <1>1, <2>2, <2>3 DEF Apart, ms
  <2>5. QED
    BY <2>2, <2>4 DEF OwnOperation, ms
<1>2. OperationsPresent => OwnOperations
  BY <1>1 DEF OwnOperations
<1>3. QED
  BY <1>2, NoOperationLost, PTL

-----------------------------------------------------------------------------
(* The schemas of a document.                                              *)

LEMMA ReachedClosed ==
  ASSUME NEW S
  PROVE  /\ S \subseteq Reached(S)
         /\ Reached(S) \subseteq S \cup (Named \X {<<>>})
         /\ Embedded(Reached(S)) \subseteq Reached(S)
<1>1. \A closed \in Above(S) : S \subseteq closed
  BY DEF Above
<1>2. S \subseteq Reached(S) /\ Reached(S) \subseteq S \cup (Named \X {<<>>})
  BY <1>1 DEF Reached
<1>3. ASSUME NEW e \in Embedded(Reached(S)) PROVE e \in Reached(S)
  <2>1. PICK s \in Reached(S) : \E f \in Shown(s[1], s[2]) :
          e = <<f.type, <<>> >> /\ f.type \in Named
    BY <1>3 DEF Embedded
  <2>2. e \in Named \X {<<>>}
    BY <2>1
  <2>3. ASSUME NEW closed \in Above(S), Embedded(closed) \subseteq closed PROVE e \in closed
    <3>1. s \in closed
      BY <2>1, <2>3 DEF Reached
    <3>2. e \in Embedded(closed)
      BY <2>1, <3>1 DEF Embedded
    <3>3. QED
      BY <2>3, <3>2
  <2>4. QED
    BY <2>2, <2>3 DEF Reached
<1>4. QED
  BY <1>2, <1>3

LEMMA ReachedGrows ==
  ASSUME NEW S, NEW T, S \subseteq T
  PROVE  Reached(S) \subseteq Reached(T)
<1> SUFFICES ASSUME NEW s \in Reached(S),
                    NEW closed \in Above(T), Embedded(closed) \subseteq closed
             PROVE  s \in closed
  BY ReachedClosed DEF Reached
<1> DEFINE more == closed \cap (Named \X {<<>>})
           small == S \cup more
<1>1. T \subseteq closed
  BY DEF Above
<1>2. small \in Above(S)
  BY DEF Above
<1>3. small \subseteq closed
  BY <1>1
<1> HIDE DEF small
<1>4. Embedded(small) \subseteq Embedded(closed)
  BY <1>3 DEF Embedded
<1>5. Embedded(closed) \subseteq more
  <2>1. Embedded(closed) \subseteq Named \X {<<>>}
    BY DEF Embedded
  <2>2. QED
    BY <2>1
<1>6. Embedded(small) \subseteq small
  BY <1>4, <1>5 DEF small
<1>7. s \in small
  BY <1>2, <1>6 DEF Reached
<1>8. QED
  BY <1>3, <1>7

LEMMA NothingReached == Rendered({}) = {}
<1>1. {} \in Above({}) /\ Embedded({}) = {}
  BY DEF Above, Embedded
<1>2. QED
  BY <1>1 DEF Rendered, Reached

LEMMA KeysOf ==
  ASSUME NEW schemas, NEW m, NEW f, <<m, f>> \in schemas
  PROVE  Key(m, f) \in Keys(schemas)
<1>1. <<m, f>>[1] = m /\ <<m, f>>[2] = f
  OBVIOUS
<1>2. QED
  BY <1>1 DEF Keys

LEMMA RenderedClosed ==
  ASSUME NEW T
  PROVE  /\ \A s \in T : s[1] \in Named => s \in Rendered(T)
         /\ \A s \in Rendered(T) : s \in T \/ s[2] = <<>>
         /\ Embedded(Rendered(T)) \subseteq Rendered(T)
BY ReachedClosed DEF Rendered

LEMMA RenderedGrows ==
  ASSUME NEW T, NEW U, T \subseteq U
  PROVE  Rendered(T) \subseteq Rendered(U)
BY ReachedGrows DEF Rendered

(* AddInput's panic leaves one filter for each input.                      *)
OneFilter(mt) == \A s, t \in mt : s[1] = t[1] /\ <<>> \notin {s[2], t[2]} => s = t

(* So a key finds one schema, and only one.                                *)
LEMMA KeyResolves ==
  ASSUME NEW mt \in SUBSET SchemaSet, OneFilter(mt), NEW ref \in Keys(mt), ref[1] \in Named
  PROVE  Cardinality({s \in Rendered(mt) : Key(s[1], s[2]) = ref}) = 1
<1>1. PICK s \in mt : ref = Key(s[1], s[2])
  BY DEF Keys
<1>2. \A m, f : Key(m, f)[1] = m /\ Key(m, f)[2] = (f # <<>>)
  BY DEF Key
<1>3. s \in Rendered(mt)
  BY <1>1, <1>2, RenderedClosed
<1>4. ASSUME NEW t \in Rendered(mt), Key(t[1], t[2]) = ref PROVE t = s
  <2>1. s[1] = t[1] /\ (s[2] # <<>>) = (t[2] # <<>>)
    BY <1>1, <1>2, <1>4
  <2>2. CASE s[2] = <<>>
    <3>1. s \in SchemaSet /\ t \in SchemaSet
      BY <1>3, <1>4, RenderedType
    <3>2. s = <<s[1], s[2]>> /\ t = <<t[1], t[2]>>
      BY <3>1 DEF SchemaSet
    <3>3. QED
      BY <2>1, <2>2, <3>2
  <2>3. CASE s[2] # <<>>
    <3>1. t \in mt /\ t[2] # <<>>
      BY <1>4, <2>1, <2>3, RenderedClosed
    <3>2. QED
      BY <1>1, <2>1, <2>3, <3>1 DEF OneFilter
  <2>4. QED
    BY <2>2, <2>3
<1>5. {t \in Rendered(mt) : Key(t[1], t[2]) = ref} = {s}
  BY <1>1, <1>3, <1>4
<1>6. QED
  BY <1>5, FS_Singleton

(* RefsResolve for one document.                                           *)
Resolves(d) ==
  /\ \A k \in DOMAIN d.operations :
       \A ref \in {d.operations[k].output, d.operations[k].body} \ {NoBody} :
         ref[1] \in Named => Cardinality({s \in d.schemas : Key(s[1], s[2]) = ref}) = 1
  /\ Embedded(d.schemas) \subseteq d.schemas

LEMMA TrackedResolves == TypeOK /\ Tracked => Resolves(doc)
<1> SUFFICES ASSUME TypeOK, Tracked PROVE Resolves(doc)
  OBVIOUS
<1>1. tracker \in SUBSET SchemaSet /\ OneFilter(tracker) /\ doc.schemas = Rendered(tracker)
  BY DEF TypeOK, Tracked, OneFilter
<1>2. ASSUME NEW k \in DOMAIN doc.operations,
             NEW ref \in {doc.operations[k].output, doc.operations[k].body} \ {NoBody},
             ref[1] \in Named
      PROVE  Cardinality({s \in doc.schemas : Key(s[1], s[2]) = ref}) = 1
  <2>1. ref \in Keys(tracker)
    BY DEF Tracked
  <2>2. QED
    BY <1>1, <1>2, <2>1, KeyResolves
<1>3. Embedded(doc.schemas) \subseteq doc.schemas
  BY <1>1, RenderedClosed
<1>4. QED
  BY <1>2, <1>3 DEF Resolves

(* The documents added are the one of a tracker, that of forced messages   *)
(* and those without a schema.                                             *)
LEMMA RendersResolve ==
  ASSUME NEW mt
  PROVE  Resolves(EmptyDoc) /\ Resolves([EmptyDoc EXCEPT !.schemas = Rendered(mt)])
<1>1. \A s : [EmptyDoc EXCEPT !.schemas = s].schemas = s
           /\ DOMAIN [EmptyDoc EXCEPT !.schemas = s].operations = {}
  BY DEF EmptyDoc, NoMap
<1>2. EmptyDoc.schemas = {} /\ DOMAIN EmptyDoc.operations = {} /\ Embedded({}) = {}
  BY DEF EmptyDoc, NoMap, Embedded
<1>3. Embedded(Rendered(mt)) \subseteq Rendered(mt)
  BY RenderedClosed
<1>4. QED
  BY <1>1, <1>2, <1>3 DEF Resolves

LEMMA TrackedEmpty == ASSUME NEW d, d = EmptyDoc
                      PROVE  d.schemas = Rendered({}) /\ DOMAIN d.operations = {}
BY NothingReached DEF EmptyDoc, NoMap

LEMMA TrackedInit == Init => Tracked
BY TrackedEmpty DEF Init, Tracked

(* The schemas of a document that follows a tracker, when another method   *)
(* has been added to both.                                                 *)
LEMMA SchemasMerge ==
  ASSUME NEW d, NEW old, NEW new, old \subseteq new, d.schemas = Rendered(old),
         NEW path, NEW verb, NEW op
  PROVE  AddOperation(d, path, verb, op, Rendered(new)).schemas = Rendered(new)
<1>1. d.schemas \subseteq Rendered(new)
  BY RenderedGrows
<1>2. \A s \in d.schemas : Key(s[1], s[2]) \in Keys(Rendered(new))
  BY <1>1 DEF Keys
<1>3. {s \in d.schemas : Key(s[1], s[2]) \notin Keys(Rendered(new))} = {}
  BY <1>2
<1>4. QED
  BY <1>3 DEF AddOperation

(* buildOperation keeps the document in step with the tracker.             *)
LEMMA TrackedByBuild ==
  ASSUME TypeInv, Tracked, BuildOperation
  PROVE  Tracked'
<1> DEFINE rpc == Methods[method]
           tkn == ParseRoute(rpc.route)
           names == CanonicalNames(tkn)
           path == SnakeRoute(tkn, names)
           op == Operation(rpc, names)
           known == Known(rpc, names)
           filter == Filter(rpc, names)
<1>1. rpc \in RpcSet /\ Built(rpc, tkn, names)
  BY BuildOperationParts DEF TypeInv
<1>2. /\ op.output = Key(rpc.output, <<>>)
      /\ op.body \in {NoBody, Key(rpc.input, Bound(rpc))}
      /\ filter = IF op.body = NoBody THEN <<>> ELSE Bound(rpc)
      /\ known = tracker \cup {<<rpc.output, <<>> >>}
                   \cup IF op.body = NoBody THEN {} ELSE {<<rpc.input, filter>>}
  BY DEF Operation, Known, Filter
<1>3. tracker \in SUBSET SchemaSet
  BY DEF TypeInv, TypeOK
<1> HIDE DEF names, tkn, rpc, path
<1>4. CASE outcome' # "running"
  <2>1. UNCHANGED <<tracker, doc>>
    BY <1>1, <1>4 DEF Built
  <2>2. QED
    BY <2>1 DEF Tracked
<1>5. CASE outcome' = "running"
  <2>1. /\ tracker' = known
        /\ doc' = AddOperation(doc, path, rpc.verb, op, Rendered(known))
        /\ ~Clash(tracker, rpc.input, filter)
    BY <1>1, <1>5 DEF Built, path
  <2> HIDE DEF op, known, filter
  <2>2. tracker \subseteq known
    BY <1>2
  <2>3. doc'.schemas = Rendered(tracker')
    BY <2>1, <2>2, SchemasMerge DEF Tracked
  <2>4. OneFilter(known)
    <3>1. ASSUME NEW s \in tracker, s[1] = rpc.input, s[2] # <<>>, filter # <<>>
          PROVE  s = <<rpc.input, filter>>
      <4>1. s[2] = filter
        BY <2>1, <3>1 DEF Clash
      <4>2. s = <<s[1], s[2]>>
        BY <1>3 DEF SchemaSet
      <4>3. QED
        BY <3>1, <4>1, <4>2
    <3>2. \A s \in known : s[2] # <<>> => s \in tracker \/ s = <<rpc.input, filter>>
      BY <1>2
    <3>3. \A s, t \in tracker : s[1] = t[1] /\ <<>> \notin {s[2], t[2]} => s = t
      BY DEF Tracked
    <3>4. ASSUME NEW s \in known, NEW t \in known,
                 s[1] = t[1], <<>> \notin {s[2], t[2]}
          PROVE  s = t
      <4>1. \/ s \in tracker /\ t \in tracker
            \/ s = <<rpc.input, filter>> /\ t = <<rpc.input, filter>>
            \/ s = <<rpc.input, filter>> /\ t \in tracker
            \/ t = <<rpc.input, filter>> /\ s \in tracker
        BY <3>2, <3>4
      <4>2. <<rpc.input, filter>>[1] = rpc.input /\ <<rpc.input, filter>>[2] = filter
        OBVIOUS
      <4>3. QED
        BY <3>1, <3>3, <3>4, <4>1, <4>2
    <3>5. QED
      BY <3>4 DEF OneFilter
  <2>5. ASSUME NEW k \in DOMAIN doc'.operations
        PROVE  {doc'.operations[k].output, doc'.operations[k].body} \subseteq Keys(known) \cup {NoBody}
    <3>1. doc'.operations = Put(doc.operations, <<path, rpc.verb>>, op)
      BY <2>1 DEF AddOperation
    <3>2. CASE k = <<path, rpc.verb>>
      <4>1. doc'.operations[k] = op
        BY <3>1, <3>2 DEF Put
      <4>2. op.output \in Keys(known)
        <5>1. <<rpc.output, <<>> >> \in known
          BY <1>2
        <5>2. Key(rpc.output, <<>>) \in Keys(known)
          BY <5>1, KeysOf
        <5>3. op.output = Key(rpc.output, <<>>)
          BY <1>2
        <5>4. QED
          BY <5>2, <5>3
      <4>3. op.body # NoBody => op.body \in Keys(known)
        <5>1. op.body # NoBody => /\ <<rpc.input, filter>> \in known
                                  /\ op.body = Key(rpc.input, filter)
          BY <1>2
        <5>2. QED
          BY <5>1, KeysOf
      <4>4. QED
        BY <4>1, <4>2, <4>3
    <3>3. CASE k # <<path, rpc.verb>>
      <4>1. k \in DOMAIN doc.operations /\ doc'.operations[k] = doc.operations[k]
        BY <3>1, <3>3 DEF Put
      <4>2. Keys(tracker) \subseteq Keys(known)
        BY <2>2 DEF Keys
      <4>3. QED
        BY <4>1, <4>2 DEF Tracked
    <3>4. QED
      BY <3>2, <3>3
  <2>6. QED
    BY <2>1, <2>3, <2>4, <2>5 DEF Tracked, OneFilter
<1>6. QED
  BY <1>4, <1>5

LEMMA TrackedNext == TypeInv /\ Tracked /\ [Next]_vars => Tracked'
<1>1. SUFFICES ASSUME TypeInv, Tracked, [Next]_vars PROVE Tracked'
  OBVIOUS
<1>2. CASE UNCHANGED <<tracker, doc>>
  BY <1>1, <1>2 DEF Tracked
<1>3. CASE tracker' = {} /\ doc' = EmptyDoc
  <2>1. doc'.schemas = Rendered({}) /\ DOMAIN doc'.operations = {}
    BY <1>3, TrackedEmpty
  <2>2. QED
    BY <1>3, <2>1 DEF Tracked
<1>4. CASE BuildOperation
  BY <1>1, <1>4, TrackedByBuild
<1>5. UNCHANGED <<tracker, doc>> \/ (tracker' = {} /\ doc' = EmptyDoc) \/ BuildOperation
  BY <1>1 DEF Next, PluginStep, Over, ProcessFile, RenderService, SkipMethod, AddDocument,
              RenderForcedMessages, AddGoFile, Return, Rerun, spec, vars
<1>6. QED
  BY <1>2, <1>3, <1>4, <1>5

ArtifactsResolve == \A a \in artifacts : Resolves(a.doc)

LEMMA ResolvesNext ==
  TypeInv /\ Tracked /\ ArtifactsResolve /\ [Next]_vars => ArtifactsResolve'
<1>1. SUFFICES ASSUME TypeInv, Tracked, ArtifactsResolve, [Next]_vars PROVE ArtifactsResolve'
  OBVIOUS
<1>2. Resolves(doc) /\ Resolves(EmptyDoc)
  BY <1>1, TrackedResolves, RendersResolve DEF TypeInv
<1>3. CASE artifacts' \subseteq artifacts
  BY <1>1, <1>3 DEF ArtifactsResolve
<1>4. CASE AddDocument
  <2>1. artifacts' = artifacts \cup {Artifact("service", service, doc)}
    BY <1>4 DEF AddDocument
  <2>2. QED
    BY <1>1, <1>2, <2>1, ArtifactFields DEF ArtifactsResolve
<1>5. CASE RenderForcedMessages
  <2> DEFINE messages == [EmptyDoc EXCEPT !.schemas =
                            Rendered({<<m, <<>> >> : m \in program[file].forced})]
  <2>1. artifacts' \subseteq artifacts \cup {Artifact("messages", 0, messages)}
    BY <1>5 DEF RenderForcedMessages
  <2>2. Resolves(messages)
    BY RendersResolve
  <2> HIDE DEF messages
  <2>3. QED
    BY <1>1, <2>1, <2>2, ArtifactFields DEF ArtifactsResolve
<1>6. CASE AddGoFile
  <2>1. artifacts' \subseteq artifacts \cup {Artifact("go", 0, EmptyDoc)}
    BY <1>6 DEF AddGoFile
  <2>2. QED
    BY <1>1, <1>2, <2>1, ArtifactFields DEF ArtifactsResolve
<1>7. artifacts' \subseteq artifacts \/ AddDocument \/ RenderForcedMessages \/ AddGoFile
  BY <1>1 DEF Next, PluginStep, Over, ProcessFile, RenderService, SkipMethod, BuildOperation,
              Return, Rerun, vars
<1>8. QED
  BY <1>3, <1>4, <1>5, <1>6, <1>7

(* Every reference to a message that is not rendered inline resolves to    *)
(* one schema, in every document of a run, finished or not: AddInput keeps *)
(* one filter per input, and the schemas are those of everything the       *)
(* tracker holds.                                                          *)
THEOREM NoDanglingReference == Spec => []RefsResolve
<1> DEFINE Inv == TypeInv /\ Tracked /\ ArtifactsResolve
<1>1. Init => Inv
  BY TypeInit, TrackedInit DEF Init, ArtifactsResolve
<1>2. Inv /\ [Next]_vars => Inv'
  BY TypeNext, TrackedNext, ResolvesNext
<1>3. Inv => RefsResolve
  <2>1. Inv => \A d \in Docs : Resolves(d)
    BY TrackedResolves DEF TypeInv, Docs, ArtifactsResolve
  <2>2. QED
    BY <2>1 DEF RefsResolve, Resolves
<1>4. QED
  BY <1>1, <1>2, <1>3, PTL DEF Spec

-----------------------------------------------------------------------------
(* What a run comes to is determined by the descriptors.  Of a method: what*)
(* it adds to the tracker, whether its operation stops the run, and its    *)
(* entry in the document, unless a later one takes its place.              *)
HasBody(rpc) == rpc.verb \notin {"GET", "HEAD"}

Noted(rpc) ==
  {<<rpc.output, <<>> >>} \cup IF HasBody(rpc) THEN {<<rpc.input, Bound(rpc)>>} ELSE {}

(* The methods before the m-th that have an operation.                     *)
Before(ms, m) == {i \in DOMAIN ms : i < m /\ ms[i].operations # 0}

NotedBefore(ms, m) == UNION {Noted(ms[i]) : i \in Before(ms, m)}

Stops(ms, i) ==
  /\ ms[i].operations # 0
  /\ \/ ~ms[i].valid
     \/ Clash(NotedBefore(ms, i), ms[i].input, IF HasBody(ms[i]) THEN Bound(ms[i]) ELSE <<>>)

Slot(rpc) == <<ErasedRoute(ParseRoute(rpc.route)), rpc.verb>>

Entry(rpc) ==
  <<ErasedRoute(ParseRoute(rpc.route)), rpc.verb,
    Operation(rpc, ParamCount(CanonicalKey(ParseRoute(rpc.route))))>>

(* The later method on a slot is the one that is documented.               *)
Latest(ms, m) ==
  {j \in Before(ms, m) : \A k \in Before(ms, m) : j < k => Slot(ms[k]) # Slot(ms[j])}

EntriesBefore(ms, m) == {Entry(ms[i]) : i \in Latest(ms, m)}

Fails(s) ==
  \/ Rendering(s.methods) # "running" \/ ~s.valid
  \/ \E i \in DOMAIN s.methods : Stops(s.methods, i)

Succeeds == \A f \in Files : \A n \in DOMAIN program[f].services : ~Fails(program[f].services[n])

(* The artifacts of a run that succeeds, up to names.                      *)
ServiceOutput(f, n) ==
  LET ms == program[f].services[n].methods IN
  [kind |-> "service", file |-> f, service |-> n,
   schemas |-> Rendered(NotedBefore(ms, Len(ms) + 1)),
   operations |-> EntriesBefore(ms, Len(ms) + 1)]

MessagesOutput(f) ==
  [kind |-> "messages", file |-> f, service |-> 0,
   schemas |-> Rendered({<<m, <<>> >> : m \in program[f].forced}), operations |-> {}]

GoOutput(f) ==
  [kind |-> "go", file |-> f, service |-> 0, schemas |-> {}, operations |-> {}]

Outputs ==
  (UNION {{ServiceOutput(f, n) : n \in DOMAIN program[f].services} : f \in Files})
    \cup {MessagesOutput(f) : f \in {g \in Files : program[g].forced # {}}}
    \cup {GoOutput(f) : f \in {g \in Files : program[g].services # <<>>}}

(* How far a run is determined: the service it is at, what is behind it    *)
(* and how it ended, what it has written, what the earlier runs came to.   *)
ServiceDetermined ==
  outcome = "running" /\ step = "operation" =>
    /\ Rendering(Methods) = "running" /\ Services[service].valid
    /\ \A i \in DOMAIN Methods : i < method => ~Stops(Methods, i)
    /\ tracker = NotedBefore(Methods, method)
    /\ \A k \in DOMAIN doc.operations : k = <<k[1], k[2]>>
    /\ Entries(doc) = EntriesBefore(Methods, method)

OutcomeDetermined ==
  /\ outcome \in {"running", "done"} =>
       /\ \A f \in Files \ todo : f # file =>
            \A n \in DOMAIN program[f].services : ~Fails(program[f].services[n])
       /\ step # "next" => \A n \in DOMAIN Services : n < service => ~Fails(Services[n])
  /\ outcome \in {"failed", "panicked"} => ~Succeeds

ArtifactsDetermined == \A a \in artifacts : ErasedArtifact(a) \in Outputs

CameTo(result) ==
  /\ result.outcome = "done" <=> Succeeds
  /\ {ErasedArtifact(a) : a \in result.artifacts} = IF Succeeds THEN Outputs ELSE {}

EarlierDetermined ==
  /\ earlier \in Seq(Range(earlier))
  /\ \A i \in DOMAIN earlier : CameTo(earlier[i])

LEMMA BodyOfOperation ==
  ASSUME NEW rpc \in RpcSet, NEW names
  PROVE  /\ Known(rpc, names) = tracker \cup Noted(rpc)
         /\ Filter(rpc, names) = IF HasBody(rpc) THEN Bound(rpc) ELSE <<>>
<1>1. rpc.input \in Messages
  BY BoundType
<1>2. Key(rpc.input, Bound(rpc)) # NoBody
  <2>1. Key(rpc.input, Bound(rpc)) \in KeySet
    BY <1>1 DEF Key, KeySet
  <2>2. QED
    BY <2>1, GeneratorAssumption DEF KeySet
<1>3. CASE HasBody(rpc)
  <2>1. Operation(rpc, names).body # NoBody
    BY <1>2, <1>3 DEF Operation, HasBody
  <2>2. QED
    BY <1>3, <2>1 DEF Known, Filter, Noted
<1>4. CASE ~HasBody(rpc)
  <2>1. Operation(rpc, names).body = NoBody
    BY <1>4 DEF Operation, HasBody
  <2>2. QED
    BY <1>4, <2>1 DEF Known, Filter, Noted
<1>5. QED
  BY <1>3, <1>4

LEMMA EntryParts ==
  \A rpc : /\ Entry(rpc)[1] = Slot(rpc)[1] /\ Entry(rpc)[2] = Slot(rpc)[2]
           /\ <<Entry(rpc)[1], Entry(rpc)[2]>> = Slot(rpc)
BY DEF Entry, Slot

(* One method more.                                                        *)
LEMMA BeforeNext ==
  ASSUME NEW ms \in Seq(RpcSet), NEW m \in DOMAIN ms
  PROVE  /\ ms[m].operations = 0 =>
              /\ NotedBefore(ms, m + 1) = NotedBefore(ms, m)
              /\ EntriesBefore(ms, m + 1) = EntriesBefore(ms, m)
         /\ ms[m].operations # 0 =>
              /\ NotedBefore(ms, m + 1) = NotedBefore(ms, m) \cup Noted(ms[m])
              /\ EntriesBefore(ms, m + 1) =
                   {e \in EntriesBefore(ms, m) : <<e[1], e[2]>> # Slot(ms[m])} \cup {Entry(ms[m])}
<1>1. /\ m \in Nat /\ DOMAIN ms \subseteq Nat
      /\ \A i \in DOMAIN ms : i < m + 1 <=> i < m \/ i = m
      /\ ~(m < m)
  OBVIOUS
<1>2. CASE ms[m].operations = 0
  <2>1. Before(ms, m + 1) = Before(ms, m)
    BY <1>1, <1>2 DEF Before
  <2>2. QED
    BY <1>2, <2>1 DEF NotedBefore, EntriesBefore, Latest
<1>3. CASE ms[m].operations # 0
  <2> DEFINE B == Before(ms, m)
  <2>1. Before(ms, m + 1) = B \cup {m}
    BY <1>1, <1>3 DEF Before
  <2>2. m \notin B /\ \A i \in B : i < m /\ ~(m < i) /\ i \in DOMAIN ms
    BY <1>1 DEF Before
  <2>3. NotedBefore(ms, m + 1) = NotedBefore(ms, m) \cup Noted(ms[m])
    BY <2>1 DEF NotedBefore
  <2> HIDE DEF B
  <2>4. Latest(ms, m + 1) = {j \in Latest(ms, m) : Slot(ms[j]) # Slot(ms[m])} \cup {m}
    <3>1. Latest(ms, m + 1) =
            {j \in B \cup {m} : \A k \in B \cup {m} : j < k => Slot(ms[k]) # Slot(ms[j])}
      BY <2>1 DEF Latest
    <3>2. Latest(ms, m) = {j \in B : \A k \in B : j < k => Slot(ms[k]) # Slot(ms[j])}
      BY DEF Latest, B
    <3>3. QED
      BY <1>1, <2>2, <3>1, <3>2
  <2>5. EntriesBefore(ms, m + 1) =
          {e \in EntriesBefore(ms, m) : <<e[1], e[2]>> # Slot(ms[m])} \cup {Entry(ms[m])}
    BY <2>4, EntryParts DEF EntriesBefore
  <2>6. QED
    BY <1>3, <2>3, <2>5
<1>4. QED
  BY <1>2, <1>3

LEMMA BeforeEnds ==
  ASSUME NEW ms \in Seq(RpcSet)
  PROVE  /\ NotedBefore(ms, 1) = {} /\ EntriesBefore(ms, 1) = {}
         /\ \A m \in Nat \ DOMAIN ms : m > 0 =>
              /\ NotedBefore(ms, m) = NotedBefore(ms, Len(ms) + 1)
              /\ EntriesBefore(ms, m) = EntriesBefore(ms, Len(ms) + 1)
              /\ \A i \in DOMAIN ms : i < m
<1>1. Before(ms, 1) = {}
  BY DEF Before
<1>2. ASSUME NEW m \in Nat \ DOMAIN ms, m > 0
      PROVE  Before(ms, m) = Before(ms, Len(ms) + 1) /\ \A i \in DOMAIN ms : i < m
  <2>1. \A i \in DOMAIN ms : i < m /\ i < Len(ms) + 1
    BY <1>2
  <2>2. QED
    BY <2>1 DEF Before
<1>3. QED
  BY <1>1, <1>2 DEF NotedBefore, EntriesBefore, Latest

LEMMA ProgramStays ==
  ASSUME [Next]_vars
  PROVE  program' = program /\ Outputs' = Outputs /\ (Succeeds' <=> Succeeds)
<1>1. program' = program
  BY DEF Next, PluginStep, Over, ProcessFile, RenderService, SkipMethod, BuildOperation,
         AddDocument, RenderForcedMessages, AddGoFile, Return, Rerun, vars
<1>2. QED
  BY <1>1 DEF Outputs, ServiceOutput, MessagesOutput, GoOutput, Succeeds

(* An operation takes its slot in the document, and no other.              *)
LEMMA EntriesByBuild ==
  ASSUME TypeInv, Mapped, BuildOperation, outcome' = "running",
         \A k \in DOMAIN doc.operations : k = <<k[1], k[2]>>
  PROVE  /\ \A k \in DOMAIN doc'.operations : k = <<k[1], k[2]>>
         /\ Entries(doc') = {e \in Entries(doc) : <<e[1], e[2]>> # Slot(Methods[method])}
                              \cup {Entry(Methods[method])}
<1> DEFINE rpc == Methods[method]
           tkn == ParseRoute(rpc.route)
           key == CanonicalKey(tkn)
           names == CanonicalNames(tkn)
           path == SnakeRoute(tkn, names)
           at == <<path, rpc.verb>>
           op == Operation(rpc, names)
           Of(d, k) == <<Erased(k[1]), k[2], ErasedOperation(d.operations[k])>>
<1>1. rpc \in RpcSet /\ rpc.route \in RouteSet /\ Built(rpc, tkn, names)
  BY BuildOperationParts, BoundType DEF TypeInv
<1>2. /\ Erased(path) = ErasedRoute(tkn)
      /\ ErasedRoute(tkn) =
           [i \in DOMAIN key |-> IF i \in Wilds(key) THEN Template("") ELSE key[i]]
      /\ path = PathOf(key, names) /\ Canonical(key)
      /\ Len(names) = ParamCount(key)
      /\ key \in DOMAIN mapper => names = mapper[key]
  BY <1>1, ShapeOfRoute, PathOfRoute, KeyOfRoute, NamesType DEF TypeInv, CanonicalNames
<1>3. ErasedOperation(op) = Operation(rpc, ParamCount(key))
  <2> DEFINE q == rpc.query
             o == Key(rpc.output, <<>>)
             b == IF rpc.verb \in {"GET", "HEAD"} THEN NoBody ELSE Key(rpc.input, Bound(rpc))
  <2>1. \A x : Operation(rpc, x) = [names |-> x, query |-> q, output |-> o, body |-> b]
    BY DEF Operation
  <2>2. op = [names |-> names, query |-> q, output |-> o, body |-> b]
    BY <2>1
  <2> HIDE DEF q, o, b, op, names
  <2>3. ErasedOperation(op) = [names |-> Len(names), query |-> q, output |-> o, body |-> b]
    BY <2>2 DEF ErasedOperation
  <2>4. QED
    BY <1>2, <2>1, <2>3
<1>4. doc'.operations = Put(doc.operations, at, op)
  BY <1>1 DEF Built, AddOperation
<1>5. /\ at[1] = path /\ at[2] = rpc.verb /\ at = <<at[1], at[2]>>
      /\ DOMAIN doc'.operations = DOMAIN doc.operations \cup {at}
      /\ doc'.operations[at] = op
      /\ \A k \in DOMAIN doc.operations \ {at} : doc'.operations[k] = doc.operations[k]
  BY <1>4 DEF Put
<1>6. Of(doc', at) = Entry(rpc)
  BY <1>2, <1>3, <1>5 DEF Entry
<1> HIDE DEF rpc, tkn, names, path, at, op
<1>7. ASSUME NEW k \in DOMAIN doc.operations
      PROVE  <<Erased(k[1]), k[2]>> = Slot(rpc) <=> k = at
  <2>1. Slot(rpc) = <<ErasedRoute(tkn), rpc.verb>>
    BY DEF Slot, tkn
  <2>2. CASE k = at
    BY <1>2, <1>5, <2>1, <2>2
  <2>3. ASSUME <<Erased(k[1]), k[2]>> = Slot(rpc) PROVE k = at
    <3>1. Erased(k[1]) = ErasedRoute(tkn) /\ k[2] = rpc.verb
      BY <2>1, <2>3
    <3>2. PICK c \in DOMAIN mapper : k[1] = PathOf(c, mapper[c])
      BY DEF Mapped, Docs
    <3>3. Canonical(c) /\ mapper[c] \in Seq(STRING) /\ Len(mapper[c]) = ParamCount(c)
      BY DEF Mapped, TypeInv, TypeOK
    <3>4. Erased(k[1]) = [i \in DOMAIN c |-> IF i \in Wilds(c) THEN Template("") ELSE c[i]]
      BY <3>2, <3>3, PathOfKey
    <3> HIDE DEF key
    <3>5. [i \in DOMAIN key |-> IF i \in Wilds(key) THEN Template("") ELSE key[i]] =
            [i \in DOMAIN c |-> IF i \in Wilds(c) THEN Template("") ELSE c[i]]
      BY <1>2, <3>1, <3>4
    <3>6. key = c
      BY <1>2, <3>3, <3>5, ShapeOfKey
    <3>7. k[1] = path
      BY <1>2, <3>2, <3>6
    <3>8. QED
      BY <1>5, <3>1, <3>7
  <2>4. QED
    BY <2>2, <2>3
<1>8. /\ Entries(doc') = {Of(doc', k) : k \in DOMAIN doc'.operations}
      /\ Entries(doc) = {Of(doc, k) : k \in DOMAIN doc.operations}
  BY DEF Entries
<1>9. /\ \A k \in DOMAIN doc.operations \ {at} : Of(doc', k) = Of(doc, k)
      /\ \A d, k : Of(d, k)[1] = Erased(k[1]) /\ Of(d, k)[2] = k[2]
  BY <1>5
<1> HIDE DEF Of
<1>10. Entries(doc') = {e \in Entries(doc) : <<e[1], e[2]>> # Slot(rpc)} \cup {Entry(rpc)}
  <2>1. Entries(doc') = {Of(doc, k) : k \in DOMAIN doc.operations \ {at}} \cup {Entry(rpc)}
    BY <1>5, <1>6, <1>8, <1>9
  <2>2. {e \in Entries(doc) : <<e[1], e[2]>> # Slot(rpc)}
          = {Of(doc, k) : k \in DOMAIN doc.operations \ {at}}
    <3>1. \A k \in DOMAIN doc.operations : <<Of(doc, k)[1], Of(doc, k)[2]>> # Slot(rpc) <=> k # at
      BY <1>7, <1>9
    <3>2. QED
      BY <1>8, <3>1
  <2>3. QED
    BY <2>1, <2>2
<1>11. \A k \in DOMAIN doc'.operations : k = <<k[1], k[2]>>
  BY <1>5
<1>12. QED
  BY <1>10, <1>11 DEF rpc

LEMMA ServiceDeterminedNext ==
  TypeInv /\ Mapped /\ ServiceDetermined /\ [Next]_vars => ServiceDetermined'
<1>1. SUFFICES ASSUME TypeInv, Mapped, ServiceDetermined, [Next]_vars,
                      outcome' = "running", step' = "operation"
               PROVE  ServiceDetermined'
  BY DEF ServiceDetermined
<1>2. CASE RenderService
  <2>1. /\ step = "service" /\ service \in DOMAIN Services
        /\ UNCHANGED <<program, file, service>>
        /\ method' = 1 /\ tracker' = {} /\ doc' = EmptyDoc
    BY <1>2 DEF RenderService, At
  <2>2. Methods' = Methods /\ Services' = Services /\ Methods \in Seq(RpcSet)
    BY <1>1, <2>1, HereTyped DEF Methods, Services, TypeInv
  <2>3. Rendering(Methods) = "running" /\ Services[service].valid
    <3>1. Rendering(Methods) = "running" \/ outcome' = Rendering(Methods)
      BY <1>2 DEF RenderService
    <3>2. Rendering(Methods) = "running"
      BY <1>1, <3>1
    <3>3. outcome' = IF Services[service].valid THEN "running" ELSE "failed"
      BY <1>2, <3>2 DEF RenderService
    <3>4. QED
      BY <1>1, <3>2, <3>3, Zenon
  <2>4. DOMAIN doc'.operations = {} /\ Entries(doc') = {}
    BY <2>1 DEF EmptyDoc, NoMap, Entries
  <2>5. \A i \in DOMAIN Methods : ~(i < 1)
    BY <2>2
  <2>6. QED
    BY <2>1, <2>2, <2>3, <2>4, <2>5, BeforeEnds DEF ServiceDetermined
<1>3. ASSUME SkipMethod \/ BuildOperation
      PROVE  /\ outcome = "running" /\ step = "operation" /\ method \in DOMAIN Methods
             /\ method' = method + 1
             /\ UNCHANGED <<service, Methods, Services>>
             /\ Methods \in Seq(RpcSet)
             /\ \A i \in DOMAIN Methods : i < method + 1 => i < method \/ i = method
  <2>1. /\ outcome = "running" /\ step = "operation" /\ method \in DOMAIN Methods
        /\ method' = method + 1 /\ UNCHANGED <<program, file, service>>
    BY <1>3 DEF SkipMethod, BuildOperation, At
  <2>2. Methods \in Seq(RpcSet)
    BY <1>1, <2>1, HereTyped DEF TypeInv, Placed
  <2>3. QED
    BY <2>1, <2>2 DEF Methods, Services
<1>4. CASE SkipMethod
  <2>1. Methods[method].operations = 0 /\ tracker' = tracker /\ doc' = doc
    BY <1>4 DEF SkipMethod, spec
  <2>2. ~Stops(Methods, method)
    BY <2>1 DEF Stops
  <2>3. /\ NotedBefore(Methods, method + 1) = NotedBefore(Methods, method)
        /\ EntriesBefore(Methods, method + 1) = EntriesBefore(Methods, method)
    BY <1>3, <1>4, <2>1, BeforeNext
  <2>4. QED
    BY <1>1, <1>3, <1>4, <2>1, <2>2, <2>3 DEF ServiceDetermined
<1>5. CASE BuildOperation
  <2> DEFINE rpc == Methods[method]
             names == CanonicalNames(ParseRoute(rpc.route))
  <2>1. rpc \in RpcSet /\ Built(rpc, ParseRoute(rpc.route), names)
    BY <1>1, <1>5, BuildOperationParts DEF TypeInv
  <2>2. /\ Known(rpc, names) = tracker \cup Noted(rpc)
        /\ Filter(rpc, names) = IF HasBody(rpc) THEN Bound(rpc) ELSE <<>>
    BY <2>1, BodyOfOperation
  <2> HIDE DEF names
  <2>3. tracker' = tracker \cup Noted(rpc) /\ rpc.operations # 0
    BY <1>1, <2>1, <2>2 DEF Built
  <2>4. rpc.valid /\ ~Clash(tracker, rpc.input, Filter(rpc, names))
    BY <1>1, <2>1 DEF Built
  <2>5. ~Stops(Methods, method)
    BY <1>1, <1>3, <1>5, <2>2, <2>4 DEF Stops, ServiceDetermined
  <2>6. /\ \A k \in DOMAIN doc'.operations : k = <<k[1], k[2]>>
        /\ Entries(doc') = {e \in Entries(doc) : <<e[1], e[2]>> # Slot(rpc)} \cup {Entry(rpc)}
    BY <1>1, <1>3, <1>5, EntriesByBuild DEF ServiceDetermined
  <2>7. /\ NotedBefore(Methods, method + 1) = NotedBefore(Methods, method) \cup Noted(rpc)
        /\ EntriesBefore(Methods, method + 1) =
             {e \in EntriesBefore(Methods, method) : <<e[1], e[2]>> # Slot(rpc)} \cup {Entry(rpc)}
    BY <1>3, <1>5, <2>3, BeforeNext
  <2>8. /\ Rendering(Methods) = "running" /\ Services[service].valid
        /\ \A i \in DOMAIN Methods : i < method => ~Stops(Methods, i)
        /\ tracker = NotedBefore(Methods, method)
        /\ Entries(doc) = EntriesBefore(Methods, method)
    BY <1>1, <1>3, <1>5 DEF ServiceDetermined
  <2> HIDE DEF rpc
  <2>9. /\ tracker' = NotedBefore(Methods, method + 1)
        /\ Entries(doc') = EntriesBefore(Methods, method + 1)
        /\ \A i \in DOMAIN Methods : i < method + 1 => ~Stops(Methods, i)
    BY <1>3, <1>5, <2>3, <2>5, <2>6, <2>7, <2>8
  <2>10. QED
    BY <1>3, <1>5, <2>6, <2>8, <2>9 DEF ServiceDetermined
<1>6. CASE UNCHANGED vars
  BY <1>1, <1>6 DEF ServiceDetermined, vars, place, spec, Methods, Services
<1>7. RenderService \/ SkipMethod \/ BuildOperation \/ UNCHANGED vars
  BY <1>1 DEF Next, PluginStep, Over, ProcessFile, AddDocument, RenderForcedMessages,
              AddGoFile, Return, Rerun
<1>8. QED
  BY <1>2, <1>4, <1>5, <1>6, <1>7

(* A service that fails stops the run, and no other does.                  *)
LEMMA OutcomeDeterminedNext ==
  TypeInv /\ Worked /\ ServiceDetermined /\ OutcomeDetermined /\ [Next]_vars
    => OutcomeDetermined'
<1>1. SUFFICES ASSUME TypeInv, Worked, ServiceDetermined, OutcomeDetermined, [Next]_vars
               PROVE  OutcomeDetermined'
  OBVIOUS
<1>2. program' = program /\ (Succeeds' <=> Succeeds)
  BY <1>1, ProgramStays
<1>3. step # "next" => file \in Files /\ Services \in Seq(ServiceSet)
  BY <1>1, HereTyped DEF TypeInv
<1>4. ASSUME NEW n \in DOMAIN Services, step # "next", Fails(Services[n]) PROVE ~Succeeds
  BY <1>3, <1>4 DEF Succeeds, Services
<1>5. ASSUME UNCHANGED <<todo, file, step, service>>, outcome' = outcome
      PROVE  OutcomeDetermined'
  BY <1>1, <1>2, <1>5 DEF OutcomeDetermined, Services
<1>6. ASSUME NEW f \in Files, ProcessFile(f) PROVE OutcomeDetermined'
  <2>1. /\ outcome = "running" /\ outcome' = "running" /\ file = NoFile
        /\ file' = f /\ todo' = todo \ {f} /\ service' = 1
    BY <1>1, <1>6 DEF ProcessFile, At, TypeInv, Placed
  <2>2. \A g \in Files \ todo' : g # f =>
          \A n \in DOMAIN program[g].services : ~Fails(program[g].services[n])
    BY <1>1, <2>1, GeneratorAssumption DEF OutcomeDetermined
  <2>3. \A n \in DOMAIN Services' : ~(n < 1)
    <3>1. program[f].services \in Seq(ServiceSet)
      BY <1>1 DEF TypeInv, TypeOK, ProgramSet
    <3>2. QED
      BY <1>2, <2>1, <3>1 DEF Services
  <2>4. QED
    BY <1>2, <2>1, <2>2, <2>3 DEF OutcomeDetermined
<1>7. CASE RenderService
  <2>1. /\ outcome = "running" /\ step = "service" /\ service \in DOMAIN Services
        /\ step' = "operation" /\ UNCHANGED <<todo, file, service>>
        /\ outcome' = IF Rendering(Methods) # "running" THEN Rendering(Methods)
                      ELSE IF Services[service].valid THEN "running" ELSE "failed"
    BY <1>7 DEF RenderService, At
  <2>2. CASE outcome' = "running"
    BY <1>1, <1>2, <2>1, <2>2 DEF OutcomeDetermined, Services
  <2>3. CASE outcome' # "running"
    <3>1. Fails(Services[service])
      <4>1. CASE Rendering(Methods) # "running"
        BY <4>1 DEF Fails, Methods
      <4>2. CASE Rendering(Methods) = "running"
        <5>1. ~Services[service].valid
          BY <2>1, <2>3, <4>2, Zenon
        <5>2. QED
          BY <5>1 DEF Fails
      <4>3. QED
        BY <4>1, <4>2
    <3>2. ~Succeeds
      BY <1>4, <2>1, <3>1
    <3>3. outcome' # "done"
      <4>1. Methods \in Seq(RpcSet)
        BY <1>1, <2>1, HereTyped DEF TypeInv
      <4>2. QED
        BY <2>1, <4>1, RenderingType
    <3>4. QED
      BY <1>2, <2>3, <3>2, <3>3 DEF OutcomeDetermined
  <2>4. QED
    BY <2>2, <2>3
<1>8. CASE SkipMethod
  BY <1>5, <1>8 DEF SkipMethod
<1>9. CASE BuildOperation
  <2> DEFINE rpc == Methods[method]
             names == CanonicalNames(ParseRoute(rpc.route))
  <2>1. /\ outcome = "running" /\ step = "operation" /\ method \in DOMAIN Methods
        /\ rpc \in RpcSet /\ Built(rpc, ParseRoute(rpc.route), names)
        /\ UNCHANGED <<todo, file, step, service>>
    BY <1>1, <1>9, BuildOperationParts DEF TypeInv
  <2> HIDE DEF names
  <2>2. CASE outcome' = "running"
    BY <1>5, <2>1, <2>2
  <2>3. CASE outcome' # "running"
    <3>1. ~rpc.valid \/ Clash(tracker, rpc.input, Filter(rpc, names))
      BY <2>1, <2>3 DEF Built
    <3>2. /\ tracker = NotedBefore(Methods, method)
          /\ Filter(rpc, names) = IF HasBody(rpc) THEN Bound(rpc) ELSE <<>>
          /\ rpc.operations # 0
      BY <1>1, <2>1, BodyOfOperation DEF ServiceDetermined, Built
    <3>3. Stops(Methods, method)
      BY <3>1, <3>2 DEF Stops
    <3>4. service \in DOMAIN Services
      BY <1>1, <2>1 DEF TypeInv, Placed
    <3>5. Fails(Services[service])
      BY <2>1, <3>3 DEF Fails, Methods
    <3>6. ~Succeeds
      BY <1>4, <2>1, <3>4, <3>5
    <3>7. outcome' \in {"failed", "panicked"}
      BY <2>1, <2>3 DEF Built
    <3>8. QED
      BY <1>2, <3>6, <3>7 DEF OutcomeDetermined
  <2>4. QED
    BY <2>2, <2>3
<1>10. CASE AddDocument
  <2>1. /\ outcome = "running" /\ outcome' = "running" /\ step = "operation"
        /\ method \notin DOMAIN Methods /\ service \in DOMAIN Services
        /\ service' = service + 1 /\ UNCHANGED <<todo, file>>
    BY <1>1, <1>10 DEF AddDocument, At, TypeInv, Placed
  <2>2. Methods \in Seq(RpcSet) /\ method \in Nat \ DOMAIN Methods /\ method > 0 /\ service \in Nat
    BY <1>1, <2>1, HereTyped DEF TypeInv, TypeOK, Placed
  <2>3. ~Fails(Services[service])
    <3>1. \A i \in DOMAIN Methods : ~Stops(Methods, i)
      BY <1>1, <2>1, <2>2, BeforeEnds DEF ServiceDetermined
    <3>2. Rendering(Methods) = "running" /\ Services[service].valid
      BY <1>1, <2>1 DEF ServiceDetermined
    <3>3. QED
      BY <3>1, <3>2 DEF Fails, Methods
  <2>4. \A n \in DOMAIN Services : n < service + 1 => n < service \/ n = service
    BY <1>3, <2>1, <2>2
  <2>5. QED
    BY <1>1, <1>2, <2>1, <2>3, <2>4 DEF OutcomeDetermined, Services
<1>11. CASE RenderForcedMessages
  BY <1>1, <1>2, <1>11 DEF RenderForcedMessages, At, OutcomeDetermined, Services
<1>12. CASE AddGoFile
  <2>1. /\ outcome = "running" /\ outcome' = "running" /\ step = "gofile"
        /\ todo' = todo /\ file' = NoFile /\ step' = "next"
    BY <1>12 DEF AddGoFile, At
  <2>2. \A n \in DOMAIN Services : n < service
    BY <1>1, <2>1 DEF Worked
  <2>3. \A n \in DOMAIN Services : ~Fails(Services[n])
    BY <1>1, <2>1, <2>2 DEF OutcomeDetermined
  <2>4. QED
    BY <1>1, <1>2, <2>1, <2>3 DEF OutcomeDetermined, Services
<1>13. CASE Return
  <2>1. /\ outcome = "running" /\ outcome' = "done" /\ step = "next"
        /\ UNCHANGED <<todo, file, step, service>>
    BY <1>13 DEF Return, At, place
  <2>2. QED
    BY <1>1, <1>2, <2>1 DEF OutcomeDetermined
<1>14. CASE Rerun
  BY <1>14 DEF Rerun, OutcomeDetermined
<1>15. CASE UNCHANGED vars
  BY <1>5, <1>15 DEF vars, place
<1>16. QED
  BY <1>1, <1>6, <1>7, <1>8, <1>9, <1>10, <1>11, <1>12, <1>13, <1>14, <1>15
     DEF Next, PluginStep, Over

LEMMA ErasedFields ==
  \A kind, n, d :
    ErasedArtifact(Artifact(kind, n, d)) =
      [kind |-> kind, file |-> file, service |-> n, schemas |-> d.schemas,
       operations |-> Entries(d)]
BY DEF ErasedArtifact, Artifact

(* What a run writes is among what the program determines.                 *)
LEMMA ArtifactsDeterminedNext ==
  TypeInv /\ Tracked /\ ServiceDetermined /\ ArtifactsDetermined /\ [Next]_vars
    => ArtifactsDetermined'
<1>1. SUFFICES ASSUME TypeInv, Tracked, ServiceDetermined, ArtifactsDetermined, [Next]_vars
               PROVE  ArtifactsDetermined'
  OBVIOUS
<1>2. Outputs' = Outputs
  BY <1>1, ProgramStays
<1>3. step # "next" => file \in Files
  BY <1>1, HereTyped DEF TypeInv
<1>4. Entries(EmptyDoc) = {} /\ EmptyDoc.schemas = {}
  BY DEF Entries, EmptyDoc, NoMap
<1>5. CASE artifacts' \subseteq artifacts
  BY <1>1, <1>2, <1>5 DEF ArtifactsDetermined
<1>6. CASE AddDocument
  <2>1. /\ outcome = "running" /\ step = "operation"
        /\ method \notin DOMAIN Methods /\ service \in DOMAIN Services
        /\ artifacts' = artifacts \cup {Artifact("service", service, doc)}
    BY <1>1, <1>6 DEF AddDocument, At, TypeInv, Placed
  <2>2. Methods \in Seq(RpcSet) /\ method \in Nat \ DOMAIN Methods /\ method > 0
    BY <1>1, <2>1, HereTyped DEF TypeInv, TypeOK, Placed
  <2>3. /\ doc.schemas = Rendered(NotedBefore(Methods, Len(Methods) + 1))
        /\ Entries(doc) = EntriesBefore(Methods, Len(Methods) + 1)
    BY <1>1, <2>1, <2>2, BeforeEnds DEF ServiceDetermined, Tracked
  <2>4. ErasedArtifact(Artifact("service", service, doc)) = ServiceOutput(file, service)
    BY <2>3, ErasedFields DEF ServiceOutput, Methods, Services
  <2>5. ServiceOutput(file, service) \in Outputs
    BY <1>3, <2>1 DEF Outputs, Services
  <2>6. QED
    BY <1>1, <1>2, <2>1, <2>4, <2>5 DEF ArtifactsDetermined
<1>7. CASE RenderForcedMessages
  <2> DEFINE forced == {<<m, <<>> >> : m \in program[file].forced}
             messages == [EmptyDoc EXCEPT !.schemas = Rendered(forced)]
  <2>1. /\ step = "service"
        /\ artifacts' = IF forced = {} THEN artifacts
                        ELSE artifacts \cup {Artifact("messages", 0, messages)}
    BY <1>7 DEF RenderForcedMessages, At
  <2>2. CASE forced = {}
    BY <1>5, <2>1, <2>2
  <2>3. CASE forced # {}
    <3>1. messages.schemas = Rendered(forced) /\ messages.operations = EmptyDoc.operations
      BY DEF EmptyDoc
    <3>2. Entries(messages) = {}
      BY <1>4, <3>1 DEF Entries
    <3>3. ErasedArtifact(Artifact("messages", 0, messages)) = MessagesOutput(file)
      BY <3>1, <3>2, ErasedFields DEF MessagesOutput
    <3>4. MessagesOutput(file) \in Outputs
      <4>1. file \in Files /\ program[file].forced # {}
        BY <1>3, <2>1, <2>3
      <4>2. QED
        BY <4>1 DEF Outputs
    <3> HIDE DEF messages
    <3>5. QED
      BY <1>1, <1>2, <2>1, <2>3, <3>3, <3>4 DEF ArtifactsDetermined
  <2>4. QED
    BY <2>2, <2>3
<1>8. CASE AddGoFile
  <2>1. /\ step = "gofile"
        /\ artifacts' = IF Services = <<>> THEN artifacts
                        ELSE artifacts \cup {Artifact("go", 0, EmptyDoc)}
    BY <1>8 DEF AddGoFile, At
  <2>2. CASE Services = <<>>
    BY <1>5, <2>1, <2>2
  <2>3. CASE Services # <<>>
    <3>1. ErasedArtifact(Artifact("go", 0, EmptyDoc)) = GoOutput(file)
      BY <1>4, ErasedFields DEF GoOutput
    <3>2. GoOutput(file) \in Outputs
      BY <1>3, <2>1, <2>3 DEF Outputs, Services
    <3>3. QED
      BY <1>1, <1>2, <2>1, <2>3, <3>1, <3>2 DEF ArtifactsDetermined
  <2>4. QED
    BY <2>2, <2>3
<1>9. artifacts' \subseteq artifacts \/ AddDocument \/ RenderForcedMessages \/ AddGoFile
  BY <1>1 DEF Next, PluginStep, Over, ProcessFile, RenderService, SkipMethod, BuildOperation,
              Return, Rerun, vars
<1>10. QED
  BY <1>5, <1>6, <1>7, <1>8, <1>9

(* And all of it, if the run ends well.                                    *)
LEMMA ResultDetermined ==
  ASSUME TypeInv, Worked, OutcomeDetermined, ArtifactsDetermined, outcome # "running"
  PROVE  CameTo(Result)
<1>1. outcome \in {"done", "failed", "panicked"}
  BY DEF TypeInv, TypeOK
<1>2. CASE outcome # "done"
  <2>1. ~Succeeds /\ Result.outcome # "done" /\ Result.artifacts = {}
    BY <1>1, <1>2 DEF OutcomeDetermined, Result
  <2>2. QED
    BY <2>1 DEF CameTo
<1>3. CASE outcome = "done"
  <2>1. \A f \in Files : f \in Files \ todo /\ f # file
    BY <1>3, GeneratorAssumption DEF TypeInv, Placed
  <2>2. Succeeds /\ \A f \in Files : FileDone(f)
    BY <1>3, <2>1 DEF OutcomeDetermined, Succeeds, Worked
  <2>3. Result.outcome = "done" /\ Result.artifacts = artifacts
    BY <1>3 DEF Result
  <2>4. ASSUME NEW a \in artifacts
        PROVE  /\ ErasedArtifact(a).kind = a.kind /\ ErasedArtifact(a).file = a.file
               /\ ErasedArtifact(a).service = a.service
               /\ \/ \E f \in Files : \E n \in DOMAIN program[f].services :
                       ErasedArtifact(a) = ServiceOutput(f, n)
                  \/ \E f \in Files : ErasedArtifact(a) = MessagesOutput(f)
                  \/ \E f \in Files : ErasedArtifact(a) = GoOutput(f)
    <3>1. ErasedArtifact(a) \in Outputs
      BY DEF ArtifactsDetermined
    <3>2. \/ \E f \in Files : \E n \in DOMAIN program[f].services :
               ErasedArtifact(a) = ServiceOutput(f, n)
          \/ \E f \in Files : ErasedArtifact(a) = MessagesOutput(f)
          \/ \E f \in Files : ErasedArtifact(a) = GoOutput(f)
      BY <3>1 DEF Outputs
    <3>3. QED
      BY <3>2 DEF ErasedArtifact
  <2>5. \A f, n : /\ ServiceOutput(f, n).kind = "service" /\ ServiceOutput(f, n).file = f
                  /\ ServiceOutput(f, n).service = n
                  /\ MessagesOutput(f).kind = "messages" /\ MessagesOutput(f).file = f
                  /\ GoOutput(f).kind = "go" /\ GoOutput(f).file = f
    BY DEF ServiceOutput, MessagesOutput, GoOutput
  <2>6. ASSUME NEW o \in Outputs PROVE \E a \in artifacts : ErasedArtifact(a) = o
    <3>1. ASSUME NEW f \in Files, NEW n \in DOMAIN program[f].services, o = ServiceOutput(f, n)
          PROVE  \E a \in artifacts : ErasedArtifact(a) = o
      <4>1. PICK a \in artifacts : a.kind = "service" /\ a.file = f /\ a.service = n
        BY <2>2 DEF FileDone, ServiceDone
      <4>2. ErasedArtifact(a) = ServiceOutput(f, n)
        BY <2>4, <2>5, <4>1
      <4>3. QED
        BY <3>1, <4>2
    <3>2. ASSUME NEW f \in Files, program[f].forced # {}, o = MessagesOutput(f)
          PROVE  \E a \in artifacts : ErasedArtifact(a) = o
      <4>1. PICK a \in artifacts : a.kind = "messages" /\ a.file = f
        BY <2>2, <3>2 DEF FileDone, ForcedDone
      <4>2. ErasedArtifact(a) = MessagesOutput(f)
        BY <2>4, <2>5, <4>1
      <4>3. QED
        BY <3>2, <4>2
    <3>3. ASSUME NEW f \in Files, program[f].services # <<>>, o = GoOutput(f)
          PROVE  \E a \in artifacts : ErasedArtifact(a) = o
      <4>1. PICK a \in artifacts : a.kind = "go" /\ a.file = f
        BY <2>2, <3>3 DEF FileDone
      <4>2. ErasedArtifact(a) = GoOutput(f)
        BY <2>4, <2>5, <4>1
      <4>3. QED
        BY <3>3, <4>2
    <3>4. QED
      BY <3>1, <3>2, <3>3 DEF Outputs
  <2>7. {ErasedArtifact(a) : a \in artifacts} = Outputs
    BY <2>6 DEF ArtifactsDetermined
  <2>8. QED
    BY <2>2, <2>3, <2>7 DEF CameTo
<1>4. QED
  BY <1>2, <1>3

LEMMA EarlierDeterminedNext ==
  TypeInv /\ Worked /\ OutcomeDetermined /\ ArtifactsDetermined /\ EarlierDetermined /\ [Next]_vars
    => EarlierDetermined'
<1>1. SUFFICES ASSUME TypeInv, Worked, OutcomeDetermined, ArtifactsDetermined,
                      EarlierDetermined, [Next]_vars
               PROVE  EarlierDetermined'
  OBVIOUS
<1>2. \A result : CameTo(result)' <=> CameTo(result)
  BY <1>1, ProgramStays DEF CameTo
<1>3. CASE earlier' = earlier
  BY <1>1, <1>2, <1>3 DEF EarlierDetermined
<1>4. CASE Rerun
  <2>1. outcome # "running" /\ earlier' = Append(earlier, Result)
    BY <1>4 DEF Rerun
  <2>2. CameTo(Result)
    BY <1>1, <2>1, ResultDetermined
  <2> DEFINE r == Result
             n == Len(earlier) + 1
  <2> HIDE DEF r
  <2>3. earlier \in Seq(Range(earlier)) /\ earlier' = Append(earlier, r)
    BY <1>1, <2>1 DEF EarlierDetermined, r
  <2>4. /\ DOMAIN earlier' = DOMAIN earlier \cup {n} /\ earlier'[n] = r
        /\ \A i \in DOMAIN earlier : earlier'[i] = earlier[i]
    BY <2>3
  <2>5. Range(earlier') = Range(earlier) \cup {r}
    BY <2>3, <2>4 DEF Range
  <2>6. earlier' \in Seq(Range(earlier'))
    <3> DEFINE S == Range(earlier) \cup {r}
    <3>1. earlier \in Seq(S) /\ r \in S
      <4>1. earlier \in Seq(Range(earlier)) /\ Range(earlier) \subseteq S
        BY <2>3
      <4> HIDE DEF S
      <4>2. earlier \in Seq(S)
        BY <4>1
      <4>3. QED
        BY <4>2 DEF S
    <3> HIDE DEF S
    <3>2. Append(earlier, r) \in Seq(S)
      BY <3>1
    <3>3. QED
      BY <2>3, <2>5, <3>2 DEF S
  <2>7. \A i \in DOMAIN earlier' : CameTo(earlier'[i])
    BY <1>1, <2>2, <2>4 DEF EarlierDetermined, r
  <2>8. QED
    BY <1>2, <2>6, <2>7 DEF EarlierDetermined
<1>5. earlier' = earlier \/ Rerun
  BY <1>1 DEF Next, PluginStep, Over, ProcessFile, RenderService, SkipMethod, BuildOperation,
              AddDocument, RenderForcedMessages, AddGoFile, Return, vars
<1>6. QED
  BY <1>3, <1>4, <1>5

(* Reproducible: whatever the order in which Go iterates over the targets, *)
(* a run on an input writes its files or none, as any other run on it, and *)
(* they are the same up to the names of path parameters: both come to what *)
(* the descriptors determine.                                              *)
THEOREM RunsAgree == Spec => []Reproducible
<1> DEFINE Inv == /\ TypeInv /\ Worked /\ Mapped /\ Tracked
                  /\ ServiceDetermined /\ OutcomeDetermined
                  /\ ArtifactsDetermined /\ EarlierDetermined
<1>1. Init => Inv
  <2> SUFFICES ASSUME Init PROVE Inv
    OBVIOUS
  <2>1. TypeInv /\ Worked /\ Mapped /\ Tracked
    BY TypeInit, WorkedInit, MappedInit, TrackedInit
  <2>2. ServiceDetermined /\ OutcomeDetermined /\ ArtifactsDetermined
    BY DEF Init, ServiceDetermined, OutcomeDetermined, ArtifactsDetermined
  <2>3. EarlierDetermined
    <3>1. earlier = <<>> /\ DOMAIN earlier = {}
      BY DEF Init
    <3>2. <<>> \in Seq(Range(earlier))
      OBVIOUS
    <3>3. QED
      BY <3>1, <3>2 DEF EarlierDetermined
  <2>4. QED
    BY <2>1, <2>2, <2>3
<1>2. Inv /\ [Next]_vars => Inv'
  BY TypeNext, WorkedNext, MappedNext, TrackedNext, ServiceDeterminedNext,
     OutcomeDeterminedNext, ArtifactsDeterminedNext, EarlierDeterminedNext
<1>3. Inv => Reproducible
  <2> SUFFICES ASSUME Inv, outcome # "running", NEW i \in DOMAIN earlier
               PROVE  /\ (earlier[i].outcome = "done") = (Result.outcome = "done")
                      /\ {ErasedArtifact(a) : a \in earlier[i].artifacts} =
                           {ErasedArtifact(a) : a \in Result.artifacts}
    BY DEF Reproducible
  <2>1. CameTo(Result) /\ CameTo(earlier[i])
    BY ResultDetermined DEF EarlierDetermined
  <2>2. QED
    BY <2>1 DEF CameTo
<1>4. QED
  BY <1>1, <1>2, <1>3, PTL DEF Spec
-----------------------------------------------------------------------------
(* That every run ends, but for the fairness: what is left of it, the      *)
(* first of the numbers that changes deciding.                             *)
ServicesLeft ==
  IF file # NoFile /\ service \in DOMAIN Services THEN Len(Services) + 1 - service ELSE 0

MethodsLeft ==
  IF file = NoFile \/ service \notin DOMAIN Services THEN 0
  ELSE IF step = "service" THEN Len(Methods) + 2
  ELSE IF method \in DOMAIN Methods THEN Len(Methods) + 1 - method ELSE 0

FileLeft == IF step = "next" THEN 0 ELSE IF step = "gofile" THEN 1 ELSE 2

RunLeft == IF outcome = "running" THEN 1 ELSE 0

Effort ==
  <<MaxRuns - Len(earlier), RunLeft, Cardinality(todo), FileLeft, ServicesLeft, MethodsLeft>>
LeavesLess == <<Effort', Effort>> \in Lower

EffortType ==
  /\ MaxRuns - Len(earlier) \in Nat /\ RunLeft \in Nat /\ Cardinality(todo) \in Nat
  /\ FileLeft \in Nat /\ ServicesLeft \in Nat /\ MethodsLeft \in Nat

RunsCounted == Len(earlier) \in Nat /\ Len(earlier) <= MaxRuns /\ earlier \in Seq(Range(earlier))

LEMMA RunsInit == Init => RunsCounted
<1> SUFFICES ASSUME Init PROVE RunsCounted
  OBVIOUS
<1>1. earlier = <<>> /\ MaxRuns \in Nat
  BY GeneratorAssumption DEF Init
<1>2. \A S : <<>> \in Seq(S)
  OBVIOUS
<1>3. QED
  BY <1>1, <1>2 DEF RunsCounted

LEMMA RunsNext == RunsCounted /\ [Next]_vars => RunsCounted'
<1> SUFFICES ASSUME RunsCounted, [Next]_vars PROVE RunsCounted'
  OBVIOUS
<1>1. CASE earlier' = earlier
  BY <1>1 DEF RunsCounted
<1>2. CASE Rerun
  <2>1. earlier' = Append(earlier, Result) /\ Len(earlier) + 1 < MaxRuns
    BY <1>2 DEF Rerun
  <2>2. \A S : \A s \in Seq(S) : \A e :
          /\ Len(Append(s, e)) = Len(s) + 1 /\ Append(s, e) \in Seq(S \cup {e})
    OBVIOUS
  <2>3. Len(earlier') = Len(earlier) + 1 /\ earlier' \in Seq(Range(earlier) \cup {Result})
    BY <2>1, <2>2 DEF RunsCounted
  <2>4. \A S : \A s \in Seq(S) : s \in Seq(Range(s))
    BY DEF Range
  <2>5. earlier' \in Seq(Range(earlier'))
    BY <2>3, <2>4
  <2>6. QED
    BY <2>1, <2>3, <2>5, GeneratorAssumption DEF RunsCounted
<1>3. QED
  BY <1>1, <1>2 DEF Next, PluginStep, ProcessFile, RenderService, SkipMethod, BuildOperation,
                    AddDocument, RenderForcedMessages, AddGoFile, Return, Over, vars

LEMMA EffortTyped ==
  ASSUME IsFiniteSet(Files), TypeInv, RunsCounted
  PROVE  EffortType
<1>1. MaxRuns - Len(earlier) \in Nat
  BY GeneratorAssumption DEF RunsCounted
<1>2. RunLeft \in Nat /\ FileLeft \in Nat
  BY DEF RunLeft, FileLeft
<1>3. Cardinality(todo) \in Nat
  BY FS_Subset, FS_CardinalityType DEF TypeInv, TypeOK
<1>4. ServicesLeft \in Nat
  <2>1. CASE file # NoFile /\ service \in DOMAIN Services
    <3>1. Services \in Seq(ServiceSet)
      BY <2>1, HereTyped DEF TypeInv, Placed
    <3>2. service \in 1..Len(Services) /\ Len(Services) \in Nat
      BY <2>1, <3>1
    <3>3. QED
      BY <2>1, <3>2 DEF ServicesLeft
  <2>2. QED
    BY <2>1 DEF ServicesLeft
<1>5. MethodsLeft \in Nat
  <2>1. CASE file # NoFile /\ service \in DOMAIN Services
    <3>1. Methods \in Seq(RpcSet)
      BY <2>1, HereTyped DEF TypeInv, Placed
    <3>2. Len(Methods) \in Nat /\ DOMAIN Methods = 1..Len(Methods)
      BY <3>1
    <3>3. QED
      BY <2>1, <3>2 DEF MethodsLeft
  <2>2. QED
    BY <2>1 DEF MethodsLeft
<1>6. QED
  BY <1>1, <1>2, <1>3, <1>4, <1>5 DEF EffortType

LEMMA EffortFalls ==
  ASSUME IsFiniteSet(Files), TypeInv, RunsCounted, EffortType, EffortType',
         PluginStep \/ Rerun
  PROVE  LeavesLess
<1> DEFINE a1 == MaxRuns - Len(earlier) a2 == MaxRuns - Len(earlier')
           b1 == RunLeft                b2 == RunLeft'
           c1 == Cardinality(todo)      c2 == Cardinality(todo')
           d1 == FileLeft               d2 == FileLeft'
           e1 == ServicesLeft           e2 == ServicesLeft'
           f1 == MethodsLeft            f2 == MethodsLeft'
<1>1. a1 \in Nat /\ b1 \in Nat /\ c1 \in Nat /\ d1 \in Nat /\ e1 \in Nat /\ f1 \in Nat
  BY DEF EffortType
<1>2. a2 \in Nat /\ b2 \in Nat /\ c2 \in Nat /\ d2 \in Nat /\ e2 \in Nat /\ f2 \in Nat
  BY GeneratorAssumption DEF EffortType
<1>3. ASSUME \/ a2 < a1
             \/ a2 = a1 /\ b2 < b1
             \/ a2 = a1 /\ b2 = b1 /\ c2 < c1
             \/ a2 = a1 /\ b2 = b1 /\ c2 = c1 /\ d2 < d1
             \/ a2 = a1 /\ b2 = b1 /\ c2 = c1 /\ d2 = d1 /\ e2 < e1
             \/ a2 = a1 /\ b2 = b1 /\ c2 = c1 /\ d2 = d1 /\ e2 = e1 /\ f2 < f1
      PROVE  LeavesLess
  <2> HIDE DEF a1, a2, b1, b2, c1, c2, d1, d2, e1, e2, f1, f2
  <2>1. << <<a2, b2, c2, d2, e2, f2>>, <<a1, b1, c1, d1, e1, f1>> >> \in Lower
    BY <1>1, <1>2, <1>3, SixLower
  <2>2. MaxRuns' = MaxRuns
    OBVIOUS
  <2>3. QED
    BY <2>1 DEF LeavesLess, Effort, a1, a2, b1, b2, c1, c2, d1, d2, e1, e2, f1, f2
<1>4. CASE Rerun
  <2>1. Len(earlier') = Len(earlier) + 1
    <3>1. earlier' = Append(earlier, Result) /\ earlier \in Seq(Range(earlier))
      BY <1>4 DEF Rerun, RunsCounted
    <3>2. \A S : \A s \in Seq(S) : \A e : Len(Append(s, e)) = Len(s) + 1
      OBVIOUS
    <3>3. QED
      BY <3>1, <3>2
  <2>2. a2 < a1
    BY <2>1, GeneratorAssumption DEF RunsCounted
  <2>3. QED
    BY <1>3, <2>2
<1>5. ASSUME earlier' = earlier, outcome = "running", outcome' # "running" PROVE LeavesLess
  <2>1. a2 = a1 /\ b2 < b1
    BY <1>5 DEF RunLeft
  <2>2. QED
    BY <1>3, <2>1
<1>6. ASSUME earlier' = earlier, outcome = "running", outcome' = "running",
             \/ c2 < c1
             \/ c2 = c1 /\ d2 < d1
             \/ c2 = c1 /\ d2 = d1 /\ e2 < e1
             \/ c2 = c1 /\ d2 = d1 /\ e2 = e1 /\ f2 < f1
      PROVE  LeavesLess
  <2>1. a2 = a1 /\ b2 = b1
    BY <1>6 DEF RunLeft
  <2> HIDE DEF a1, a2, b1, b2, c1, c2, d1, d2, e1, e2, f1, f2
  <2>2. QED
    BY <1>3, <1>6, <2>1
<1>7. ASSUME NEW f \in Files, ProcessFile(f) PROVE LeavesLess
  <2>1. /\ earlier' = earlier /\ outcome = "running" /\ outcome' = outcome
        /\ f \in todo /\ todo' = todo \ {f}
    BY <1>7 DEF ProcessFile, At
  <2>2. IsFiniteSet(todo)
    BY FS_Subset DEF TypeInv, TypeOK
  <2>3. c2 < c1
    <3>1. c2 = c1 - 1
      BY <2>1, <2>2, FS_RemoveElement
    <3>2. QED
      BY <1>1, <3>1
  <2>4. QED
    BY <1>6, <2>1, <2>3
<1>8. CASE RenderService
  <2>1. /\ earlier' = earlier /\ outcome = "running" /\ todo' = todo /\ file' = file
        /\ program' = program /\ service' = service /\ service \in DOMAIN Services
        /\ step = "service" /\ step' = "operation" /\ method' = 1
    BY <1>8 DEF RenderService, At
  <2>2. Services' = Services /\ Methods' = Methods
    BY <2>1 DEF Services, Methods
  <2>3. file # NoFile /\ Methods \in Seq(RpcSet)
    BY <2>1, HereTyped DEF TypeInv, Placed
  <2>4. Len(Methods) \in Nat
    BY <2>3
  <2>5. c2 = c1 /\ d2 = d1 /\ e2 = e1
    BY <2>1, <2>2 DEF FileLeft, ServicesLeft
  <2>6. f2 < f1
    <3>1. MethodsLeft = Len(Methods) + 2
      BY <2>1, <2>3 DEF MethodsLeft
    <3>2. MethodsLeft' = IF 1 \in DOMAIN Methods THEN Len(Methods) + 1 - 1 ELSE 0
      BY <2>1, <2>2, <2>3 DEF MethodsLeft
    <3>3. QED
      BY <2>4, <3>1, <3>2
  <2>7. QED
    BY <1>5, <1>6, <2>1, <2>5, <2>6
<1>9. CASE SkipMethod \/ BuildOperation
  <2>1. /\ earlier' = earlier /\ outcome = "running" /\ todo' = todo /\ file' = file
        /\ program' = program /\ service' = service
        /\ step = "operation" /\ step' = "operation" /\ method' = method + 1
        /\ method \in DOMAIN Methods
    BY <1>9 DEF SkipMethod, BuildOperation, At
  <2>2. Services' = Services /\ Methods' = Methods
    BY <2>1 DEF Services, Methods
  <2>3. file # NoFile /\ service \in DOMAIN Services /\ Methods \in Seq(RpcSet)
    BY <2>1, HereTyped DEF TypeInv, Placed
  <2>4. Len(Methods) \in Nat /\ method \in 1..Len(Methods)
    BY <2>1, <2>3
  <2>5. c2 = c1 /\ d2 = d1 /\ e2 = e1
    BY <2>1, <2>2 DEF FileLeft, ServicesLeft
  <2>6. f2 < f1
    <3>1. MethodsLeft = Len(Methods) + 1 - method
      BY <2>1, <2>3 DEF MethodsLeft
    <3>2. MethodsLeft' = IF method + 1 \in DOMAIN Methods THEN Len(Methods) + 1 - (method + 1)
                                                          ELSE 0
      BY <2>1, <2>2, <2>3 DEF MethodsLeft
    <3>3. QED
      BY <2>4, <3>1, <3>2
  <2>7. QED
    BY <1>5, <1>6, <2>1, <2>5, <2>6
<1>10. CASE AddDocument
  <2>1. /\ earlier' = earlier /\ outcome = "running" /\ outcome' = outcome /\ todo' = todo
        /\ file' = file /\ program' = program /\ service' = service + 1
        /\ step = "operation" /\ step' = "service"
    BY <1>10 DEF AddDocument, At
  <2>2. Services' = Services
    BY <2>1 DEF Services
  <2>3. file # NoFile /\ service \in DOMAIN Services /\ Services \in Seq(ServiceSet)
    BY <2>1, HereTyped DEF TypeInv, Placed
  <2>4. Len(Services) \in Nat /\ service \in 1..Len(Services)
    BY <2>3
  <2>5. c2 = c1 /\ d2 = d1
    BY <2>1 DEF FileLeft
  <2>6. e2 < e1
    <3>1. ServicesLeft = Len(Services) + 1 - service
      BY <2>3 DEF ServicesLeft
    <3>2. ServicesLeft' = IF service + 1 \in DOMAIN Services THEN Len(Services) + 1 - (service + 1)
                                                             ELSE 0
      BY <2>1, <2>2, <2>3 DEF ServicesLeft
    <3>3. QED
      BY <2>4, <3>1, <3>2
  <2>7. QED
    BY <1>6, <2>1, <2>5, <2>6
<1>11. CASE RenderForcedMessages \/ AddGoFile
  <2>1. /\ earlier' = earlier /\ outcome = "running" /\ outcome' = outcome /\ todo' = todo
        /\ \/ step = "service" /\ step' = "gofile"
           \/ step = "gofile" /\ step' = "next"
    BY <1>11 DEF RenderForcedMessages, AddGoFile, At, spec
  <2>2. c2 = c1 /\ d2 < d1
    BY <2>1 DEF FileLeft
  <2>3. QED
    BY <1>6, <2>1, <2>2
<1>12. CASE Return
  <2>1. earlier' = earlier /\ outcome = "running" /\ outcome' # "running"
    BY <1>12 DEF Return, At
  <2>2. QED
    BY <1>5, <2>1
<1>13. QED
  BY <1>4, <1>7, <1>8, <1>9, <1>10, <1>11, <1>12 DEF PluginStep

(* Each step of the plugin leaves less of its runs to do, whatever the     *)
(* descriptors are, and what is left cannot fall without end: in whatever  *)
(* order Go's maps hand out the files, no run goes on for ever.            *)
THEOREM RunsGoDown ==
  ASSUME IsFiniteSet(Files)
  PROVE  IsWellFoundedOn(Lower, Measures) /\ (Spec => [][LeavesLess]_vars)
<1>1. /\ TypeInv /\ RunsCounted /\ EffortType /\ EffortType' /\ [Next]_vars
      => [LeavesLess]_vars
  BY EffortFalls DEF Next, Over
<1>2. TypeInv /\ RunsCounted => EffortType
  BY EffortTyped
<1>3. Spec => []TypeInv
  BY TypeInit, TypeNext, PTL DEF Spec
<1>4. Spec => []RunsCounted
  BY RunsInit, RunsNext, PTL DEF Spec
<1>5. Spec => [][LeavesLess]_vars
  BY <1>1, <1>2, <1>3, <1>4, PTL DEF Spec
<1>6. QED
  BY <1>5, LowerEnds
=============================================================================
