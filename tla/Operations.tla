----------------------------- MODULE Operations -----------------------------
(***************************************************************************)
(* buildOperation (internal/apigw/apigw_openapi.go): the extensions, the   *)
(* parameters and the request body of one operation, and the schemas of    *)
(* the messages it names, which sc.Message renders depth first.  The       *)
(* tracker holds this operation's messages alone; how the operations of a  *)
(* service share it is in Generator.                                       *)
(***************************************************************************)
EXTENDS Schemas, Converters

CONSTANT OperationSet     \* the operations a run looks at

EntityType ==
  [type : {"unspecified", "create", "read", "update", "delete"}, name : STRING,
   exclusion : {"none", "data_source_only", "resource_only"}, number : Nat]

PaginationType ==
  [type : STRING, inputs : Seq([in : STRING, type : STRING]), outputs : BOOLEAN]

(* path2fieldNumbers panics on a parameter that leads to no field.         *)
Leads(m, path) == FieldOf[<<m, path>>] \in FieldType

ASSUME OperationsAssumption ==
  \A o \in OperationSet :
    /\ o.rpc.in \in Messages /\ o.rpc.out \in Messages
    /\ o.rpc.route \in RouteSet
    /\ \A name \in Range(ParamsOf(ParseRoute(o.rpc.route))) : Leads(o.rpc.in, Parts[name])
    /\ \A key \in Range(QueryNames(o.rpc)) : Leads(o.rpc.in, <<o.rpc.query[key]>>)
    /\ o.entities \in Seq(EntityType)
    /\ o.pagination \in Seq(PaginationType)
    /\ o.deprecated \in BOOLEAN

VARIABLES op,             \* the operation: its rpc, options and extensions
          phase,          \* how far buildOperation is
          at,             \* the terraform entity it is at
          datasource,     \* datasourceValues
          resource,       \* resourceValues
          extensions,     \* what it has set on the operation
          parameters,     \* op.Parameters
          todo,           \* the keys of the tracker still to be rendered
          schemas,        \* sc.schemas
          stack           \* the messages sc.Message is in the middle of

vars == <<op, phase, at, datasource, resource, extensions, parameters, todo,
          schemas, stack>>

-----------------------------------------------------------------------------
(* One value of an x-speakeasy-entity-operation list: Name#verb#number.    *)
NullValue == [name |-> "", verb |-> "null", number |-> 0]
EntityValue(te) == [name |-> te.name, verb |-> te.type, number |-> te.number]

(* Mutant: every null is kept.                                             *)
Appended_Nulls(values, v) == Append(values, v)

(* Null values are added only once.                                        *)
Appended(values, v) ==
  IF v = NullValue /\ v \in Range(values) THEN values ELSE Append(values, v)

(* The entity in the list of data sources, and in the list of resources.   *)
Datasource(te) ==
  IF te.exclusion = "resource_only" THEN NullValue ELSE EntityValue(te)

Resource(te) ==
  IF te.exclusion = "data_source_only" THEN NullValue ELSE EntityValue(te)

(* No node, a scalar or a sequence.                                        *)
Node(values) ==
  [kind |-> CASE Len(values) = 0 -> "none" [] Len(values) = 1 -> "scalar"
              [] OTHER -> "sequence",
   values |-> values]

(* Mutant: an input without a type is skipped as one without a location.   *)
Pagination_Skips(p) ==
  LET Complete(i) == i.in # "unspecified" /\ i.type # "unspecified"
      inputs == Selected(p.inputs, {i \in DOMAIN p.inputs : Complete(p.inputs[i])})
  IN IF p.type = "unspecified" \/ inputs = <<>> THEN <<>>
     ELSE <<[type |-> p.type, inputs |-> inputs, outputs |-> p.outputs]>>

(* getTerraformEntityOperationPagination: <<>> for nil.  An input without  *)
(* a location is skipped, one without a type takes the whole node away.    *)
Pagination(p) ==
  LET inputs == Selected(p.inputs, {i \in DOMAIN p.inputs : p.inputs[i].in # "unspecified"})
  IN IF \/ p.type = "unspecified"
        \/ \E i \in DOMAIN inputs : inputs[i].type = "unspecified"
        \/ inputs = <<>>
       THEN <<>>
       ELSE <<[type |-> p.type, inputs |-> inputs, outputs |-> p.outputs]>>

NoExtensions ==
  [entity |-> <<Node(<<>>), Node(<<>>)>>, pagination |-> <<>>, stability |-> "",
   sunset |-> "", deprecated |-> FALSE]

(* The parameters in the order of the document, each with the path of      *)
(* names it fills; inputFilter keeps only paths of one name apart.         *)
Parameter(in, path) ==
  [in |-> in, path |-> path, schema |-> SchemaOfField(FieldOf[<<op.rpc.in, path>>])]

PathParameters ==
  LET names == ParamsOf(ParseRoute(op.rpc.route)) IN
  [i \in DOMAIN names |-> Parameter("path", Parts[names[i]])]

QueryParameters ==
  LET names == QueryNames(op.rpc) IN
  [i \in DOMAIN names |-> Parameter("query", <<op.rpc.query[names[i]]>>)]

InputFilter ==
  {parameters[i].path[1] : i \in {j \in DOMAIN parameters : Len(parameters[j].path) = 1}}

HasRequestBody(rpc) == rpc.verb \notin {"GET", "HEAD"}

(* A key of the schemas: the name of a message, "Input" after it if it is  *)
(* rendered with a filter.                                                 *)
Key(m, filtered) == [message |-> m, input |-> filtered]

FilterOf(key) == IF key.input THEN InputFilter ELSE {}

-----------------------------------------------------------------------------
(* An object schema, and the placeholder that stands for it meanwhile.     *)
Placeholder == [open |-> TRUE, properties |-> <<>>, required |-> {}]

Object(key) ==
  LET fs == Range(FieldsOf(key.message, FilterOf(key)))
      Called(jn) == CHOOSE f \in Range(MessageFields[key.message]) : f.json = jn
  IN
  [open |-> FALSE,
   properties |-> [jn \in {f.json : f \in fs} |-> SchemaOfField(Called(jn))],
   required |-> {f.json : f \in {g \in fs : getRequiredSpec(g) /\ ~InRealOneOf(g)}}]

Frame(key) == [key |-> key, left |-> FieldsOf(key.message, FilterOf(key))]

Top == stack[Len(stack)]
Rest == SubSeq(stack, 1, Len(stack) - 1)

Init ==
  /\ op \in OperationSet
  /\ phase = "entities"
  /\ at = 1
  /\ datasource = <<>> /\ resource = <<>>
  /\ extensions = NoExtensions
  /\ parameters = <<>>
  /\ todo = {}
  /\ schemas = <<>>
  /\ stack = <<>>

(* Mutant: an entity without a method takes the next one with it.          *)
TerraformEntity_Two ==
  /\ phase = "entities" /\ at <= Len(op.entities)
  /\ at' = IF op.entities[at].type = "unspecified" THEN at + 2 ELSE at + 1
  /\ UNCHANGED <<op, phase, datasource, resource, extensions, parameters, todo, schemas, stack>>

(* One turn of the loop of getTerraformEntityOperationExtension.           *)
TerraformEntity ==
  /\ phase = "entities" /\ at <= Len(op.entities)
  /\ at' = at + 1
  /\ LET te == op.entities[at] IN
     /\ resource' = IF te.type = "unspecified" THEN resource
                    ELSE Appended(resource, Resource(te))
     /\ datasource' = IF te.type = "read" THEN Appended(datasource, Datasource(te))
                      ELSE datasource
  /\ UNCHANGED <<op, phase, extensions, parameters, todo, schemas, stack>>

(* The rest of the extensions: an operation's deprecation is validated,    *)
(* and pagination without outputs is a nil dereference.  An operation is   *)
(* deprecated by its deprecation as by the option of its method.           *)
Extensions ==
  /\ phase = "entities" /\ at > Len(op.entities)
  /\ LET pagination == IF op.pagination = <<>> THEN <<>> ELSE Pagination(op.pagination[1]) IN
     IF pagination # <<>> /\ ~pagination[1].outputs
       THEN phase' = "panic" /\ UNCHANGED extensions
       ELSE IF op.deprecation \in {"", "invalid"}
              THEN phase' = "failed" /\ UNCHANGED extensions
              ELSE /\ phase' = "parameters"
                   /\ extensions' = [entity |-> <<Node(datasource), Node(resource)>>,
                                     pagination |-> pagination,
                                     stability |-> op.stability,
                                     sunset |-> Sunset(op.deprecation),
                                     deprecated |-> op.deprecated \/ op.deprecation # "none"]
  /\ UNCHANGED <<op, at, datasource, resource, parameters, todo, schemas, stack>>

(* The parameters, and the tracker with the response and request messages. *)
Parameters ==
  /\ phase = "parameters"
  /\ phase' = "schemas"
  /\ parameters' = PathParameters \o QueryParameters
  /\ todo' = {Key(op.rpc.out, FALSE)} \cup
             (IF HasRequestBody(op.rpc) THEN {Key(op.rpc.in, parameters' # <<>>)} ELSE {})
  /\ UNCHANGED <<op, at, datasource, resource, extensions, schemas, stack>>

Placed(key) ==
  [k \in DOMAIN schemas \cup {key} |-> IF k = key THEN Placeholder ELSE schemas[k]]

(* Mutant: no placeholder is set.                                          *)
Message_NoPlaceholder(key, s) ==
  IF IsWellKnown(key.message) \/ key \in DOMAIN schemas
    THEN stack' = s /\ UNCHANGED schemas
    ELSE stack' = Append(s, Frame(key)) /\ UNCHANGED schemas

(* Mutant: a message is rendered wherever it is met.                       *)
Message_Again(key, s) ==
  IF IsWellKnown(key.message)
    THEN stack' = s /\ UNCHANGED schemas
    ELSE stack' = Append(s, Frame(key)) /\ schemas' = Placed(key)

(* sc.Message on the stack s: inline, there already, or opened.            *)
Message(key, s) ==
  IF IsWellKnown(key.message) \/ key \in DOMAIN schemas
    THEN stack' = s /\ UNCHANGED schemas
    ELSE stack' = Append(s, Frame(key)) /\ schemas' = Placed(key)

(* The messages of the tracker, whatever the order of their names.         *)
Track(key) ==
  /\ phase = "schemas" /\ stack = <<>>
  /\ key \in todo
  /\ todo' = todo \ {key}
  /\ Message(key, stack)
  /\ UNCHANGED <<op, phase, at, datasource, resource, extensions, parameters>>

(* The next field of the innermost message: its own message is rendered    *)
(* first, without a filter.                                                *)
RenderField ==
  /\ stack # <<>> /\ Top.left # <<>>
  /\ LET f == Head(Top.left)
         s == Append(Rest, [Top EXCEPT !.left = Tail(@)])
     IN IF f.kind = "message" THEN Message(Key(f.type, FALSE), s)
                              ELSE stack' = s /\ UNCHANGED schemas
  /\ UNCHANGED <<op, phase, at, datasource, resource, extensions, parameters, todo>>

(* The object takes the place of the placeholder.                          *)
Close ==
  /\ stack # <<>> /\ Top.left = <<>>
  /\ schemas' = [schemas EXCEPT ![Top.key] = Object(Top.key)]
  /\ stack' = Rest
  /\ UNCHANGED <<op, phase, at, datasource, resource, extensions, parameters, todo>>

Finish ==
  /\ phase = "schemas" /\ stack = <<>> /\ todo = {}
  /\ phase' = "done"
  /\ UNCHANGED <<op, at, datasource, resource, extensions, parameters, todo, schemas, stack>>

Next ==
  \/ TerraformEntity
  \/ Extensions
  \/ Parameters
  \/ \E key \in todo : Track(key)
  \/ RenderField
  \/ Close
  \/ Finish

Spec == Init /\ [][Next]_vars

-----------------------------------------------------------------------------
Phases == {"entities", "parameters", "schemas", "done", "failed", "panic"}

(* The variables stay in their types.                                      *)
TypeOK ==
  /\ op \in OperationSet
  /\ phase \in Phases
  /\ at \in 1..(Len(op.entities) + 1)
  /\ \A values \in {datasource, resource} :
       Range(values) \subseteq {NullValue} \cup {EntityValue(te) : te \in Range(op.entities)}
  /\ DOMAIN extensions = DOMAIN NoExtensions
  /\ \A p \in Range(parameters) : DOMAIN p.schema = DOMAIN Schema({})
  /\ \A key \in todo \cup DOMAIN schemas : key.message \in Messages /\ key.input \in BOOLEAN
  /\ \A k \in DOMAIN schemas : DOMAIN schemas[k] = DOMAIN Placeholder

(* The placeholder keeps a message that contains itself from being         *)
(* rendered without end: sc.Message is never in the middle of a message    *)
(* twice, and the messages it is in are the ones that have a placeholder.  *)
OpenOnce ==
  /\ \A i, j \in DOMAIN stack : stack[i].key = stack[j].key => i = j
  /\ {k \in DOMAIN schemas : schemas[k].open} = {stack[i].key : i \in DOMAIN stack}

(* Whatever came first, a schema that is complete is never rendered anew:  *)
(* the request's filter reaches no schema a response shares.               *)
SchemasSettle ==
  [][\A k \in DOMAIN schemas :
       ~schemas[k].open => k \in DOMAIN schemas' /\ schemas'[k] = schemas[k]]_vars

(* What EmitUnpopulated sends is what the document says, but for a list of *)
(* exceptions: each field is a property, each message below has its        *)
(* schema, and the JSON types protojson may write that a property does not *)
(* admit are exactly these.  A double or a float is a string when it is    *)
(* infinite or no number, an enum an integer when its number has no name,  *)
(* google.protobuf.NullValue is null outside a oneof, and so is an unset   *)
(* scalar of proto2.  A message of the user's that is called FieldMask,    *)
(* which the generator takes for google.protobuf's, is left out.           *)
TakenForFieldMask(m) == m \notin WellKnown /\ ShortName[m] = "FieldMask"

(* Of a value that is a list's, a map's or the field's own, by its type.   *)
Undocumented(f) ==
  CASE f.kind = "enum" -> IF f.type = NullEnum THEN {"null"} ELSE {"integer"}
    [] f.kind \in {"double", "float"} -> {"string"}
    [] f.kind = "message" ->
         IF f.type \in WellKnown /\ ShortName[f.type] \in {"DoubleValue", "FloatValue"}
           THEN {"string"} ELSE {}
    [] OTHER -> {}

UndocumentedField(f) ==
  IF f.label # "one" THEN {}
  ELSE IF f.oneof # "" THEN Undocumented(f) \ {"null"}
  ELSE IF f.proto2 /\ f.kind # "message" THEN Undocumented(f) \cup {"null"}
  ELSE Undocumented(f)

Unadmitted(s, types) == {type \in types : ~Admits(s, type)}

FieldAdmitted(s, f) ==
  /\ Unadmitted(s, Populated(f) \cup Unpopulated(f)) = UndocumentedField(f)
  /\ f.label # "one" => Unadmitted(s.items[1], ElementJSON(f)) = Undocumented(f)
  /\ f.kind = "message" /\ f.type \notin WellKnown => Key(f.type, FALSE) \in DOMAIN schemas

ResponsesAdmitted ==
  phase = "done" =>
    \A k \in DOMAIN schemas : ~k.input =>
      \A f \in Range(MessageFields[k.message]) :
        ~(f.kind = "message" /\ TakenForFieldMask(f.type)) =>
          /\ f.json \in DOMAIN schemas[k].properties
          /\ FieldAdmitted(schemas[k].properties[f.json], f)

(* No field is called in JSON what another is called in the proto file.    *)
(* protoc lets a json_name do that, and then the two names a parameter may *)
(* use no longer say which field it is.                                    *)
NamesApart ==
  \A m \in Messages : \A f, g \in Range(MessageFields[m]) : f.json = g.name => f = g

(* The request body is the input without the fields the route and the      *)
(* query fill, whichever of its two names they use; members of oneofs, and *)
(* what a nested parameter fills, are documented twice, and a well-known   *)
(* input has no schema of its own.                                         *)
ByParameter(f) ==
  \E p \in Range(parameters) :
    Len(p.path) = 1 /\ FieldNamed(op.rpc.in, p.path[1]) = f

InputOmitsParameters ==
  phase = "done" /\ HasRequestBody(op.rpc) /\ ~IsWellKnown(op.rpc.in) =>
    DOMAIN schemas[Key(op.rpc.in, parameters # <<>>)].properties =
      {f.json : f \in {g \in Range(MessageFields[op.rpc.in]) : ~ByParameter(g) \/ InRealOneOf(g)}}

(* x-speakeasy-entity-operation, whatever else the operation declares: in  *)
(* each list the entities that were not excluded from it, in their order,  *)
(* and a null once if any was.  Which exclusion takes an entity out of     *)
(* which list is the code's reading, by the names of the values; their     *)
(* comments in apigw.proto say the reverse, see ExclusionAsDocumented.     *)
Listed(entities, exclusion, types) ==
  LET Belongs(te) == te.type \in types /\ te.exclusion # exclusion
      kept == Selected(entities, {i \in DOMAIN entities : Belongs(entities[i])})
  IN [i \in DOMAIN kept |-> EntityValue(kept[i])]

NodeAsDeclared(node, exclusion, types) ==
  LET nulls == {i \in DOMAIN node.values : node.values[i] = NullValue}
      out == {te \in Range(op.entities) : te.type \in types /\ te.exclusion = exclusion}
  IN /\ Selected(node.values, DOMAIN node.values \ nulls)
          = Listed(op.entities, exclusion, types)
     /\ Cardinality(nulls) = (IF out = {} THEN 0 ELSE 1)
     /\ node.kind = "sequence" <=> Len(node.values) > 1

ExtensionAsDeclared ==
  phase = "done" =>
    /\ NodeAsDeclared(extensions.entity[1], "resource_only", {"read"})
    /\ NodeAsDeclared(extensions.entity[2], "data_source_only",
                      {"create", "read", "update", "delete"})

(* Pagination is there in full or not at all: a type, the inputs that say  *)
(* where they are, each with its type, and the cursor of the outputs.      *)
PaginationComplete ==
  phase = "done" /\ extensions.pagination # <<>> =>
    LET p == extensions.pagination[1] IN
    /\ p.type # "unspecified" /\ p.outputs
    /\ p.inputs # <<>>
    /\ \A i \in Range(p.inputs) : i.in # "unspecified" /\ i.type # "unspecified"
    /\ {i \in Range(op.pagination[1].inputs) : i.in # "unspecified"} = Range(p.inputs)

(* apigw.proto of FieldOption: "Sets the field as read only in the         *)
(* generated openAPI spec", "Sets the stability level for this field" and  *)
(* "Sets deprecation information for this field".                          *)
FieldOptionsReachSchema ==
  \A k \in DOMAIN schemas :
    \A f \in Range(FieldsOf(k.message, FilterOf(k))) :
      LET s == schemas[k].properties[f.json] IN
      /\ getReadOnlySpec(f) => s.readOnly
      /\ getFieldStability(f) # "" => s.stability = getFieldStability(f)
      /\ getFieldDeprecation(f) # "none" => s.deprecated

(* apigw.proto of OptionalExclusion: RESOURCE_ONLY is to "Exclude the      *)
(* field from the terraform resource", DATA_SOURCE_ONLY to "Exclude the    *)
(* field from the terraform data source".                                  *)
KeptOut(exclusion, node) ==
  \A te \in Range(op.entities) :
    te.type # "unspecified" /\ te.exclusion = exclusion
      => EntityValue(te) \notin Range(node.values)

ExclusionAsDocumented ==
  /\ KeptOut("data_source_only", extensions.entity[1])
  /\ KeptOut("resource_only", extensions.entity[2])

(* The options of apigw.proto do what their comments say.                  *)
OptionsAsDocumented ==
  phase = "done" => FieldOptionsReachSchema /\ ExclusionAsDocumented
=============================================================================
