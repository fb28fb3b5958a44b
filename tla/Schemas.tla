------------------------------- MODULE Schemas -------------------------------
(***************************************************************************)
(* The OpenAPI schemas of messages and fields (apigw_openapi_schema.go,    *)
(* _scalar.go, _wkt.go), and what protojson makes of the same fields: the  *)
(* handler marshals with EmitUnpopulated, and the document has to admit    *)
(* what it sends.  A schema is reduced to what may contradict a value or   *)
(* lose an option; descriptions and titles are left out.                   *)
(***************************************************************************)
EXTENDS Messages, Selections

CONSTANTS ShortName,    \* the last part of each message's name
          WellKnown     \* the messages of google.protobuf that have a JSON form of their own

WellKnownNames ==
  {"Any", "Struct", "Duration", "Timestamp", "Empty", "Value", "ListValue", "DoubleValue",
   "FloatValue", "Int64Value", "UInt64Value", "Int32Value", "UInt32Value", "BoolValue",
   "StringValue", "BytesValue", "FieldMask"}

ASSUME NamesAssumption ==
  /\ "" \notin Messages
  /\ \A m \in WellKnown : ShortName[m] \in WellKnownNames

Schema(types) ==
  [types |-> types, format |-> "", enum |-> FALSE, ref |-> "", items |-> <<>>,
   readOnly |-> FALSE, deprecated |-> FALSE, stability |-> "", sunset |-> "",
   bag |-> FALSE]

Formatted(types, format) == [Schema(types) EXCEPT !.format = format]

IsWellKnown(m) == m \in WellKnown \/ ShortName[m] = "FieldMask"

schemaForScalar(kind) ==
  CASE kind \in {"double", "float"} -> Schema({"number"})
    [] kind \in {"int64", "sfixed64", "sint64"} -> Formatted({"string"}, "int64")
    [] kind \in {"int32", "sfixed32", "sint32"} -> Formatted({"integer"}, "int32")
    [] kind \in {"uint64", "fixed64"} -> Formatted({"string"}, "uint64")
    [] kind \in {"uint32", "fixed32"} -> Formatted({"integer"}, "uint32")
    [] kind = "string" -> Schema({"string"})
    [] kind = "bytes" -> Formatted({"string"}, "base64")
    [] kind = "bool" -> Schema({"boolean"})

schemaForWKT(wkt) ==
  CASE wkt \in {"Any", "Struct"} -> Schema({"object"})
    [] wkt = "Duration" -> Formatted({"string"}, "duration")
    [] wkt = "Timestamp" -> Formatted({"string"}, "date-time")
    [] wkt = "Empty" -> Schema({"object", "null"})
    [] wkt = "Value" -> Schema({"string", "number", "object", "array", "boolean", "null"})
    [] wkt = "ListValue" -> Schema({"array", "null"})
    [] wkt = "DoubleValue" -> Formatted({"number", "null"}, "double")
    [] wkt = "FloatValue" -> Formatted({"number", "null"}, "float")
    [] wkt = "Int64Value" -> Formatted({"string", "null"}, "int64")
    [] wkt = "UInt64Value" -> Formatted({"string", "null"}, "uint64")
    [] wkt = "Int32Value" -> Formatted({"integer", "null"}, "int32")
    [] wkt = "UInt32Value" -> Formatted({"integer", "null"}, "int64")
    [] wkt = "BoolValue" -> Schema({"boolean", "null"})
    [] wkt = "StringValue" -> Schema({"string", "null"})
    [] wkt = "BytesValue" -> Formatted({"string", "null"}, "bytes")
    [] wkt = "FieldMask" -> Schema({"string", "null"})

Enum == [Schema({"string"}) EXCEPT !.enum = TRUE]

(* sc.Message as a field uses it: well-known types inline, others by $ref. *)
MessageRef(m, readOnly) ==
  IF IsWellKnown(m) THEN [schemaForWKT(ShortName[m]) EXCEPT !.readOnly = readOnly]
  ELSE [Schema({}) EXCEPT !.ref = m]

FieldTypeElem(f, readOnly) ==
  CASE f.kind = "message" -> MessageRef(f.type, readOnly)
    [] f.kind = "enum" -> Enum
    [] OTHER -> schemaForScalar(f.kind)

(* The options of a field: any FieldOption may set a flag, the first that  *)
(* has a stability or a deprecation gives it.                              *)
Options(f) == {f.options[i] : i \in DOMAIN f.options}

getRequiredSpec(f) == \E o \in Options(f) : o.required

getReadOnlySpec(f) == \E o \in Options(f) : o.readOnly

FirstOption(f, Test(_), default) ==
  LET i == SelectInSeq(f.options, Test) IN IF i = 0 THEN default ELSE f.options[i]

getFieldStability(f) ==
  LET Has(o) == o.stability # "" IN FirstOption(f, Has, FieldOption).stability

(* "none" without a Deprecation, else its sunset date, which may be "".    *)
getFieldDeprecation(f) ==
  LET Has(o) == o.sunset # "none" IN FirstOption(f, Has, FieldOption).sunset

(* addAnnotationBagExtension: only for map<string, string>.                *)
annotationBag(f) ==
  /\ \E o \in Options(f) : o.bag
  /\ f.label = "map" /\ f.key = "string" /\ f.kind = "string"

Sunset(deprecation) == IF deprecation = "none" THEN "" ELSE deprecation

(* What Field writes on the schemas of scalars, enums, lists and maps.     *)
Annotated(f, s) ==
  [s EXCEPT !.readOnly = getReadOnlySpec(f),
            !.deprecated = f.deprecated \/ getFieldDeprecation(f) # "none",
            !.stability = getFieldStability(f),
            !.sunset = Sunset(getFieldDeprecation(f)),
            !.bag = annotationBag(f)]

(* Mutant: a $ref carries no null.                                         *)
Null_Inline(s) == IF s.ref = "" THEN [s EXCEPT !.types = @ \cup {"null"}] ELSE s

Null(s) == [s EXCEPT !.types = @ \cup {"null"}]

applyNullable(f, s) == IF f.oneof # "" THEN Null(s) ELSE s

SchemaOfField(f) ==
  CASE f.label = "repeated" ->
         Annotated(f, [Schema({"array", "null"}) EXCEPT
                         !.items = <<FieldTypeElem(f, getReadOnlySpec(f))>>])
    [] f.label = "map" ->
         Annotated(f, applyNullable(f, [Schema({"object"}) EXCEPT
                         !.items = <<FieldTypeElem(f, getReadOnlySpec(f))>>]))
    [] f.label = "one" /\ f.kind = "enum" -> Annotated(f, applyNullable(f, Enum))
    [] f.label = "one" /\ f.kind = "message" -> Null(MessageRef(f.type, getReadOnlySpec(f)))
    [] OTHER -> Annotated(f, applyNullable(f, schemaForScalar(f.kind)))

(* The fields of a message as sc.Message goes through them: those of no    *)
(* oneof, the proto3 optional ones, and, unfiltered, those of the oneofs.  *)
InRealOneOf(f) == f.oneof # "" /\ ~f.synthetic

(* Mutant: the filter knows fields by their proto names.                   *)
Filtered_Proto(f, filter) == f.name \in filter

Filtered(f, filter) == f.name \in filter \/ f.json \in filter

FieldsOf(m, filter) ==
  LET fs == MessageFields[m]
      unfiltered == {i \in DOMAIN fs : ~Filtered(fs[i], filter)}
  IN Selected(fs, {i \in unfiltered : fs[i].oneof = ""})
       \o Selected(fs, {i \in unfiltered : fs[i].synthetic})
       \o Selected(fs, {i \in DOMAIN fs : InRealOneOf(fs[i])})

-----------------------------------------------------------------------------
(***************************************************************************)
(* protojson (external), as jsonMarshaler has it: the JSON types of a      *)
(* populated field, and of an unpopulated one.  The infinities and NaN are *)
(* strings, a number of an enum that has no name is an integer, and the    *)
(* one value of NullValue is null.  An unpopulated field is not emitted if *)
(* it is in a oneof, real or synthetic, and null if it is a message or a   *)
(* scalar of proto2.                                                       *)
(***************************************************************************)
ScalarJSON(kind) ==
  CASE kind \in {"int64", "sfixed64", "sint64", "uint64", "fixed64", "string", "bytes"}
         -> {"string"}
    [] kind \in {"int32", "sfixed32", "sint32", "uint32", "fixed32"} -> {"integer"}
    [] kind \in {"double", "float"} -> {"number", "string"}
    [] kind = "bool" -> {"boolean"}

EnumJSON(enum) == IF enum = NullEnum THEN {"null"} ELSE {"string", "integer"}

MessageJSON(m) ==
  IF m \notin WellKnown THEN {"object"}
  ELSE
  CASE ShortName[m] = "Value" -> {"string", "number", "object", "array", "boolean", "null"}
    [] ShortName[m] \in {"Any", "Struct", "Empty"} -> {"object"}
    [] ShortName[m] = "ListValue" -> {"array"}
    [] ShortName[m] \in {"DoubleValue", "FloatValue"} -> {"number", "string"}
    [] ShortName[m] \in {"Int32Value", "UInt32Value"} -> {"integer"}
    [] ShortName[m] = "BoolValue" -> {"boolean"}
    [] OTHER -> {"string"}

ElementJSON(f) ==
  CASE f.kind = "message" -> MessageJSON(f.type)
    [] f.kind = "enum" -> EnumJSON(f.type)
    [] OTHER -> ScalarJSON(f.kind)

Populated(f) ==
  CASE f.label = "repeated" -> {"array"}
    [] f.label = "map" -> {"object"}
    [] OTHER -> ElementJSON(f)

Unpopulated(f) ==
  IF f.oneof # "" THEN {}
  ELSE IF f.label = "one" /\ (f.kind = "message" \/ f.proto2) THEN {"null"}
  ELSE Populated(f)

(* A schema admits a value of a JSON type; an object under a $ref is one   *)
(* of the message's own schema.                                            *)
Admits(s, type) ==
  \/ type \in s.types
  \/ type = "integer" /\ "number" \in s.types
  \/ type = "object" /\ s.ref # ""
=============================================================================
