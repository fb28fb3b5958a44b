------------------------------- MODULE Decoder -------------------------------
(***************************************************************************)
(* A generated decoder (templates/service.tmpl and the field_*.tmpl and    *)
(* protopack_*.tmpl it is put together from) at work on one request: the   *)
(* body is unmarshalled, then each query parameter and each path parameter *)
(* is read, converted and merged into the message as a few bytes of wire   *)
(* format.  A message is the function from the paths of field numbers it   *)
(* has populated to their values.                                          *)
(***************************************************************************)
EXTENDS Converters, Schemas, Integers

CONSTANTS Rpcs,       \* the methods, by name
          Calls,      \* the requests a run looks at
          Wide,       \* bits of strconv's integers and of 64-bit fields
          Narrow      \* bits of 32-bit fields

ASSUME WidthsAssumption ==
  /\ Narrow \in Nat \ {0} /\ Wide \in Nat
  /\ Narrow < Wide

Power(bits) == 2 ^ bits

(* What the proofs use of powers, of which the provers know nothing.       *)
ASSUME PowersAssumption ==
  /\ \A bits \in {Narrow, Wide} :
       Power(bits - 1) \in Nat \ {0} /\ Power(bits) = 2 * Power(bits - 1)
  /\ Power(Narrow) <= Power(Wide - 1)

(* methodContext panics for a parameter that is no field of the input, and *)
(* fails for one that has no template.                                     *)
StepType ==
  [source : {"path", "query"}, key : STRING, index : Nat, nums : Seq(Nat \ {0}),
   conv : {"string", "int", "uint", "bool"}]

ASSUME RpcsAssumption ==
  \A name \in DOMAIN Rpcs :
    /\ Rpcs[name].route \in RouteSet /\ Rpcs[name].in \in Messages
    /\ \A key \in DOMAIN Rpcs[name].query : Rpcs[name].query[key] \in STRING
    /\ Steps(Rpcs[name]) \in Seq(StepType)

(* A field of proto2 keeps a zero that is merged into it, and an enum of   *)
(* proto2 refuses numbers it does not know: requests are of proto3.        *)
ASSUME Proto3Assumption ==
  \A m \in Messages : \A f \in Range(MessageFields[m]) : ~f.proto2

VARIABLES call,       \* the request: rpc, body, path and query texts
          msg,        \* the message that is decoded into
          at,         \* the step the decoder is at, 0 for the body
          outcome     \* what it returned, "decoding" before that

vars == <<call, msg, at, outcome>>

-----------------------------------------------------------------------------
(* The text of a parameter, and the value of a field: a word, a number, a  *)
(* text that is not UTF-8; "absent" is a query parameter that is not there,*)
(* "message" the value of a message or list field, "packed" the bytes of a *)
(* nested message where a field takes them for its value, and "opaque" a   *)
(* message or list that something was read into that is not looked at.     *)
Text(sort, word, num) == [sort |-> sort, word |-> word, num |-> num]
Word(w) == Text("word", w, 0)
Num(n) == Text("num", "", n)
Absent == Text("absent", "", 0)
Garbled == Text("garbled", "", 0)
Present == Text("message", "", 0)
Packed == Text("packed", "", 0)
Opaque == Text("opaque", "", 0)
Empty == Word("")

IsText(t) ==
  DOMAIN t = DOMAIN Present /\ t.num \in Int /\ (t.sort = "num" => t = Num(t.num))

(* The decoders as they were generated, and the patterns their methods are *)
(* registered under.                                                       *)
Generated == [name \in DOMAIN Rpcs |-> Steps(Rpcs[name])]
Registered == [name \in DOMAIN Rpcs |-> ConvertRoute(Rpcs[name].route)]

rpc == Rpcs[call.rpc]
steps == Generated[call.rpc]

(* Mutant: the index counts segments.                                      *)
TextOf_Segment(step) ==
  IF step.source = "path" THEN call.path[step.index + 1]
  ELSE IF step.key \in DOMAIN call.query THEN call.query[step.key] ELSE Absent

(* input.PathParam and input.Query().Get.                                  *)
TextOf(step) ==
  IF step.source = "path" THEN call.path[BoundPosition(Registered[call.rpc], step.index)]
  ELSE IF step.key \in DOMAIN call.query THEN call.query[step.key] ELSE Absent

Blank(t) == t \in {Absent, Empty}

SignedRange(bits) == -Power(bits - 1)..(Power(bits - 1) - 1)

(* strconv.ParseBool of the text in lower case.                            *)
ParseBool(t) ==
  CASE t \in {Word("true"), Num(1)} -> <<Num(1)>>
    [] t \in {Word("false"), Num(0)} -> <<Num(0)>>
    [] OTHER -> <<>>

(* Mutant: field_int.tmpl parses an empty text, too.                       *)
Convert_Blank(conv, t) ==
  CASE conv = "string" -> <<IF t = Absent THEN Empty ELSE t>>
    [] conv = "int" -> IF t.sort = "num" /\ t.num \in SignedRange(Wide) THEN <<t>> ELSE <<>>
    [] conv = "uint" -> IF t.sort = "num" /\ t.num \in 0..(Power(Wide) - 1) THEN <<t>> ELSE <<>>
    [] conv = "bool" -> ParseBool(t)

(* What a template makes of a text: a value, or nothing it accepts.        *)
Convert(conv, t) ==
  CASE conv = "string" -> <<IF t = Absent THEN Empty ELSE t>>
    [] conv = "int" -> IF Blank(t) THEN <<Num(0)>>
                       ELSE IF t.sort = "num" /\ t.num \in SignedRange(Wide) THEN <<t>> ELSE <<>>
    [] conv = "uint" -> IF t.sort = "num" /\ t.num \in 0..(Power(Wide) - 1) THEN <<t>> ELSE <<>>
    [] conv = "bool" -> ParseBool(t)

(* A bool that is not there, or an empty one in the path, writes nothing.  *)
Skipped(step) ==
  /\ step.conv = "bool"
  /\ TextOf(step) = IF step.source = "query" THEN Absent ELSE Empty

-----------------------------------------------------------------------------
(* proto.Unmarshal with Merge (external): a varint is cut to the width of  *)
(* its field and read in the field's encoding; bytes are the value of a    *)
(* string or bytes field, a message that is read into a message field, an  *)
(* element of a list or an entry of a map; what has another wire type than *)
(* its field, or no field, is kept as unknown.                             *)
AsSigned(u, bits) == IF u >= Power(bits - 1) THEN u - Power(bits) ELSE u
ZigZag(u) == IF u % 2 = 0 THEN u \div 2 ELSE -((u + 1) \div 2)

Stored(f, v) ==
  LET wide == v.num % Power(Wide)
      narrow == v.num % Power(Narrow)
  IN IF f.label # "one" \/ f.kind = "message" THEN Opaque
     ELSE
     CASE f.kind \in {"string", "bytes"} -> v
       [] f.kind = "int64" -> Num(AsSigned(wide, Wide))
       [] f.kind \in {"int32", "enum"} -> Num(AsSigned(narrow, Narrow))
       [] f.kind = "uint32" -> Num(narrow)
       [] f.kind = "sint64" -> Num(ZigZag(wide))
       [] f.kind = "sint32" -> Num(ZigZag(narrow))
       [] OTHER -> Num(wide)

WireOf(conv) == IF conv = "string" THEN "bytes" ELSE "varint"

Accepts(f, wire) ==
  IF wire = "varint"
    THEN f.kind \in {"int64", "int32", "enum", "uint64", "uint32", "sint64", "sint32", "bool"}
    ELSE f.kind \in {"string", "bytes", "message"} \/ f.label # "one"

(* A string has to be UTF-8, which the tags and lengths of a message may   *)
(* be or not; a message, an entry or packed numbers have to be well formed.*)
MustRefuse(f, v) == f.kind = "string" /\ f.label # "map" /\ v = Garbled

MayRefuse(f, v) ==
  IF f.kind = "string" /\ f.label # "map" THEN v \in {Garbled, Packed}
  ELSE /\ f.kind = "message" \/ f.label = "map" \/ (f.label = "repeated" /\ f.kind # "bytes")
       /\ v # Empty

(* The path a step's protopack messages describe, as much of it as the     *)
(* request's descriptor follows, and where the bytes end: in the field at  *)
(* the end of the path, or, before it, in one that is no message.          *)
PathOf(step) == Reverse(step.nums)
Field(p) == FieldAt[<<rpc.in, p>>]
Leaf(step) == Field(PathOf(step))

Along(step) ==
  LET path == PathOf(step)
      Prefix(n) == SubSeq(path, 1, n)
      Wire(n) == IF n = Len(path) THEN WireOf(step.conv) ELSE "bytes"
      Taken(n) == /\ Accepts(Field(Prefix(n)), Wire(n))
                  /\ \A j \in 1..(n - 1) : IsEmbed(Field(Prefix(j)))
  IN {Prefix(n) : n \in {k \in DOMAIN path : Taken(k)}}

Ends(step) == {p \in Along(step) : p = PathOf(step) \/ ~IsEmbed(Field(p))}

Bytes(step, p, value) == IF p = PathOf(step) THEN value ELSE Packed

(* q is, or is below, another member of the oneof p is in.                 *)
Rival(in, p, q) ==
  LET n == Len(p) IN
  /\ n <= Len(q)
  /\ SubSeq(q, 1, n - 1) = SubSeq(p, 1, n - 1) /\ q[n] # p[n]
  /\ FieldAt[<<in, p>>].oneof # ""
  /\ FieldAt[<<in, SubSeq(q, 1, n)>>].oneof = FieldAt[<<in, p>>].oneof

(* What a message can hold: fields it has, a field below a message only    *)
(* with the message, one member of a oneof at a time.                      *)
Holdable(in, fields) ==
  \A p \in DOMAIN fields :
    /\ p \in Seq(Nat) \ {<<>>}
    /\ FieldAt[<<in, p>>] # NoField
    /\ IsText(fields[p])
    /\ \A n \in 1..(Len(p) - 1) :
         SubSeq(p, 1, n) \in DOMAIN fields /\ IsEmbed(FieldAt[<<in, SubSeq(p, 1, n)>>])
    /\ \A q \in DOMAIN fields : ~Rival(in, p, q)

(* The requests: for methods that are there, with a text for each segment  *)
(* of the pattern gin has matched and for each query parameter there is,   *)
(* and a body protojson can make a message of.                             *)
ASSUME CallsAssumption ==
  \A c \in Calls :
    /\ c.rpc \in DOMAIN Rpcs
    /\ DOMAIN c.path = DOMAIN Registered[c.rpc]
    /\ \A i \in DOMAIN c.path : IsText(c.path[i]) /\ c.path[i] # Absent
    /\ \A key \in DOMAIN c.query : IsText(c.query[key]) /\ c.query[key] # Absent
    /\ Holdable(Rpcs[c.rpc].in, c.body.fields)

(* A field of no oneof has no presence: with its zero value it is unset.   *)
Unset(f, v) == f.oneof = "" /\ v \in {Empty, Num(0)}

(* Mutant: the message is unmarshalled without Merge.                      *)
Merge_Resets(step, value) ==
  LET along == Along(step)
      ends == Ends(step)
      New(p) == Stored(Field(p), Bytes(step, p, value))
      set == {p \in along : p \in ends => ~Unset(Field(p), New(p))}
  IN [p \in set |-> IF p \in ends THEN New(p) ELSE Present]

(* Mutant: setting a member of a oneof leaves the others.                  *)
Merge_Rivals(step, value) ==
  LET along == Along(step)
      ends == Ends(step)
      New(p) == Stored(Field(p), Bytes(step, p, value))
      kept == {q \in DOMAIN msg \ along : \A p \in ends : ~IsPrefix(p, q)}
      set == {p \in along : p \in ends => ~Unset(Field(p), New(p))}
  IN [p \in kept \cup set |->
        IF p \in ends THEN New(p) ELSE IF p \in DOMAIN msg THEN msg[p] ELSE Present]

(* What was below the end of the step is part of the value there.          *)
Merge(step, value) ==
  LET along == Along(step)
      ends == Ends(step)
      New(p) == Stored(Field(p), Bytes(step, p, value))
      kept == {q \in DOMAIN msg \ along : /\ \A p \in ends : ~IsPrefix(p, q)
                                         /\ \A p \in along : ~Rival(rpc.in, p, q)}
      set == {p \in along : p \in ends => ~Unset(Field(p), New(p))}
  IN [p \in kept \cup set |->
        IF p \in ends THEN New(p) ELSE IF p \in DOMAIN msg THEN msg[p] ELSE Present]

CanRefuse(step, value) ==
  \E p \in Ends(step) : MayRefuse(Field(p), Bytes(step, p, value))

CanTake(step, value) ==
  \A p \in Ends(step) : ~MustRefuse(Field(p), Bytes(step, p, value))

-----------------------------------------------------------------------------
Init ==
  /\ call \in Calls
  /\ msg = <<>>
  /\ at = 0
  /\ outcome = "decoding"

(* Mutant: what Unmarshal made of a malformed body is taken.               *)
ReadBody_Malformed ==
  /\ outcome = "decoding" /\ at = 0
  /\ at' = 1
  /\ UNCHANGED <<call, msg, outcome>>

(* A body is read whatever the verb but GET, and may be empty; protojson   *)
(* fills the message anew.                                                 *)
ReadBody ==
  /\ outcome = "decoding" /\ at = 0
  /\ HasBody(rpc) => call.body.kind \in {"empty", "message"}
  /\ at' = 1
  /\ msg' = IF HasBody(rpc) /\ call.body.kind = "message" THEN call.body.fields ELSE msg
  /\ UNCHANGED <<call, outcome>>

RefuseBody ==
  /\ outcome = "decoding" /\ at = 0
  /\ HasBody(rpc) /\ call.body.kind \in {"unreadable", "malformed"}
  /\ outcome' = IF call.body.kind = "malformed" THEN "InvalidArgument" ELSE "error"
  /\ UNCHANGED <<call, msg, at>>

(* The parameter the decoder is at is converted and merged.                *)
MergeParam ==
  /\ outcome = "decoding" /\ at \in DOMAIN steps
  /\ LET step == steps[at]
         value == Convert(step.conv, TextOf(step))
     IN IF Skipped(step) THEN at' = at + 1 /\ UNCHANGED <<msg, outcome>>
        ELSE IF value = <<>> THEN outcome' = "InvalidArgument" /\ UNCHANGED <<msg, at>>
        ELSE \/ /\ CanRefuse(step, value[1])
                /\ outcome' = "error"
                /\ UNCHANGED <<msg, at>>
             \/ /\ CanTake(step, value[1])
                /\ msg' = Merge(step, value[1])
                /\ at' = at + 1
                /\ UNCHANGED outcome
  /\ UNCHANGED call

Return ==
  /\ outcome = "decoding" /\ at > Len(steps)
  /\ outcome' = "ok"
  /\ UNCHANGED <<call, msg, at>>

Next == ReadBody \/ RefuseBody \/ MergeParam \/ Return

Spec == Init /\ [][Next]_vars

-----------------------------------------------------------------------------
(* The variables stay in their types, and the message stays one that proto *)
(* could hold: a field below a message that is there, one member of a      *)
(* oneof at a time, however body, query and path are merged.               *)
TypeOK ==
  /\ call.rpc \in DOMAIN Rpcs
  /\ at \in 0..(Len(steps) + 1)
  /\ outcome \in {"decoding", "ok", "InvalidArgument", "error"}
  /\ Holdable(rpc.in, msg)

(* A parameter arrives: when the service is called, the field that the     *)
(* route or the query names has the value of the text the URL has in its   *)
(* place, zero for a query parameter that is not there, whatever the body  *)
(* has for it, unless a later parameter writes the same field or its       *)
(* oneof.  This is about values the field can hold, about fields whose     *)
(* template writes their encoding, which those of sint and fixed fields do *)
(* not, nor any of a nested field that is no string, and about paths of    *)
(* two names at most; an absent bool is left to the body.                  *)
Given ==
  LET tkn == ParseRoute(rpc.route)
      Got(key) == IF key \in DOMAIN call.query THEN call.query[key] ELSE Absent
  IN
  {[path |-> PathNumbers[<<rpc.in, Parts[tkn[i].Name]>>], text |-> call.path[i],
    at |-> Len(QuerySteps(rpc)) + tkn[i].ParamIndex + 1] :
     i \in {j \in DOMAIN tkn : tkn[j].IsParam}}
  \cup
  {[path |-> PathNumbers[<<rpc.in, <<rpc.query[steps[i].key]>> >>],
    text |-> Got(steps[i].key), at |-> i] : i \in DOMAIN QuerySteps(rpc)}

Means(f, t) ==
  IF f.kind = "bool" THEN IF t \in {Word("true"), Num(1)} THEN Num(1) ELSE Num(0)
  ELSE IF Blank(t) THEN IF f.kind = "string" THEN Empty ELSE Num(0)
  ELSE t

Holds(f, v) ==
  CASE f.kind \in {"string", "bool"} -> TRUE
    [] f.kind = "int64" -> v.num \in SignedRange(Wide)
    [] f.kind \in {"int32", "enum"} -> v.num \in SignedRange(Narrow)
    [] f.kind = "uint64" -> v.num \in 0..(Power(Wide) - 1)
    [] f.kind = "uint32" -> v.num \in 0..(Power(Narrow) - 1)
    [] OTHER -> FALSE

(* A step writes what its bytes end in, with all below it, and unsets the  *)
(* rivals of the messages on its way.                                      *)
Contends(step, path) ==
  /\ ~Skipped(step)
  /\ \/ \E p \in Ends(step) : IsPrefix(p, path)
     \/ \E p \in Along(step) : Rival(rpc.in, p, path)

Delivered(g) ==
  LET f == FieldAt[<<rpc.in, g.path>>]
      v == Means(f, g.text)
  IN IF g.path \in DOMAIN msg THEN msg[g.path] = v ELSE Unset(f, v)

ParametersDelivered ==
  outcome = "ok" =>
    \A g \in Given :
      LET f == FieldAt[<<rpc.in, g.path>>] IN
      \/ Delivered(g)
      \/ ~Holds(f, Means(f, g.text))
      \/ Len(g.path) > 1 /\ (f.kind # "string" \/ f.label # "one")
      \/ Len(g.path) > 2
      \/ f.kind = "bool" /\ Blank(g.text)
      \/ \E j \in DOMAIN steps : j > g.at /\ Contends(steps[j], g.path)

(* The rest of the body is the service's as the client sent it: merging a  *)
(* parameter leaves every field it does not name alone, an absent bool     *)
(* leaves no trace, and nothing is there that neither body nor parameters  *)
(* put there.                                                              *)
Body == IF HasBody(rpc) /\ call.body.kind = "message" THEN call.body.fields ELSE <<>>

BodyKept ==
  outcome = "ok" =>
    /\ \A p \in DOMAIN Body :
         (\A i \in DOMAIN steps : ~Contends(steps[i], p)) => p \in DOMAIN msg /\ msg[p] = Body[p]
    /\ \A p \in DOMAIN msg \ DOMAIN Body :
         \E i \in DOMAIN steps : ~Skipped(steps[i]) /\ IsPrefix(p, PathOf(steps[i]))

(* A request is decoded or refused, never half taken: the service is       *)
(* called only if every part of the request could be read, and otherwise   *)
(* the first fault answers, the body before the query and the query before *)
(* the path.                                                               *)
BodyFault ==
  IF ~HasBody(rpc) THEN "no"
  ELSE IF call.body.kind = "malformed" THEN "InvalidArgument"
  ELSE IF call.body.kind = "unreadable" THEN "error" ELSE "no"

FaultsOf(step) ==
  LET value == Convert(step.conv, TextOf(step)) IN
  IF Skipped(step) THEN {"no"}
  ELSE IF value = <<>> THEN {"InvalidArgument"}
  ELSE {fault \in {"no", "error"} :
          IF fault = "no" THEN CanTake(step, value[1]) ELSE CanRefuse(step, value[1])}

FaultsAt(i) == IF i = 0 THEN {BodyFault} ELSE FaultsOf(steps[i])

FirstFaultAnswers ==
  \/ outcome = "decoding"
  \/ outcome = "ok" /\ \A i \in 0..Len(steps) : "no" \in FaultsAt(i)
  \/ \E i \in 0..Len(steps) :
       /\ outcome \in FaultsAt(i) \ {"no"}
       /\ \A j \in 0..(i - 1) : "no" \in FaultsAt(j)

(* A request the document allows is decoded: a body that is JSON of the    *)
(* message, and texts that the schemas of their parameters admit, those of *)
(* the query being optional.  The decoder refuses two kinds of them, and   *)
(* no others: an enum by the name of a value, the way it is documented,    *)
(* which is parsed as a number, and an unsigned integer the query does     *)
(* without.  Parameters that are messages or lists and those of more than  *)
(* two names, which end in other fields, are left out.                     *)
AdmittedText(s, t) ==
  IF s.enum THEN t.sort = "word" /\ t # Empty
  ELSE
  CASE s.format = "int64" -> t.sort = "num" /\ t.num \in SignedRange(Wide)
    [] s.format = "uint64" -> t.sort = "num" /\ t.num \in 0..(Power(Wide) - 1)
    [] s.format = "int32" -> t.sort = "num" /\ t.num \in SignedRange(Narrow)
    [] s.format = "uint32" -> t.sort = "num" /\ t.num \in 0..(Power(Narrow) - 1)
    [] "boolean" \in s.types -> t \in {Word("true"), Word("false")}
    [] OTHER -> t.sort \in {"word", "num"}

Documented(step) ==
  LET f == Leaf(step)
      t == TextOf(step)
  IN /\ Len(step.nums) <= 2 /\ f.label = "one" /\ f.kind # "message"
     /\ t = Absent \/ AdmittedText(SchemaOfField(f), t)

RefusedThough(step) ==
  \/ step.conv = "int" /\ Leaf(step).kind = "enum" /\ TextOf(step) # Absent
  \/ step.conv = "uint" /\ TextOf(step) = Absent

DocumentedRequestsDecode ==
  (/\ outcome # "decoding" /\ BodyFault = "no"
   /\ \A i \in DOMAIN steps : Documented(steps[i]))
  => (outcome = "ok" <=> \A i \in DOMAIN steps : ~RefusedThough(steps[i]))

(* apigw_method.go on the path of a nested parameter: "The first edge      *)
(* number is the last step".                                               *)
FirstEdgeIsLastStep ==
  outcome = "ok" =>
    LET names == ParamsOf(ParseRoute(rpc.route)) IN
    \A n \in DOMAIN names :
      Head(PathSteps(rpc)[n].nums) = FieldOf[<<rpc.in, Parts[names[n]]>>].number
=============================================================================
