----------------------------- MODULE Converters -----------------------------
(***************************************************************************)
(* methodContext (internal/apigw/apigw_method.go): from an operation's     *)
(* route and query to the steps of the decoder the templates render.  A    *)
(* step reads one parameter, converts its text and merges a message of     *)
(* field numbers, the edge of the path first, into the request.            *)
(***************************************************************************)
EXTENDS Routes, Messages

CONSTANTS Parts,        \* strings.Split(name, ".") of each ParamName
          ParamOrder    \* the names of query parameters, as sort.Slice orders them

ASSUME OrderAssumption ==
  /\ ParamOrder \in Seq(STRING)
  /\ \A name \in ParamNames : Parts[name] \in Seq(STRING) \ {<<>>}

IntKinds == {"int64", "sfixed64", "sint64", "int32", "sfixed32", "sint32", "enum"}
UintKinds == {"uint64", "fixed64", "uint32", "fixed32"}

(* path2fieldNumbers reverses what each level of its recursion returns; a  *)
(* path that leaves the messages, where it panics, has the number 0 in it. *)
Numbers[w \in NamePaths] ==
  LET f == FieldNamed(w[1], Head(w[2])) IN
  IF Len(w[2]) <= 1 THEN <<f.number>>
  ELSE IF IsEmbed(f) THEN Reverse(<<f.number>> \o Numbers[<<f.type, Tail(w[2])>>])
  ELSE <<NoField.number>>

(* generateFieldConverter: the template, "none" for an error.              *)
Converter(f) ==
  IF f.label # "one" THEN "none"
  ELSE IF f.kind \in IntKinds THEN "int"
  ELSE IF f.kind \in UintKinds THEN "uint"
  ELSE IF f.kind \in {"string", "bool"} THEN f.kind
  ELSE "none"

(* generateNestedFieldConverter asks the edge for nothing: every nested    *)
(* parameter is packed as a string.                                        *)
Step(source, key, index, m, path) ==
  LET nums == Numbers[<<m, path>>] IN
  [source |-> source, key |-> key, index |-> index, nums |-> nums,
   conv |-> IF Len(nums) = 1 THEN Converter(FieldOf[<<m, path>>]) ELSE "string"]

(* The query parameters of a method, in their order.                       *)
QueryNames(rpc) ==
  Selected(ParamOrder, {i \in DOMAIN ParamOrder : ParamOrder[i] \in DOMAIN rpc.query})

QuerySteps(rpc) ==
  LET names == QueryNames(rpc)
  IN [i \in DOMAIN names |->
        Step("query", names[i], 0, rpc.in, <<rpc.query[names[i]]>>)]

PathSteps(rpc) ==
  LET ps == Params(ParseRoute(rpc.route))
  IN [i \in DOMAIN ps |-> Step("path", "", ps[i].ParamIndex, rpc.in, Parts[ps[i].Name])]

(* The steps of the decoder service.tmpl renders, in their order.          *)
Steps(rpc) == QuerySteps(rpc) \o PathSteps(rpc)

(* Mutant: a DELETE has no body.                                           *)
HasBody_Delete(rpc) == rpc.verb \notin {"GET", "DELETE"}

HasBody(rpc) == rpc.verb # "GET"
=============================================================================
