------------------------------- MODULE Routes -------------------------------
(***************************************************************************)
(* The three readings of the route of an operation: ParseRoute's tokens    *)
(* (apigw/v1/http_bridge.go), the gin pattern ConvertRoute registers       *)
(* (routers/ginapi) and the canonical route the generator keeps OpenAPI    *)
(* paths under (internal/apigw).  A route is given by what strings.Split   *)
(* makes of it: whether it starts with "/", and its tokens, some empty.    *)
(* Segments are names; "." and ".." segments, which path.Join would clean, *)
(* are not among them.                                                     *)
(***************************************************************************)
EXTENDS Selections

CONSTANTS Literals,     \* static path segments
          ParamNames    \* names between braces

Static(name) == [kind |-> "static", name |-> name]
Param(name) == [kind |-> "param", name |-> name]
EmptyToken == [kind |-> "empty", name |-> ""]
Tokens == {Static(l) : l \in Literals} \cup {Param(p) : p \in ParamNames}

(* A route as strings.Split leaves it; rooted: it starts with "/".         *)
RouteSet == [rooted : BOOLEAN, tokens : Seq(Tokens \cup {EmptyToken})]

(* The counter of ParseRoute and of ConvertRoute when they reach token i:  *)
(* the number of parameters before it.                                     *)
ParamsBefore(ts, i) == Cardinality({j \in DOMAIN ts : j < i /\ ts[j].kind = "param"})

Valid(route) == route.rooted

(* The tokens ParseRoute returns for a route without empty ones.           *)
Numbered(ts) ==
  [i \in DOMAIN ts |->
     [IsParam |-> ts[i].kind = "param",
      Name |-> ts[i].name,
      ParamIndex |-> IF ts[i].kind = "param" THEN ParamsBefore(ts, i) ELSE 0]]

ParseRoute(route) ==
  LET ts == route.tokens IN
  Numbered(Selected(ts, {i \in DOMAIN ts : ts[i] # EmptyToken}))

(* Mutant: the counter is the position in the path.                        *)
ParamNum_Position(tkn, i) == i - 1

(* ConvertRoute counts the parameters again, over the parsed tokens.       *)
ParamNum(tkn, i) == Cardinality({j \in DOMAIN tkn : j < i /\ tkn[j].IsParam})

Wild(n) == <<":", n>>
Segment(name) == <<"", name>>

(* Mutant: the parameter's name is the name of the wildcard.               *)
Pattern_ByName(tkn) ==
  [i \in DOMAIN tkn |-> IF tkn[i].IsParam THEN Wild(tkn[i].Name) ELSE Segment(tkn[i].Name)]

Pattern(tkn) ==
  [i \in DOMAIN tkn |-> IF tkn[i].IsParam THEN Wild(ParamNum(tkn, i))
                                          ELSE Segment(tkn[i].Name)]

ConvertRoute(route) == Pattern(ParseRoute(route))

(* The segment of a path gin's Param(n) reads: that of the first such     *)
(* wildcard.                                                               *)
BoundPosition(p, n) ==
  CHOOSE i \in DOMAIN p : p[i] = Wild(n) /\ \A j \in 1..(i - 1) : p[j] # Wild(n)

(* Mutant: parameters leave no trace in the key.                           *)
CanonicalKey_Literals(tkn) ==
  LET ss == Selected(tkn, {i \in DOMAIN tkn : ~tkn[i].IsParam}) IN
  [i \in DOMAIN ss |-> Segment(ss[i].Name)]

(* The key of canonicalRouteMapper: /v1/thing/{0}/other/{1}.               *)
CanonicalKey(tkn) ==
  [i \in DOMAIN tkn |-> IF tkn[i].IsParam THEN Wild(tkn[i].ParamIndex)
                                          ELSE Segment(tkn[i].Name)]

(* The parameters and their names, in the order of the route.              *)
Params(tkn) == Selected(tkn, {i \in DOMAIN tkn : tkn[i].IsParam})

ParamsOf(tkn) == [n \in DOMAIN Params(tkn) |-> Params(tkn)[n].Name]
=============================================================================
