----------------------------- MODULE MCDecoder -----------------------------
(***************************************************************************)
(* TLC instance of Decoder: the methods of the bookstore and two of a test *)
(* service whose messages have a field of every kind a parameter can have. *)
(***************************************************************************)
EXTENDS Decoder, MCMessages

KindsRpc(verb, tokens, query) ==
  [verb |-> verb, route |-> Rooted(tokens), in |-> "Kinds", out |-> "Kinds", query |-> query]

MCRpcs ==
  LET kinds ==
        [Numbers |-> KindsRpc("PUT", <<Static("kinds"), Param("text")>>,
                               [a_narrow |-> "narrow", b_natural |-> "natural"]),
         Choices |-> KindsRpc("POST", <<Param("flag"), Static("kinds")>>,
                               [c_flag |-> "flag", d_name |-> "name", e_count |-> "count"]),
         Path |-> KindsRpc("GET", <<Static("kinds"), Param("enum"), Param("wide")>>, <<>>),
         Encodings |-> KindsRpc("HEAD", <<Static("kinds"), Param("zigzag"), Param("fixed")>>, <<>>),
         Nested |-> KindsRpc("PATCH", <<Param("part.id"), Static("kinds"), Param("part.size")>>,
                              [d_name |-> "name", text |-> "text"]),
         Whole |-> KindsRpc("PUT", <<Param("part.deep"), Static("kinds"), Param("part.tags")>>, <<>>),
         Deepest |-> KindsRpc("DELETE", <<Param("part.deep.id"), Static("kinds")>>,
                               [d_name |-> "name"])]
  IN RpcsV1 @@ RpcsV2 @@ kinds

-----------------------------------------------------------------------------
(* Bodies: what the client may have sent for the fields parameters fill,   *)
(* their oneofs and their neighbours.                                      *)
NoBody == [kind |-> "empty", fields |-> <<>>]
Json(fields) == [kind |-> "message", fields |-> fields]
Faulty == {[kind |-> k, fields |-> <<>>] : k \in {"malformed", "unreadable"}}

MessagesOf(in) ==
  CASE in = "Kinds" ->
         {<<>>, <<1>> :> Word("w") @@ <<2>> :> Num(1) @@ <<8>> :> Num(1) @@ <<12>> :> Present,
          <<9>> :> Present @@ <<9, 1>> :> Word("w") @@ <<9, 2>> :> Num(1),
          <<9>> :> Present @@ <<9, 4>> :> Present @@ <<9, 4, 3>> :> Word("w") @@ <<9, 5>> :> Present,
          <<10>> :> Word("w") @@ <<11>> :> Num(0) @@ <<3>> :> Num(1)}
    [] in = "UpdateBookRequest" ->
         {<<1>> :> Word("w") @@ <<2>> :> Present @@ <<2, 1>> :> Word("w") @@ <<2, 3>> :> Word("w")}
    [] OTHER -> {<<>>}

Bodies(r) ==
  {NoBody} \cup IF HasBody(r) THEN Faulty \cup {Json(fields) : fields \in MessagesOf(r.in)} ELSE {}

(* Texts for each template: both sides of every width, the empty text a    *)
(* wildcard may match before another segment, and one that is not UTF-8.   *)
Numerals(in) == IF in = "Kinds" THEN {-9, -5, -1, 0, 2, 5, 8, 16} ELSE {-9, 5}

TextsFor(in, conv) ==
  CASE conv = "string" -> {Empty, Word("v"), Num(2), Garbled}
    [] conv = "bool" -> {Empty, Word("true"), Word("v"), Num(0)}
    [] OTHER -> {Empty, Word("v")} \cup {Num(n) : n \in Numerals(in)}

(* Functions from D whose value at each x is in Choice(x).                 *)
Assignments(D, Choice(_)) ==
  {f \in [D -> UNION {Choice(x) : x \in D}] : \A x \in D : f[x] \in Choice(x)}

Queries(r) ==
  LET qs == QuerySteps(r)
      Choice(i) == {Absent} \cup TextsFor(r.in, qs[i].conv)
      There(f) == {i \in DOMAIN qs : f[i] # Absent}
      At(key) == CHOOSE i \in DOMAIN qs : qs[i].key = key
  IN {[key \in {qs[i].key : i \in There(f)} |-> f[At(key)]] : f \in Assignments(DOMAIN qs, Choice)}

Paths(r) ==
  LET tkn == ParseRoute(r.route)
      ps == PathSteps(r)
      IsLast(n) == tkn[Len(tkn)].IsParam /\ tkn[Len(tkn)].ParamIndex + 1 = n
      Choice(n) == TextsFor(r.in, ps[n].conv) \ (IF IsLast(n) THEN {Empty} ELSE {})
  IN {[i \in DOMAIN tkn |-> IF tkn[i].IsParam THEN texts[tkn[i].ParamIndex + 1]
                                            ELSE Word(tkn[i].Name)] :
        texts \in Assignments(DOMAIN ps, Choice)}

CallsOf(names) ==
  UNION {[rpc : {name}, body : Bodies(MCRpcs[name]), path : Paths(MCRpcs[name]),
          query : Queries(MCRpcs[name])] : name \in names}

MCCalls == CallsOf(DOMAIN MCRpcs)

DeepestCalls == CallsOf({"Deepest", "GetBook"})

-----------------------------------------------------------------------------
(* What is checked in is what the generator makes of the proto files: for  *)
(* the method of each request, its place in the ServiceDesc, the type its  *)
(* handler decodes into, and every step of its decoder.                    *)
GeneratedAsCheckedIn ==
  LET desc == apigw_desc_V1 @@ apigw_desc_V2 IN
  call.rpc \in DOMAIN desc =>
    /\ [verb |-> rpc.verb, tokens |-> rpc.route.tokens]
         = [verb |-> desc[call.rpc].verb, tokens |-> desc[call.rpc].tokens]
    /\ Decoder(rpc.in, HasBody(rpc), steps) = desc[call.rpc].decoder
=============================================================================
