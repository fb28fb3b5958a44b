---------------------------- MODULE MCOperations ----------------------------
(***************************************************************************)
(* TLC instance of Operations: the operations of the bookstore with the    *)
(* options of its proto files, lists of Terraform entities, paginations    *)
(* and deprecations on one of them, and requests and responses of messages *)
(* that contain each other or are of proto2.                               *)
(***************************************************************************)
EXTENDS Operations, MCMessages

(* A message of a proto2 file.                                             *)
Proto2(f) == [f EXCEPT !.proto2 = TRUE]
Legacy ==
  <<Proto2(String(1, "text")), Proto2(Singular(2, "real", "double")),
    Proto2(Singular(3, "enum", "enum")), Proto2(Embed(4, "tree", "Tree")),
    Proto2(InOneof(Singular(5, "flag", "bool"), "either")),
    Proto2(Repeated(Singular(6, "reals", "float"))),
    Proto2([Singular(7, "nothing", "enum") EXCEPT !.type = NullEnum])>>

ResponseFields == MCMessageFields @@ [Legacy |-> Legacy]
ResponseShortName == MCShortName @@ [Legacy |-> "Legacy"]

Plain(rpc) ==
  [rpc |-> rpc, entities |-> <<>>, pagination |-> <<>>, stability |-> "",
   deprecation |-> "none", deprecated |-> FALSE]

Entity(type, name, exclusion, number) ==
  [type |-> type, name |-> name, exclusion |-> exclusion, number |-> number]

(* What bookstore.proto says of ListBooks.                                 *)
CursorPage ==
  [type |-> "cursor", inputs |-> <<[in |-> "requestBody", type |-> "cursor"]>>, outputs |-> TRUE]

ListBooks ==
  [Plain(RpcsV1.ListBooks) EXCEPT
     !.entities = <<Entity("read", "Book", "data_source_only", 2),
                    Entity("read", "Books", "data_source_only", 0)>>,
     !.pagination = <<CursorPage>>]

(* Up to three entities of every type, each kept out of neither list or of *)
(* one.                                                                    *)
Entities ==
  {Entity(t, "Book", x, 0) : t \in {"unspecified", "create"}, x \in {"none", "data_source_only"}}
    \cup {Entity("read", n, x, 0) : n \in {"Book", "Books"},
                                     x \in {"none", "data_source_only", "resource_only"}}

EntityLists == UNION {[1..n -> Entities] : n \in 0..3}

Inputs == [in : {"unspecified", "requestBody"}, type : {"unspecified", "cursor"}]

Paginations ==
  [type : {"unspecified", "cursor"}, inputs : UNION {[1..n -> Inputs] : n \in 0..2},
   outputs : BOOLEAN]

(* Requests and responses made of messages that contain themselves.        *)
TreeRpc(verb, tokens, in, out, query) ==
  Plain([verb |-> verb, route |-> Rooted(tokens), in |-> in, out |-> out, query |-> query])

Recursive ==
  {TreeRpc(v, t, "Tree", out, q) :
     v \in {"GET", "PUT", "HEAD"},
     t \in {<<Static("kinds")>>, <<Param("tree_id")>>, <<Param("treeId"), Static("kinds")>>},
     out \in {"Tree", "Other", "WellKnowns", "Legacy"},
     q \in {<<>>, [small |-> "small", word |-> "word"]}}

KindsPut ==
  {TreeRpc("PUT", <<Param("part.id")>>, "Kinds", "Kinds", q) :
     q \in {<<>>, [d_name |-> "name", text |-> "text"]}}

EntityOperations == {[Plain(RpcsV2.ListShelvesV2) EXCEPT !.entities = es] : es \in EntityLists}

OptionOperations ==
  {[Plain(RpcsV2.ListShelvesV2) EXCEPT !.pagination = <<p>>] : p \in Paginations} \cup
  {[Plain(RpcsV2.ListShelvesV2) EXCEPT !.stability = s, !.deprecation = d, !.deprecated = b] :
     s \in {"", "stable"}, d \in {"none", "", "valid", "invalid"}, b \in BOOLEAN}

(* GetAuthor, whose response has fields with options, with an entity that  *)
(* bookstore.proto has on ListBooks.                                       *)
AuthorOperations ==
  {[Plain(RpcsV1.GetAuthor) EXCEPT !.entities = <<Entity("read", "Book", "data_source_only", 2)>>]}

BookstoreOperations == {Plain((RpcsV1 @@ RpcsV2)[name]) : name \in DOMAIN (RpcsV1 @@ RpcsV2)}

MCOperationSet ==
  EntityOperations \cup OptionOperations \cup BookstoreOperations \cup {ListBooks}
    \cup Recursive \cup KindsPut

(* The hypothesis of the theorem about the request body.                   *)
ASSUME MCNamesApart == NamesApart
=============================================================================
