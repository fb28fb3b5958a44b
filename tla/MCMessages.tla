---------------------------- MODULE MCMessages ----------------------------
(***************************************************************************)
(* The messages, names and routes of the instances of Decoder and of       *)
(* Operations: the bookstore, and a test service whose messages have a     *)
(* field of every kind.                                                    *)
(***************************************************************************)
EXTENDS Bookstore

InOneof(f, oneof) == [f EXCEPT !.oneof = oneof]

Deep == <<String(1, "id"), String(3, "name")>>
Part == <<String(1, "id"), Singular(2, "size", "int32"), Embed(4, "deep", "Deep"),
          Repeated(String(5, "tags")), Singular(6, "raw", "bytes")>>

Kinds ==
  <<String(1, "text"), Singular(2, "narrow", "int32"), Singular(3, "natural", "uint32"),
    Singular(4, "wide", "uint64"), Singular(5, "zigzag", "sint32"),
    Singular(6, "fixed", "sfixed32"), Singular(7, "enum", "enum"), Singular(8, "flag", "bool"),
    InOneof(Embed(9, "part", "Part"), "choice"), InOneof(String(10, "name"), "choice"),
    [InOneof(Singular(11, "count", "int64"), "_count") EXCEPT !.synthetic = TRUE],
    Repeated(String(12, "list"))>>

(* Every well-known type, alone, in a list and in a map, and a message of  *)
(* the user's that is called like one.                                     *)
Wkts == <<"Any", "Duration", "Empty", "Struct", "Timestamp", "Value", "ListValue",
          "DoubleValue", "FloatValue", "Int64Value", "UInt64Value", "Int32Value",
          "UInt32Value", "BoolValue", "StringValue", "BytesValue", "FieldMask">>

WellKnowns ==
  [i \in DOMAIN Wkts |-> Embed(i, Wkts[i], Wkts[i])] \o
  <<Repeated(Embed(20, "times", "Timestamp")),
    [Embed(21, "values", "Value") EXCEPT !.label = "map", !.key = "int32"],
    InOneof(Embed(22, "empty", "Empty"), "last"), Embed(23, "mask", "mine.FieldMask")>>

(* A message below itself, in each way a field may hold one, and the       *)
(* kinds of scalars.                                                       *)
Tree ==
  <<Embed(1, "left", "Tree"), Repeated(Embed(2, "children", "Tree")),
    [Embed(3, "named", "Other") EXCEPT !.label = "map", !.key = "string"],
    InOneof(Embed(4, "other", "Other"), "either"), InOneof(String(5, "word"), "either"),
    Singular(6, "real", "double"), Singular(7, "raw", "bytes"), Singular(8, "big", "fixed64"),
    Repeated(Singular(9, "colours", "enum")),
    Repeated([Singular(12, "nulls", "enum") EXCEPT !.type = NullEnum]),
    InOneof([Singular(13, "nothing", "enum") EXCEPT !.type = NullEnum], "either"),
    [Singular(14, "floats", "float") EXCEPT !.label = "map", !.key = "bool"],
    [InOneof(Singular(10, "small", "uint32"), "_small") EXCEPT !.synthetic = TRUE],
    Named(String(11, "tree_id"), "treeId")>>

Other == <<Embed(1, "back", "Tree"), Embed(2, "all", "WellKnowns")>>

MCMessageFields ==
  LET own == [Kinds |-> Kinds, Part |-> Part, Deep |-> Deep, Tree |-> Tree, Other |-> Other,
              WellKnowns |-> WellKnowns]
      wkts == [m \in Range(Wkts) \cup {"mine.FieldMask"} |-> <<>>]
  IN BookstoreMessages @@ own @@ wkts

MCShortName ==
  [m \in DOMAIN MCMessageFields |-> IF m = "mine.FieldMask" THEN "FieldMask" ELSE m]
MCWellKnown == Range(Wkts)

MCParamNames == {"shelf", "genre_id", "book", "author", "book.shelf_id", "book.id", "text",
                 "enum", "wide", "zigzag", "fixed", "flag", "part.id", "part.size", "part.deep.id",
                 "part.deep", "part.tags",
                 "tree_id", "treeId", "small", "word"}

MCParts ==
  [p \in MCParamNames |->
     CASE p = "book.shelf_id" -> <<"book", "shelf_id">> [] p = "book.id" -> <<"book", "id">>
       [] p = "part.id" -> <<"part", "id">> [] p = "part.size" -> <<"part", "size">>
       [] p = "part.deep.id" -> <<"part", "deep", "id">>
       [] p = "part.deep" -> <<"part", "deep">> [] p = "part.tags" -> <<"part", "tags">>
       [] OTHER -> <<p>>]

MCLiterals == {"shelves", "shelf", "genres", "genre", "books", "authors", "recursive", "v2", "kinds"}

MCParamOrder == <<"a_narrow", "author", "b_natural", "c_flag", "d_name", "e_count",
                  "include_deleted", "page_size", "page_token", "small", "text", "word">>
=============================================================================
