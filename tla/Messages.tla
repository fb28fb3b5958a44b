------------------------------ MODULE Messages ------------------------------
(***************************************************************************)
(* The proto messages the generator reads and the generated code carries:  *)
(* what the descriptors say of each field, in the order of declaration,    *)
(* and the two ways to find a field: by the names in a route, and by the   *)
(* numbers on the wire.                                                    *)
(***************************************************************************)
EXTENDS Naturals, Sequences, SequencesExt

CONSTANT MessageFields      \* the fields of each message

Messages == DOMAIN MessageFields

(* A singular field without options.  oneof names the oneof it is in, real *)
(* or, for a proto3 optional field, synthetic; type is the message of a    *)
(* message field, or NullEnum; key the kind of the keys of a map; proto2   *)
(* the syntax of its file.  One option is a FieldOption of apigw.proto.    *)
Singular(number, name, kind) ==
  [number |-> number, name |-> name, json |-> name, kind |-> kind,
   label |-> "one", type |-> "", key |-> "", oneof |-> "", synthetic |-> FALSE,
   proto2 |-> FALSE, deprecated |-> FALSE, options |-> <<>>]

Embed(number, name, type) == [Singular(number, name, "message") EXCEPT !.type = type]

NoField == Singular(0, "", "none")

(* The enum protojson has a form of its own for.                           *)
NullEnum == "google.protobuf.NullValue"

FieldOption ==
  [required |-> FALSE, readOnly |-> FALSE, stability |-> "", sunset |-> "none",
   bag |-> FALSE]

Scalars ==
  {"double", "float", "int64", "sfixed64", "sint64", "int32", "sfixed32", "sint32",
   "uint64", "fixed64", "uint32", "fixed32", "string", "bytes", "bool"}

FieldType ==
  [number : Nat \ {0}, name : STRING, json : STRING, kind : Scalars \cup {"enum", "message"},
   label : {"one", "repeated", "map"}, type : STRING, key : STRING, oneof : STRING,
   synthetic : BOOLEAN, proto2 : BOOLEAN, deprecated : BOOLEAN,
   options : Seq([required : BOOLEAN, readOnly : BOOLEAN, stability : STRING,
                  sunset : STRING, bag : BOOLEAN])]

(* What protoc lets pass: the numbers and the two kinds of names of the    *)
(* fields of a message are each apart, and a message field is of a message *)
(* there is.                                                               *)
ASSUME MessagesAssumption ==
  \A m \in Messages :
    /\ MessageFields[m] \in Seq(FieldType)
    /\ \A f \in Range(MessageFields[m]) : f.kind = "message" => f.type \in Messages
    /\ \A f \in Range(MessageFields[m]) : f.oneof = "" => f.synthetic = FALSE
    /\ \A f, g \in Range(MessageFields[m]) :
         f.number = g.number \/ f.name = g.name \/ f.json = g.json => f = g

IsEmbed(f) == f.kind = "message" /\ f.label = "one"

First(s, Test(_)) ==
  LET i == SelectInSeq(s, Test) IN IF i = 0 THEN NoField ELSE s[i]

FieldNamed(m, next) ==
  LET Is(f) == next = f.json \/ next = f.name IN First(MessageFields[m], Is)

FieldNumbered(m, number) ==
  LET Is(f) == f.number = number IN First(MessageFields[m], Is)

(* A message and a path of names, or of numbers, from it.                  *)
NamePaths == Messages \X Seq(STRING)
NumberPaths == Messages \X Seq(Nat)

(* The field at the end of a path, NoField when the path leaves the        *)
(* messages: where path2fieldNumbers panics.                               *)
FieldOf[w \in NamePaths] ==
  LET f == FieldNamed(w[1], Head(w[2])) IN
  IF Len(w[2]) <= 1 THEN f
  ELSE IF IsEmbed(f) THEN FieldOf[<<f.type, Tail(w[2])>>] ELSE NoField

(* The numbers along a path of names, as proto would have them.            *)
PathNumbers[w \in NamePaths] ==
  LET f == FieldNamed(w[1], Head(w[2])) IN
  <<f.number>> \o IF Len(w[2]) > 1 /\ IsEmbed(f) THEN PathNumbers[<<f.type, Tail(w[2])>>]
                                                 ELSE <<>>

(* The field a decoder of the wire format finds at a path of numbers.      *)
FieldAt[w \in NumberPaths] ==
  LET f == FieldNumbered(w[1], Head(w[2])) IN
  IF Len(w[2]) <= 1 THEN f
  ELSE IF IsEmbed(f) THEN FieldAt[<<f.type, Tail(w[2])>>] ELSE NoField
=============================================================================
