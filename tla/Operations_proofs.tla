-------------------------- MODULE Operations_proofs --------------------------
(***************************************************************************)
(* Theorems about Operations, for every set of messages, however they      *)
(* contain each other, and for every operation.                            *)
(***************************************************************************)
EXTENDS Operations, Routes_proofs

OpenKeys(ss) == {k \in DOMAIN ss : ss[k].open}
StackKeys(s) == {s[i].key : i \in DOMAIN s}
Distinct(s) == \A i, j \in DOMAIN s : s[i].key = s[j].key => i = j

(* What the recursion of sc.Message keeps: a call stack of frames, no      *)
(* message on it twice, and a placeholder for exactly those on it.         *)
Frames(s) ==
  /\ s \in Seq(Range(s))
  /\ \A i \in DOMAIN s : DOMAIN s[i] = {"key", "left"}

Tracked(ss) == ss = [k \in DOMAIN ss |-> ss[k]]

Balanced(s, ss) == Frames(s) /\ Distinct(s) /\ Tracked(ss) /\ OpenKeys(ss) = StackKeys(s)

IInv == Balanced(stack, schemas)

(* What happens to the schemas that are complete: nothing.                 *)
Settled == \A k \in DOMAIN schemas :
             ~schemas[k].open => k \in DOMAIN schemas' /\ schemas'[k] = schemas[k]

-----------------------------------------------------------------------------
LEMMA FramesAppended ==
  ASSUME NEW s, Frames(s), NEW e, DOMAIN e = {"key", "left"}
  PROVE  /\ Frames(Append(s, e))
         /\ StackKeys(Append(s, e)) = StackKeys(s) \cup {e.key}
         /\ (Distinct(s) /\ e.key \notin StackKeys(s)) => Distinct(Append(s, e))
<1> DEFINE t == Append(s, e)
<1>1. s \in Seq(Range(s)) /\ Len(s) \in Nat /\ DOMAIN s = 1..Len(s)
  BY DEF Frames
<1>2. /\ DOMAIN t = 1..(Len(s) + 1)
      /\ t[Len(s) + 1] = e
      /\ \A i \in 1..Len(s) : t[i] = s[i]
  <2>1. s \in Seq(Range(s) \cup {e})
    BY <1>1
  <2>2. QED
    BY <1>1, <2>1
<1>3. Range(t) = Range(s) \cup {e}
  BY <1>1, <1>2 DEF Range
<1>4. t \in Seq(Range(t))
  <2>1. s \in Seq(Range(s) \cup {e})
    BY <1>1
  <2>2. QED
    BY <2>1, <1>3
<1>5. Frames(t)
  BY <1>1, <1>2, <1>4 DEF Frames
<1>6. StackKeys(t) = StackKeys(s) \cup {e.key}
  BY <1>1, <1>2 DEF StackKeys
<1>7. ASSUME Distinct(s), e.key \notin StackKeys(s) PROVE Distinct(t)
  BY <1>1, <1>2, <1>7 DEF Distinct, StackKeys
<1>8. QED
  BY <1>5, <1>6, <1>7

(* The stack without its top, which is a Frame still.                      *)
LEMMA FramesPopped ==
  ASSUME Frames(stack), Distinct(stack), stack # <<>>
  PROVE  /\ Frames(Rest) /\ Distinct(Rest)
         /\ DOMAIN Top = {"key", "left"}
         /\ StackKeys(Rest) = StackKeys(stack) \ {Top.key}
         /\ Top.key \in StackKeys(stack)
<1>1. stack \in Seq(Range(stack)) /\ Len(stack) \in Nat \ {0} /\ DOMAIN stack = 1..Len(stack)
  BY DEF Frames
<1>2. /\ DOMAIN Rest = 1..(Len(stack) - 1)
      /\ \A i \in 1..(Len(stack) - 1) : Rest[i] = stack[i]
      /\ Rest \in Seq(Range(stack))
      /\ Len(Rest) = Len(stack) - 1
  BY <1>1 DEF Rest
<1>3. Rest \in Seq(Range(Rest))
  <2>1. \A i \in 1..(Len(stack) - 1) : Rest[i] \in Range(Rest)
    BY <1>2 DEF Range
  <2>2. QED
    BY <1>1, <1>2, <2>1
<1>4. Frames(Rest) /\ Distinct(Rest)
  BY <1>1, <1>2, <1>3 DEF Frames, Distinct
<1>5. DOMAIN Top = {"key", "left"} /\ Top.key \in StackKeys(stack)
  BY <1>1 DEF Frames, Top, StackKeys
<1>6. ASSUME NEW i \in 1..(Len(stack) - 1) PROVE stack[i].key # Top.key
  BY <1>1 DEF Distinct, Top
<1>7. StackKeys(Rest) = StackKeys(stack) \ {Top.key}
  <2>1. StackKeys(stack) = {stack[i].key : i \in 1..(Len(stack) - 1)} \cup {Top.key}
    BY <1>1 DEF StackKeys, Top
  <2>2. StackKeys(Rest) = {stack[i].key : i \in 1..(Len(stack) - 1)}
    BY <1>2 DEF StackKeys
  <2>3. QED
    BY <2>1, <2>2, <1>6
<1>8. QED
  BY <1>4, <1>5, <1>7

(* sc.Message opens a message only if it is on no stack, and disturbs no   *)
(* schema that is there.                                                   *)
LEMMA MessageStep ==
  ASSUME NEW s, NEW key, Balanced(s, schemas), Message(key, s)
  PROVE  Balanced(stack', schemas') /\ Settled
<1>1. CASE IsWellKnown(key.message) \/ key \in DOMAIN schemas
  BY <1>1 DEF Message, Balanced, Settled
<1>2. CASE ~(IsWellKnown(key.message) \/ key \in DOMAIN schemas)
  <2>1. stack' = Append(s, Frame(key)) /\ schemas' = Placed(key)
    BY <1>2 DEF Message
  <2>2. DOMAIN Frame(key) = {"key", "left"} /\ Frame(key).key = key
    BY DEF Frame
  <2>3. /\ DOMAIN schemas' = DOMAIN schemas \cup {key}
        /\ schemas'[key] = Placeholder
        /\ \A k \in DOMAIN schemas : schemas'[k] = schemas[k]
        /\ Tracked(schemas')
    BY <2>1, <1>2 DEF Placed, Tracked
  <2>4. Placeholder.open = TRUE
    BY DEF Placeholder
  <2>5. OpenKeys(schemas') = OpenKeys(schemas) \cup {key}
    BY <2>3, <2>4 DEF OpenKeys
  <2>6. key \notin StackKeys(s)
    BY <1>2 DEF Balanced, OpenKeys
  <2>7. QED
    BY <2>1, <2>2, <2>3, <2>5, <2>6, FramesAppended DEF Balanced, Settled
<1>3. QED
  BY <1>1, <1>2

LEMMA InitBalanced == Init => IInv
<1>1. Init => stack = <<>> /\ schemas = <<>>
  BY DEF Init
<1>2. Range(<<>>) = {} /\ DOMAIN <<>> = {}
  BY DEF Range
<1>3. Frames(<<>>) /\ Distinct(<<>>) /\ StackKeys(<<>>) = {} /\ OpenKeys(<<>>) = {}
  BY <1>2 DEF Frames, Distinct, StackKeys, OpenKeys
<1>4. Tracked(<<>>)
  BY <1>2 DEF Tracked
<1>5. QED
  BY <1>1, <1>3, <1>4 DEF IInv, Balanced

(* Every step keeps the stack and the placeholders in balance, and leaves  *)
(* what is complete alone.                                                 *)
LEMMA StepBalanced == IInv /\ [Next]_vars => IInv' /\ Settled
<1> SUFFICES ASSUME IInv, [Next]_vars PROVE IInv' /\ Settled
  OBVIOUS
<1> USE DEF IInv
<1>1. ASSUME UNCHANGED <<schemas, stack>> PROVE IInv' /\ Settled
  BY <1>1 DEF Balanced, Settled
<1>2. CASE TerraformEntity
  BY <1>1, <1>2 DEF TerraformEntity
<1>3. CASE Extensions
  BY <1>1, <1>3 DEF Extensions
<1>4. CASE Parameters
  BY <1>1, <1>4 DEF Parameters
<1>5. ASSUME NEW key \in todo, Track(key) PROVE IInv' /\ Settled
  BY <1>5, MessageStep DEF Track
<1>6. CASE RenderField
  <2> DEFINE top == [Top EXCEPT !.left = Tail(@)]
             f == Head(Top.left)
             s == Append(Rest, top)
  <2>1. stack # <<>>
    BY <1>6 DEF RenderField
  <2>2. /\ Frames(Rest) /\ Distinct(Rest) /\ DOMAIN Top = {"key", "left"}
        /\ StackKeys(Rest) = StackKeys(stack) \ {Top.key}
        /\ Top.key \in StackKeys(stack)
    BY <2>1, FramesPopped DEF Balanced
  <2>3. DOMAIN top = {"key", "left"} /\ top.key = Top.key
    BY <2>2
  <2>4. Balanced(s, schemas)
    <3> HIDE DEF top
    <3>1. Frames(s) /\ Distinct(s) /\ StackKeys(s) = StackKeys(Rest) \cup {top.key}
      BY <2>2, <2>3, FramesAppended
    <3>2. StackKeys(s) = StackKeys(stack)
      BY <2>2, <2>3, <3>1
    <3>3. QED
      BY <3>1, <3>2 DEF Balanced
  <2>5. CASE f.kind = "message"
    <3>1. Message(Key(f.type, FALSE), s)
      BY <1>6, <2>5 DEF RenderField
    <3>2. QED
      BY <3>1, <2>4, MessageStep
  <2>6. CASE f.kind # "message"
    <3>1. stack' = s /\ schemas' = schemas
      BY <1>6, <2>6 DEF RenderField
    <3>2. QED
      BY <3>1, <2>4 DEF Settled
  <2>7. QED
    BY <2>5, <2>6
<1>7. CASE Close
  <2>1. /\ stack # <<>> /\ stack' = Rest
        /\ schemas' = [schemas EXCEPT ![Top.key] = Object(Top.key)]
    BY <1>7 DEF Close
  <2>2. /\ Frames(Rest) /\ Distinct(Rest)
        /\ StackKeys(Rest) = StackKeys(stack) \ {Top.key}
        /\ Top.key \in StackKeys(stack)
    BY <2>1, FramesPopped DEF Balanced
  <2>3. Top.key \in DOMAIN schemas /\ schemas[Top.key].open
    BY <2>2 DEF Balanced, OpenKeys
  <2>4. Object(Top.key).open = FALSE
    BY DEF Object
  <2>5. /\ DOMAIN schemas' = DOMAIN schemas
        /\ schemas'[Top.key] = Object(Top.key)
        /\ \A k \in DOMAIN schemas \ {Top.key} : schemas'[k] = schemas[k]
        /\ Tracked(schemas')
    BY <2>1, <2>3 DEF Tracked
  <2>6. OpenKeys(schemas') = OpenKeys(schemas) \ {Top.key}
    BY <2>3, <2>4, <2>5 DEF OpenKeys
  <2>7. Settled
    BY <2>3, <2>5 DEF Settled
  <2>8. QED
    BY <2>1, <2>2, <2>5, <2>6, <2>7 DEF Balanced
<1>8. CASE Finish
  BY <1>1, <1>8 DEF Finish
<1>9. CASE UNCHANGED vars
  BY <1>1, <1>9 DEF vars
<1>10. QED
  BY <1>2, <1>3, <1>4, <1>5, <1>6, <1>7, <1>8, <1>9 DEF Next

LEMMA Balance == Spec => []IInv
<1>1. QED
  BY InitBalanced, StepBalanced, PTL DEF Spec

-----------------------------------------------------------------------------
(* OpenOnce: however messages contain each other, sc.Message is never in   *)
(* the middle of one twice, so that its recursion is never deeper than     *)
(* there are keys.                                                         *)
THEOREM MessageOpenOnce == Spec => []OpenOnce
<1>1. IInv => OpenOnce
  BY DEF IInv, Balanced, Distinct, OpenKeys, StackKeys, OpenOnce
<1>2. QED
  BY <1>1, Balance, PTL

(* SchemasSettle: a schema that is complete is never rendered anew, in     *)
(* whatever order messages are met, with a filter or without.              *)
THEOREM CompleteSchemasStay == Spec => SchemasSettle
<1>1. IInv /\ [Next]_vars => [Settled]_vars
  BY StepBalanced
<1>2. Spec => [][Settled]_vars
  BY <1>1, Balance, PTL DEF Spec
<1>3. QED
  BY <1>2 DEF SchemasSettle, Settled

-----------------------------------------------------------------------------
(* The lists of x-speakeasy-entity-operation, after the first k entities.  *)

ValueType == {NullValue} \cup {EntityValue(te) : te \in {e \in EntityType : e.type # "unspecified"}}

Nulls(values) == {i \in DOMAIN values : values[i] = NullValue}

(* The entities that belong in the list, and those that are kept out of it.*)
Within(entities, k, exclusion, types) ==
  {i \in 1..k : entities[i].type \in types /\ entities[i].exclusion # exclusion}
Without(entities, k, exclusion, types) ==
  {i \in 1..k : entities[i].type \in types /\ entities[i].exclusion = exclusion}

Values(entities, I) ==
  [n \in DOMAIN Selected(entities, I) |-> EntityValue(Selected(entities, I)[n])]

Lists(values, entities, k, exclusion, types) ==
  /\ values \in Seq(ValueType)
  /\ Selected(values, DOMAIN values \ Nulls(values))
       = Values(entities, Within(entities, k, exclusion, types))
  /\ Nulls(values) = {} <=> Without(entities, k, exclusion, types) = {}
  /\ \A i, j \in Nulls(values) : i = j

LEMMA EntityIsNoNull ==
  ASSUME NEW te \in EntityType, te.type # "unspecified"
  PROVE  EntityValue(te) # NullValue /\ EntityValue(te) \in ValueType
<1>1. te.type # "null"
  BY DEF EntityType
<1>2. EntityValue(te).verb = te.type /\ NullValue.verb = "null"
  BY DEF EntityValue, NullValue
<1>3. QED
  BY <1>1, <1>2 DEF ValueType

(* The nulls of a list, and its entities, when one value more is added.    *)
LEMMA ValueAppended ==
  ASSUME NEW values \in Seq(ValueType), NEW v \in ValueType
  PROVE  LET more == Append(values, v) IN
         /\ more \in Seq(ValueType)
         /\ v = NullValue => /\ Nulls(more) = Nulls(values) \cup {Len(values) + 1}
                             /\ Selected(more, DOMAIN more \ Nulls(more))
                                  = Selected(values, DOMAIN values \ Nulls(values))
         /\ v # NullValue => /\ Nulls(more) = Nulls(values)
                             /\ Selected(more, DOMAIN more \ Nulls(more))
                                  = Append(Selected(values, DOMAIN values \ Nulls(values)), v)
<1> DEFINE more == Append(values, v)
           n == Len(values) + 1
           I == DOMAIN values \ Nulls(values)
<1>1. /\ more \in Seq(ValueType) /\ n \in Nat
      /\ DOMAIN more = DOMAIN values \cup {n} /\ n \notin DOMAIN values
      /\ more[n] = v
      /\ \A i \in DOMAIN values : more[i] = values[i] /\ i < n
  OBVIOUS
<1>2. Selected(more, I) = Selected(values, I)
  BY SelectedAppend
<1> HIDE DEF more, n
<1>3. CASE v = NullValue
  <2>1. Nulls(more) = Nulls(values) \cup {n}
    BY <1>1, <1>3 DEF Nulls
  <2>2. DOMAIN more \ Nulls(more) = I
    BY <1>1, <2>1
  <2>3. QED
    BY <1>1, <1>2, <1>3, <2>1, <2>2 DEF more, n
<1>4. CASE v # NullValue
  <2>1. Nulls(more) = Nulls(values)
    BY <1>1, <1>4 DEF Nulls
  <2>2. DOMAIN more \ Nulls(more) = I \cup {n}
    BY <1>1, <2>1 DEF Nulls
  <2>3. Selected(more, I \cup {n}) = Append(Selected(more, I), more[n])
    <3>1. I \in SUBSET DOMAIN more /\ n \in DOMAIN more /\ \A i \in I : i < n
      BY <1>1
    <3>2. QED
      BY <1>1, <3>1, SelectedNext
  <2>4. QED
    BY <1>1, <1>2, <1>4, <2>1, <2>2, <2>3 DEF more
<1>5. QED
  BY <1>3, <1>4

(* One turn of the loop of getTerraformEntityOperationExtension.           *)
LEMMA OneEntityMore ==
  ASSUME NEW entities \in Seq(EntityType), NEW k \in Nat, k + 1 \in DOMAIN entities,
         NEW exclusion, NEW types, "unspecified" \notin types,
         NEW values, Lists(values, entities, k, exclusion, types)
  PROVE  LET te == entities[k + 1]
             v == IF te.exclusion = exclusion THEN NullValue ELSE EntityValue(te)
         IN Lists(IF te.type \in types THEN Appended(values, v) ELSE values,
                  entities, k + 1, exclusion, types)
<1> DEFINE te == entities[k + 1]
           W == Within(entities, k, exclusion, types)
           O == Without(entities, k, exclusion, types)
           W1 == Within(entities, k + 1, exclusion, types)
           O1 == Without(entities, k + 1, exclusion, types)
<1>1. /\ te \in EntityType /\ W \in SUBSET DOMAIN entities
      /\ \A i \in W : i < k + 1
      /\ \A i : i \in 1..(k + 1) <=> i \in 1..k \/ i = k + 1
  BY DEF Within
<1>2. /\ values \in Seq(ValueType)
      /\ Selected(values, DOMAIN values \ Nulls(values)) = Values(entities, W)
      /\ Nulls(values) = {} <=> O = {}
      /\ \A i, j \in Nulls(values) : i = j
  BY DEF Lists
<1>3. CASE te.type \notin types
  <2>1. W1 = W /\ O1 = O
    BY <1>1, <1>3 DEF Within, Without
  <2>2. QED
    BY <1>3, <2>1 DEF Lists
<1>4. CASE te.type \in types /\ te.exclusion = exclusion
  <2>1. W1 = W /\ O1 # {}
    BY <1>1, <1>4 DEF Within, Without
  <2>2. CASE NullValue \in Range(values)
    <3>1. Appended(values, NullValue) = values
      BY <2>2 DEF Appended
    <3>2. Nulls(values) # {}
      BY <2>2 DEF Range, Nulls
    <3>3. QED
      BY <1>2, <1>4, <2>1, <3>1, <3>2 DEF Lists
  <2>3. CASE NullValue \notin Range(values)
    <3> DEFINE more == Append(values, NullValue)
    <3>1. Appended(values, NullValue) = more
      BY <2>3 DEF Appended
    <3>2. Nulls(values) = {}
      BY <2>3 DEF Range, Nulls
    <3>3. /\ more \in Seq(ValueType)
          /\ Nulls(more) = {Len(values) + 1}
          /\ Selected(more, DOMAIN more \ Nulls(more)) = Values(entities, W)
      <4>1. NullValue \in ValueType
        BY DEF ValueType
      <4>2. QED
        BY <1>2, <3>2, <4>1, ValueAppended
    <3> HIDE DEF more
    <3>4. QED
      BY <1>4, <2>1, <3>1, <3>3 DEF Lists
  <2>4. QED
    BY <2>2, <2>3
<1>5. CASE te.type \in types /\ te.exclusion # exclusion
  <2> DEFINE v == EntityValue(te)
             more == Append(values, v)
  <2>1. W1 = W \cup {k + 1} /\ O1 = O
    BY <1>1, <1>5 DEF Within, Without
  <2>2. v # NullValue /\ v \in ValueType
    BY <1>1, <1>5, EntityIsNoNull
  <2>3. Appended(values, v) = more
    BY <2>2 DEF Appended
  <2>4. /\ more \in Seq(ValueType) /\ Nulls(more) = Nulls(values)
        /\ Selected(more, DOMAIN more \ Nulls(more)) = Append(Values(entities, W), v)
    BY <1>2, <2>2, ValueAppended
  <2>5. Values(entities, W \cup {k + 1}) = Append(Values(entities, W), v)
    <3> DEFINE s == Selected(entities, W)
    <3>1. Selected(entities, W \cup {k + 1}) = Append(s, te)
      BY <1>1, SelectedNext
    <3>2. s \in Seq(EntityType)
      BY <1>1, SelectedType
    <3> HIDE DEF s
    <3>3. [n \in DOMAIN Append(s, te) |-> EntityValue(Append(s, te)[n])]
            = Append([n \in DOMAIN s |-> EntityValue(s[n])], EntityValue(te))
      BY <1>1, <3>2
    <3>4. QED
      BY <3>1, <3>3 DEF Values, s
  <2> HIDE DEF more, v
  <2>6. QED
    BY <1>2, <1>5, <2>1, <2>3, <2>4, <2>5 DEF Lists, v
<1>6. QED
  BY <1>3, <1>4, <1>5

(* At the end of the loop the lists are what the entities declare.         *)
LEMMA ListsDeclared ==
  ASSUME op.entities \in Seq(EntityType), NEW values, NEW exclusion, NEW types,
         Lists(values, op.entities, Len(op.entities), exclusion, types)
  PROVE  NodeAsDeclared(Node(values), exclusion, types)
<1> DEFINE entities == op.entities
           nulls == Nulls(values)
           out == {te \in Range(entities) : te.type \in types /\ te.exclusion = exclusion}
<1>1. /\ values \in Seq(ValueType)
      /\ Selected(values, DOMAIN values \ nulls)
           = Values(entities, Within(entities, Len(entities), exclusion, types))
      /\ nulls = {} <=> Without(entities, Len(entities), exclusion, types) = {}
      /\ \A i, j \in nulls : i = j
  BY DEF Lists
<1>2. DOMAIN entities = 1..Len(entities)
  OBVIOUS
<1>3. Node(values).values = values /\ (Node(values).kind = "sequence" <=> Len(values) > 1)
  <2>1. PICK n \in Nat : n = Len(values)
    BY <1>1
  <2>2. Node(values) = [kind |-> CASE n = 0 -> "none" [] n = 1 -> "scalar" [] OTHER -> "sequence",
                        values |-> values]
    BY <2>1 DEF Node
  <2>3. /\ Node(values).values = values
        /\ n = 0 => Node(values).kind = "none"
        /\ n = 1 => Node(values).kind = "scalar"
        /\ n # 0 /\ n # 1 => Node(values).kind = "sequence"
    BY <2>2
  <2>4. n > 1 <=> n # 0 /\ n # 1
    BY <2>1
  <2>5. QED
    BY <2>1, <2>3, <2>4
<1>4. Selected(values, DOMAIN values \ nulls) = Listed(entities, exclusion, types)
  <2>1. {i \in DOMAIN entities : entities[i].type \in types /\ entities[i].exclusion # exclusion}
          = Within(entities, Len(entities), exclusion, types)
    BY <1>2 DEF Within
  <2>2. QED
    BY <1>1, <2>1 DEF Listed, Values
<1>5. out = {} <=> nulls = {}
  <2>1. Range(entities) = {entities[i] : i \in DOMAIN entities}
    BY DEF Range
  <2>2. out = {} <=> Without(entities, Len(entities), exclusion, types) = {}
    BY <1>2, <2>1 DEF Without
  <2>3. QED
    BY <1>1, <2>2
<1>6. Cardinality(nulls) = IF out = {} THEN 0 ELSE 1
  <2>1. CASE nulls = {}
    BY <1>5, <2>1, FS_EmptySet
  <2>2. CASE nulls # {}
    <3>1. PICK i \in nulls : nulls = {i}
      BY <1>1, <2>2
    <3>2. Cardinality({i}) = 1
      BY FS_Singleton
    <3>3. QED
      BY <1>5, <2>2, <3>1, <3>2
  <2>3. QED
    BY <2>1, <2>2
<1>7. QED
  BY <1>3, <1>4, <1>6 DEF NodeAsDeclared, Nulls

(* What getTerraformEntityOperationPagination returns, if anything.        *)
LEMMA PaginationDeclared ==
  ASSUME NEW p \in PaginationType, Pagination(p) # <<>>
  PROVE  LET q == Pagination(p)[1] IN
         /\ q.type # "unspecified" /\ q.outputs = p.outputs
         /\ q.inputs # <<>>
         /\ \A i \in Range(q.inputs) : i.in # "unspecified" /\ i.type # "unspecified"
         /\ {i \in Range(p.inputs) : i.in # "unspecified"} = Range(q.inputs)
<1> DEFINE InputType == [in : STRING, type : STRING]
           I == {i \in DOMAIN p.inputs : p.inputs[i].in # "unspecified"}
           inputs == Selected(p.inputs, I)
<1>1. p.inputs \in Seq(InputType) /\ I \in SUBSET DOMAIN p.inputs
  BY DEF PaginationType
<1>2. /\ DOMAIN inputs = 1..Cardinality(I)
      /\ \A n \in 1..Cardinality(I) : Nth(I, n) \in I /\ inputs[n] = p.inputs[Nth(I, n)]
      /\ \A i \in I : /\ Rank(I, i) + 1 \in 1..Cardinality(I)
                      /\ inputs[Rank(I, i) + 1] = p.inputs[i]
  <2>1. DOMAIN inputs = 1..Cardinality(I)
    BY <1>1, SelectedType
  <2>2. /\ \A n \in 1..Cardinality(I) :
             Nth(I, n) \in I /\ Selected(p.inputs, I)[n] = p.inputs[Nth(I, n)]
        /\ \A i \in I : /\ Rank(I, i) + 1 \in 1..Cardinality(I)
                        /\ Selected(p.inputs, I)[Rank(I, i) + 1] = p.inputs[i]
    <3> HIDE DEF I, InputType
    <3>1. QED
      BY <1>1, SelectedElements
  <2>3. QED
    BY <2>1, <2>2
<1>3. Pagination(p) =
        IF \/ p.type = "unspecified"
           \/ \E i \in DOMAIN inputs : inputs[i].type = "unspecified"
           \/ inputs = <<>>
          THEN <<>>
          ELSE <<[type |-> p.type, inputs |-> inputs, outputs |-> p.outputs]>>
  BY DEF Pagination
<1> HIDE DEF inputs, I
<1>4. /\ p.type # "unspecified" /\ inputs # <<>>
      /\ \A i \in DOMAIN inputs : inputs[i].type # "unspecified"
      /\ Pagination(p)[1] = [type |-> p.type, inputs |-> inputs, outputs |-> p.outputs]
  <2>1. ~(\/ p.type = "unspecified"
          \/ \E i \in DOMAIN inputs : inputs[i].type = "unspecified"
          \/ inputs = <<>>)
    <3> DEFINE none == \/ p.type = "unspecified"
                       \/ \E i \in DOMAIN inputs : inputs[i].type = "unspecified"
                       \/ inputs = <<>>
               whole == <<[type |-> p.type, inputs |-> inputs, outputs |-> p.outputs]>>
    <3>1. Pagination(p) = IF none THEN <<>> ELSE whole
      BY <1>3
    <3> HIDE DEF none, whole
    <3>2. ~none
      BY <3>1
    <3>3. QED
      BY <3>2 DEF none
  <2>2. Pagination(p) = <<[type |-> p.type, inputs |-> inputs, outputs |-> p.outputs]>>
    BY <1>3, <2>1
  <2>3. QED
    BY <2>1, <2>2
<1>5. \A i \in Range(inputs) :
        i \in Range(p.inputs) /\ i.in # "unspecified" /\ i.type # "unspecified"
  <2>1. ASSUME NEW x \in Range(inputs)
        PROVE  x \in Range(p.inputs) /\ x.in # "unspecified" /\ x.type # "unspecified"
    <3>1. PICK n \in DOMAIN inputs : x = inputs[n]
      BY DEF Range
    <3>2. n \in 1..Cardinality(I) /\ x.type # "unspecified"
      BY <1>2, <1>4, <3>1
    <3>3. PICK i \in I : x = p.inputs[i]
      BY <1>2, <3>1, <3>2
    <3>4. i \in DOMAIN p.inputs /\ p.inputs[i].in # "unspecified"
      BY <3>3 DEF I
    <3>5. QED
      BY <3>2, <3>3, <3>4 DEF Range
  <2>2. QED
    BY <2>1
<1>6. {i \in Range(p.inputs) : i.in # "unspecified"} = Range(inputs)
  <2>1. ASSUME NEW x \in Range(p.inputs), x.in # "unspecified" PROVE x \in Range(inputs)
    <3>1. PICK i \in I : x = p.inputs[i]
      BY <2>1 DEF Range, I
    <3>2. QED
      BY <1>2, <3>1 DEF Range
  <2>2. QED
    BY <1>5, <2>1
<1>7. QED
  BY <1>4, <1>5, <1>6

(* What is true of the extensions once they are set, and of the lists      *)
(* before.                                                                 *)
PaginationSet ==
  extensions.pagination # <<>> =>
    LET p == extensions.pagination[1] IN
    /\ p.type # "unspecified" /\ p.outputs
    /\ p.inputs # <<>>
    /\ \A i \in Range(p.inputs) : i.in # "unspecified" /\ i.type # "unspecified"
    /\ {i \in Range(op.pagination[1].inputs) : i.in # "unspecified"} = Range(p.inputs)

Methods == {"create", "read", "update", "delete"}

EntitySet ==
  /\ NodeAsDeclared(extensions.entity[1], "resource_only", {"read"})
  /\ NodeAsDeclared(extensions.entity[2], "data_source_only", Methods)

EInv ==
  /\ op \in OperationSet
  /\ at \in 1..(Len(op.entities) + 1)
  /\ phase = "entities" =>
       /\ Lists(datasource, op.entities, at - 1, "resource_only", {"read"})
       /\ Lists(resource, op.entities, at - 1, "data_source_only", Methods)
  /\ phase \in {"parameters", "schemas", "done"} => PaginationSet /\ EntitySet

LEMMA ExtensionsInit == Init => EInv
<1> SUFFICES ASSUME Init PROVE EInv
  OBVIOUS
<1>1. op \in OperationSet /\ op.entities \in Seq(EntityType)
  BY OperationsAssumption DEF Init
<1>2. ASSUME NEW exclusion, NEW types PROVE Lists(<<>>, op.entities, 0, exclusion, types)
  <2>1. /\ Within(op.entities, 0, exclusion, types) = {}
        /\ Without(op.entities, 0, exclusion, types) = {}
    BY DEF Within, Without
  <2>2. Nulls(<<>>) = {} /\ DOMAIN <<>> = {} /\ <<>> \in Seq(ValueType)
    BY DEF Nulls
  <2>3. \A s : Selected(s, {}) = <<>>
    <3>1. Cardinality({}) = 0
      BY FS_EmptySet
    <3>2. QED
      BY <3>1 DEF Selected
  <2>4. Values(op.entities, {}) = <<>>
    BY <2>3 DEF Values
  <2>5. QED
    BY <2>1, <2>2, <2>3, <2>4 DEF Lists
<1>3. at = 1 /\ phase = "entities" /\ datasource = <<>> /\ resource = <<>>
  BY DEF Init
<1>4. at \in 1..(Len(op.entities) + 1)
  BY <1>1, <1>3
<1>5. QED
  BY <1>1, <1>2, <1>3, <1>4 DEF EInv

LEMMA ExtensionsNext == EInv /\ [Next]_vars => EInv'
<1> SUFFICES ASSUME EInv, [Next]_vars PROVE EInv'
  OBVIOUS
<1>1. op' = op
  BY DEF Next, TerraformEntity, Extensions, Parameters, Track, RenderField, Close, Finish, vars
<1>2. /\ op \in OperationSet /\ op.entities \in Seq(EntityType)
      /\ op.pagination \in Seq(PaginationType)
      /\ at \in 1..(Len(op.entities) + 1) /\ at \in Nat /\ Len(op.entities) \in Nat
  BY OperationsAssumption DEF EInv
<1>3. CASE TerraformEntity
  <2> DEFINE te == op.entities[at]
             n == at - 1
  <2>1. /\ phase = "entities" /\ at <= Len(op.entities) /\ at' = at + 1 /\ phase' = phase
        /\ n \in Nat /\ n + 1 = at /\ n + 1 \in DOMAIN op.entities /\ te \in EntityType
    BY <1>2, <1>3 DEF TerraformEntity
  <2>2. /\ datasource' = IF te.type \in {"read"}
                           THEN Appended(datasource, IF te.exclusion = "resource_only" THEN NullValue
                                                                   ELSE EntityValue(te))
                           ELSE datasource
        /\ resource' = IF te.type \in Methods
                         THEN Appended(resource, IF te.exclusion = "data_source_only" THEN NullValue
                                                               ELSE EntityValue(te))
                         ELSE resource
    <3>1. te.type = "unspecified" <=> te.type \notin Methods
      BY <2>1 DEF EntityType, Methods
    <3>2. QED
      BY <1>3, <3>1 DEF TerraformEntity, Datasource, Resource
  <2>3. /\ Lists(datasource, op.entities, n, "resource_only", {"read"})
        /\ Lists(resource, op.entities, n, "data_source_only", Methods)
    BY <2>1 DEF EInv
  <2> HIDE DEF n
  <2>4. Lists(datasource', op.entities, n + 1, "resource_only", {"read"})
    BY <1>2, <2>1, <2>2, <2>3, OneEntityMore
  <2>5. Lists(resource', op.entities, n + 1, "data_source_only", Methods)
    <3>1. "unspecified" \notin Methods
      BY DEF Methods
    <3>2. QED
      BY <1>2, <2>1, <2>2, <2>3, <3>1, OneEntityMore
  <2>6. at' - 1 = n + 1 /\ at' \in 1..(Len(op.entities) + 1)
    BY <1>2, <2>1
  <2>7. QED
    BY <1>1, <1>2, <2>1, <2>4, <2>5, <2>6 DEF EInv
<1>4. CASE Extensions
  <2> DEFINE pagination == IF op.pagination = <<>> THEN <<>> ELSE Pagination(op.pagination[1])
  <2>1. phase = "entities" /\ at = Len(op.entities) + 1 /\ at' = at
    <3>1. phase = "entities" /\ at > Len(op.entities) /\ at' = at
      BY <1>4 DEF Extensions
    <3>2. QED
      BY <1>2, <3>1
  <2>2. /\ NodeAsDeclared(Node(datasource), "resource_only", {"read"})
        /\ NodeAsDeclared(Node(resource), "data_source_only", Methods)
    <3>1. at - 1 = Len(op.entities)
      BY <1>2, <2>1
    <3>2. QED
      BY <1>2, <2>1, <3>1, ListsDeclared DEF EInv
  <2>3. phase' \in {"panic", "failed", "parameters"}
    BY <1>4 DEF Extensions
  <2>4. ASSUME phase' = "parameters" PROVE PaginationSet' /\ EntitySet'
    <3>1. /\ extensions'.entity = <<Node(datasource), Node(resource)>>
          /\ extensions'.pagination = pagination
          /\ pagination # <<>> => pagination[1].outputs
      <4>1. IF pagination # <<>> /\ ~pagination[1].outputs
              THEN phase' = "panic" /\ UNCHANGED extensions
              ELSE IF op.deprecation \in {"", "invalid"}
                     THEN phase' = "failed" /\ UNCHANGED extensions
                     ELSE /\ phase' = "parameters"
                          /\ extensions' = [entity |-> <<Node(datasource), Node(resource)>>,
                                            pagination |-> pagination,
                                            stability |-> op.stability,
                                            sunset |-> Sunset(op.deprecation),
                                            deprecated |-> op.deprecated \/ op.deprecation # "none"]
        BY <1>4 DEF Extensions
      <4> HIDE DEF pagination
      <4>2. ~(pagination # <<>> /\ ~pagination[1].outputs)
        BY <2>4, <4>1
      <4>3. op.deprecation \notin {"", "invalid"}
        BY <2>4, <4>1, <4>2
      <4>4. pagination # <<>> => pagination[1].outputs
        BY <4>2, Zenon
      <4>5. extensions' = [entity |-> <<Node(datasource), Node(resource)>>,
                           pagination |-> pagination,
                           stability |-> op.stability,
                           sunset |-> Sunset(op.deprecation),
                           deprecated |-> op.deprecated \/ op.deprecation # "none"]
        BY <4>1, <4>2, <4>3, Zenon
      <4>6. /\ extensions'.entity = <<Node(datasource), Node(resource)>>
            /\ extensions'.pagination = pagination
        BY <4>5
      <4>7. QED
        BY <4>4, <4>6, Zenon
    <3>2. EntitySet'
      BY <1>1, <2>2, <3>1 DEF EntitySet, NodeAsDeclared
    <3>3. PaginationSet'
      <4>1. CASE pagination = <<>>
        BY <3>1, <4>1 DEF PaginationSet
      <4>2. CASE pagination # <<>>
        <5>1. op.pagination # <<>> /\ op.pagination[1] \in PaginationType
              /\ pagination = Pagination(op.pagination[1])
          BY <1>2, <4>2
        <5> HIDE DEF pagination
        <5>2. LET q == pagination[1] IN
              /\ q.type # "unspecified" /\ q.outputs
              /\ q.inputs # <<>>
              /\ \A i \in Range(q.inputs) : i.in # "unspecified" /\ i.type # "unspecified"
              /\ {i \in Range(op.pagination[1].inputs) : i.in # "unspecified"} = Range(q.inputs)
          BY <3>1, <4>2, <5>1, PaginationDeclared
        <5>3. QED
          BY <1>1, <3>1, <5>2 DEF PaginationSet
      <4>3. QED
        BY <4>1, <4>2
    <3>4. QED
      BY <3>2, <3>3
  <2>5. QED
    BY <1>1, <1>2, <2>1, <2>3, <2>4 DEF EInv
<1>5. ASSUME UNCHANGED <<at, extensions>>, phase # "entities" \/ UNCHANGED <<phase, datasource, resource>>,
             phase' \in {"parameters", "schemas", "done"} => phase \in {"parameters", "schemas", "done"},
             phase' = "entities" => phase = "entities"
      PROVE  EInv'
  <2>1. /\ PaginationSet => PaginationSet'
        /\ EntitySet => EntitySet'
    BY <1>1, <1>5 DEF PaginationSet, EntitySet, NodeAsDeclared
  <2>2. QED
    BY <1>1, <1>2, <1>5, <2>1 DEF EInv
<1>6. CASE Parameters
  BY <1>5, <1>6 DEF Parameters
<1>7. CASE \E key \in todo : Track(key)
  BY <1>5, <1>7 DEF Track
<1>8. CASE RenderField
  BY <1>5, <1>8 DEF RenderField
<1>9. CASE Close
  BY <1>5, <1>9 DEF Close
<1>10. CASE Finish
  BY <1>5, <1>10 DEF Finish
<1>11. CASE UNCHANGED vars
  BY <1>5, <1>11 DEF vars
<1>12. QED
  BY <1>3, <1>4, <1>6, <1>7, <1>8, <1>9, <1>10, <1>11 DEF Next

LEMMA ExtensionsAlways == Spec => []EInv
<1>1. QED
  BY ExtensionsInit, ExtensionsNext, PTL DEF Spec

(* PaginationComplete: whatever inputs an operation declares, its document *)
(* has all of the pagination or nothing of it.                             *)
THEOREM PaginationAllOrNothing == Spec => []PaginationComplete
<1>1. EInv => PaginationComplete
  BY DEF EInv, PaginationSet, PaginationComplete
<1>2. QED
  BY <1>1, ExtensionsAlways, PTL

(* ExtensionAsDeclared: for lists of any length, in each list of the       *)
(* extension the entities that belong there, in their order, and one null  *)
(* if any was kept out.                                                    *)
THEOREM EntitiesInTheirLists == Spec => []ExtensionAsDeclared
<1>1. EInv => ExtensionAsDeclared
  BY DEF EInv, EntitySet, ExtensionAsDeclared, Methods
<1>2. QED
  BY <1>1, ExtensionsAlways, PTL
-----------------------------------------------------------------------------
(* The schemas.  A field is met once the message it is of has its schema.  *)

Own(key) == Range(FieldsOf(key.message, FilterOf(key)))

Met(f, ss) ==
  f.kind = "message" /\ ~IsWellKnown(f.type) => Key(f.type, FALSE) \in DOMAIN ss

KeyType == [message : Messages, input : BOOLEAN]

(* The messages of the request and of the response.                        *)
Wanted ==
  {Key(op.rpc.out, FALSE)} \cup
  (IF HasRequestBody(op.rpc) THEN {Key(op.rpc.in, parameters # <<>>)} ELSE {})

(* How far the schemas are: a complete one is that of its message, with    *)
(* all its fields met, and an open one has met those that are not left.    *)
Idle == stack = <<>> /\ todo = {}

Complete(key, ss) == ss[key] = Object(key) /\ \A f \in Own(key) : Met(f, ss)

Underway(frame, ss) ==
  /\ frame.left \in Seq(Own(frame.key))
  /\ \A f \in Own(frame.key) : f \in Range(frame.left) \/ Met(f, ss)

SInv ==
  /\ op \in OperationSet /\ phase \in Phases
  /\ phase \notin {"schemas", "done"} => Idle /\ schemas = <<>>
  /\ phase = "done" => Idle
  /\ todo \cup DOMAIN schemas \subseteq KeyType
  /\ \A k \in DOMAIN schemas : ~schemas[k].open => Complete(k, schemas)
  /\ \A i \in DOMAIN stack : Underway(stack[i], schemas)
  /\ phase \in {"schemas", "done"} =>
       \A k \in Wanted : k \in todo \/ IsWellKnown(k.message) \/ k \in DOMAIN schemas

(* What is selected of a sequence, and what FieldsOf keeps of a message.   *)
LEMMA SelectedRange ==
  ASSUME NEW S, NEW s, s \in Seq(S), NEW I \in SUBSET DOMAIN s
  PROVE  Range(Selected(s, I)) = {s[i] : i \in I}
<1> DEFINE t == Selected(s, I)
<1>1. DOMAIN t = 1..Cardinality(I)
  BY SelectedType
<1>2. /\ \A n \in 1..Cardinality(I) : Nth(I, n) \in I /\ t[n] = s[Nth(I, n)]
      /\ \A i \in I : Rank(I, i) + 1 \in 1..Cardinality(I) /\ t[Rank(I, i) + 1] = s[i]
  BY SelectedElements
<1> HIDE DEF t
<1>3. QED
  BY <1>1, <1>2 DEF Range, t

LEMMA OwnRange ==
  ASSUME NEW S, NEW s \in Seq(S)
  PROVE  s \in Seq(Range(s))
<1>1. Len(s) \in Nat /\ DOMAIN s = 1..Len(s) /\ s = [i \in 1..Len(s) |-> s[i]]
  OBVIOUS
<1>2. \A i \in 1..Len(s) : s[i] \in Range(s)
  BY <1>1 DEF Range
<1>3. QED
  BY <1>1, <1>2

LEMMA RangeOfConcat ==
  ASSUME NEW S, NEW s \in Seq(S), NEW t \in Seq(S)
  PROVE  s \o t \in Seq(S) /\ Range(s \o t) = Range(s) \cup Range(t)
<1> DEFINE m == Len(s)
           n == Len(t)
<1>1. /\ m \in Nat /\ n \in Nat /\ DOMAIN s = 1..m /\ DOMAIN t = 1..n
      /\ DOMAIN (s \o t) = 1..(m + n)
      /\ \A i \in 1..m : (s \o t)[i] = s[i]
      /\ \A i \in 1..(m + n) : i > m => (s \o t)[i] = t[i - m]
  OBVIOUS
<1>2. \A i \in 1..n : i + m \in 1..(m + n) /\ (s \o t)[i + m] = t[i]
  BY <1>1
<1>3. \A i \in 1..(m + n) : i \in 1..m \/ (i > m /\ i - m \in 1..n)
  BY <1>1
<1>4. \A i \in 1..m : i \in 1..(m + n)
  BY <1>1
<1>5. s \o t \in Seq(S)
  OBVIOUS
<1> DEFINE u == s \o t
<1> HIDE DEF u, m, n
<1>6. Range(u) = Range(s) \cup Range(t)
  <2>1. /\ DOMAIN s = 1..m /\ DOMAIN t = 1..n /\ DOMAIN u = 1..(m + n)
        /\ \A i \in 1..m : u[i] = s[i]
        /\ \A i \in 1..n : u[i + m] = t[i]
        /\ \A i \in 1..(m + n) : i > m => u[i] = t[i - m]
    BY <1>1, <1>2 DEF u
  <2>2. Range(s) \subseteq Range(u)
    BY <1>4, <2>1 DEF Range
  <2>3. Range(t) \subseteq Range(u)
    BY <1>2, <2>1 DEF Range
  <2>4. Range(u) \subseteq Range(s) \cup Range(t)
    BY <1>3, <2>1 DEF Range
  <2>5. QED
    BY <2>2, <2>3, <2>4
<1>7. QED
  BY <1>5, <1>6 DEF u

LEMMA MessageTyped ==
  ASSUME NEW m \in Messages
  PROVE  /\ MessageFields[m] \in Seq(FieldType)
         /\ \A f \in Range(MessageFields[m]) : f.kind = "message" => f.type \in Messages
<1>1. MessageFields[m] \in Seq(FieldType)
  BY MessagesAssumption
<1>2. \A f \in Range(MessageFields[m]) : f.kind = "message" => f.type \in Messages
  BY MessagesAssumption
<1>3. QED
  BY <1>1, <1>2

LEMMA FieldsKept ==
  ASSUME NEW m \in Messages, NEW filter
  PROVE  LET fs == Range(MessageFields[m]) IN
         /\ fs \subseteq FieldType
         /\ \A f \in fs : f.kind = "message" => f.type \in Messages
         /\ FieldsOf(m, filter) \in Seq(Range(FieldsOf(m, filter)))
         /\ Range(FieldsOf(m, filter)) = {f \in fs : ~Filtered(f, filter) \/ InRealOneOf(f)}
<1> DEFINE fs == MessageFields[m]
           unfiltered == {i \in DOMAIN fs : ~Filtered(fs[i], filter)}
           I == {i \in unfiltered : fs[i].oneof = ""}
           J == {i \in unfiltered : fs[i].synthetic}
           K == {i \in DOMAIN fs : InRealOneOf(fs[i])}
           a == Selected(fs, I)
           b == Selected(fs, J)
           c == Selected(fs, K)
<1>1. /\ fs \in Seq(FieldType)
      /\ \A f \in Range(fs) : f.kind = "message" => f.type \in Messages
  BY MessageTyped
<1>2. Range(fs) \subseteq FieldType /\ \A f \in Range(fs) : f.kind = "message" => f.type \in Messages
  BY <1>1 DEF Range
<1>3. \A i \in DOMAIN fs : fs[i].oneof = "" \/ fs[i].synthetic \/ InRealOneOf(fs[i])
  BY DEF InRealOneOf
<1>4. FieldsOf(m, filter) = a \o b \o c
  BY DEF FieldsOf
<1> HIDE DEF fs
<1>5. I \in SUBSET DOMAIN fs /\ J \in SUBSET DOMAIN fs /\ K \in SUBSET DOMAIN fs
  OBVIOUS
<1>6. /\ a \in Seq(FieldType) /\ Range(a) = {fs[i] : i \in I}
      /\ b \in Seq(FieldType) /\ Range(b) = {fs[i] : i \in J}
      /\ c \in Seq(FieldType) /\ Range(c) = {fs[i] : i \in K}
  <2> HIDE DEF I, J, K
  <2>1. QED
    BY <1>1, <1>5, SelectedRange, SelectedType
<1> DEFINE t == a \o b \o c
<1>7. t \in Seq(FieldType) /\ Range(t) = Range(a) \cup Range(b) \cup Range(c)
  <2>1. /\ a \in Seq(FieldType) /\ b \in Seq(FieldType) /\ c \in Seq(FieldType)
    BY <1>6
  <2> HIDE DEF a, b, c
  <2> DEFINE ab == a \o b
  <2>2. ab \in Seq(FieldType) /\ Range(ab) = Range(a) \cup Range(b)
    BY <2>1, RangeOfConcat
  <2> HIDE DEF ab
  <2>3. ab \o c \in Seq(FieldType) /\ Range(ab \o c) = Range(ab) \cup Range(c)
    BY <2>1, <2>2, RangeOfConcat
  <2>4. QED
    BY <2>2, <2>3 DEF ab
<1>8. Range(t) = {f \in Range(fs) : ~Filtered(f, filter) \/ InRealOneOf(f)}
  <2>1. Range(t) = {fs[i] : i \in I} \cup {fs[i] : i \in J} \cup {fs[i] : i \in K}
    BY <1>6, <1>7
  <2> HIDE DEF t
  <2>2. Range(fs) = {fs[i] : i \in DOMAIN fs}
    BY DEF Range
  <2>3. QED
    BY <1>3, <2>1, <2>2
<1>9. t \in Seq(Range(t))
  <2> HIDE DEF t
  <2>1. QED
    BY <1>7, OwnRange
<1>10. QED
  BY <1>2, <1>4, <1>8, <1>9 DEF fs

(* What sc.Message does with a message: there is a schema for it after it, *)
(* and what was complete is as it was.                                     *)
LEMMA MessageGoes ==
  ASSUME NEW s, NEW key, Balanced(s, schemas), Message(key, s)
  PROVE  /\ DOMAIN schemas \subseteq DOMAIN schemas'
         /\ DOMAIN schemas' \subseteq DOMAIN schemas \cup {key}
         /\ IsWellKnown(key.message) \/ key \in DOMAIN schemas'
         /\ \A k \in DOMAIN schemas' : ~schemas'[k].open =>
              k \in DOMAIN schemas /\ ~schemas[k].open /\ schemas'[k] = schemas[k]
         /\ stack' = s \/ stack' = Append(s, Frame(key))
<1>1. CASE IsWellKnown(key.message) \/ key \in DOMAIN schemas
  BY <1>1 DEF Message
<1>2. CASE ~(IsWellKnown(key.message) \/ key \in DOMAIN schemas)
  <2>1. stack' = Append(s, Frame(key)) /\ schemas' = Placed(key)
    BY <1>2 DEF Message
  <2>2. /\ DOMAIN schemas' = DOMAIN schemas \cup {key}
        /\ schemas'[key] = Placeholder
        /\ \A k \in DOMAIN schemas : schemas'[k] = schemas[k]
    BY <2>1, <1>2 DEF Placed
  <2>3. Placeholder.open = TRUE
    BY DEF Placeholder
  <2>4. QED
    BY <2>1, <2>2, <2>3
<1>3. QED
  BY <1>1, <1>2

(* A step that renders changes none of the filters.                        *)
LEMMA OwnStays ==
  ASSUME parameters' = parameters
  PROVE  \A key : Own(key)' = Own(key) /\ Object(key)' = Object(key)
BY DEF Own, Object, FilterOf, InputFilter

LEMMA FiltersStay ==
  ASSUME parameters' = parameters
  PROVE  /\ \A k, ss : Complete(k, ss)' <=> Complete(k, ss)
         /\ \A frame, ss : Underway(frame, ss)' <=> Underway(frame, ss)
<1>1. \A key : Own(key)' = Own(key) /\ Object(key)' = Object(key)
  BY OwnStays
<1>2. QED
  BY <1>1 DEF Complete, Underway, Met

(* More schemas, and all is met that was.                                  *)
LEMMA MetStays ==
  ASSUME NEW ss, NEW tt, DOMAIN ss \subseteq DOMAIN tt
  PROVE  /\ \A f : Met(f, ss) => Met(f, tt)
         /\ \A frame : Underway(frame, ss) => Underway(frame, tt)
         /\ \A k : Complete(k, ss) /\ tt[k] = ss[k] => Complete(k, tt)
<1>1. \A f : Met(f, ss) => Met(f, tt)
  BY DEF Met
<1>2. QED
  BY <1>1 DEF Underway, Complete

(* A message just opened has all its fields left.                          *)
LEMMA FrameUnderway ==
  ASSUME NEW key \in KeyType
  PROVE  \A ss : Underway(Frame(key), ss)
<1> DEFINE fields == FieldsOf(key.message, FilterOf(key))
<1>1. Frame(key).key = key /\ Frame(key).left = fields
  BY DEF Frame
<1>2. fields \in Seq(Range(fields))
  BY FieldsKept DEF KeyType
<1>3. Own(key) = Range(fields)
  BY DEF Own
<1> HIDE DEF fields
<1>4. QED
  BY <1>1, <1>2, <1>3 DEF Underway

(* What is on the stack after sc.Message: s, and the message if it was     *)
(* opened.                                                                 *)
LEMMA StackGoes ==
  ASSUME NEW s, Frames(s), NEW key \in KeyType, NEW t, t = s \/ t = Append(s, Frame(key)),
         NEW ss, \A i \in DOMAIN s : Underway(s[i], ss)
  PROVE  \A i \in DOMAIN t : Underway(t[i], ss)
<1>1. CASE t = s
  BY <1>1
<1>2. CASE t = Append(s, Frame(key))
  <2>1. s \in Seq(Range(s))
    BY DEF Frames
  <2>2. /\ DOMAIN t = DOMAIN s \cup {Len(s) + 1} /\ \A i \in DOMAIN s : t[i] = s[i]
        /\ t[Len(s) + 1] = Frame(key)
    BY <1>2, <2>1
  <2>3. Underway(Frame(key), ss)
    BY FrameUnderway
  <2>4. QED
    BY <2>2, <2>3
<1>3. QED
  BY <1>1, <1>2

LEMMA SchemasInit == Init => SInv
<1> SUFFICES ASSUME Init PROVE SInv
  OBVIOUS
<1>1. /\ op \in OperationSet /\ phase = "entities" /\ stack = <<>> /\ todo = {}
      /\ schemas = <<>>
  BY DEF Init
<1>2. DOMAIN <<>> = {}
  OBVIOUS
<1>3. QED
  BY <1>1, <1>2 DEF SInv, Idle, Phases

(* The steps that render: they leave the phase and the parameters alone.   *)
LEMMA SchemasRendered ==
  ASSUME SInv, phase = "schemas",
         UNCHANGED <<op, phase, parameters>>,
         todo' \subseteq todo,
         DOMAIN schemas \subseteq DOMAIN schemas', DOMAIN schemas' \subseteq KeyType,
         \A k \in todo : k \in todo' \/ IsWellKnown(k.message) \/ k \in DOMAIN schemas',
         \A k \in DOMAIN schemas' : ~schemas'[k].open => Complete(k, schemas'),
         \A i \in DOMAIN stack' : Underway(stack'[i], schemas')
  PROVE  SInv'
<1>1. Wanted' = Wanted
  BY DEF Wanted
<1>2. op' \in OperationSet /\ phase' = "schemas" /\ phase' \in Phases
  BY DEF SInv
<1>3. todo' \cup DOMAIN schemas' \subseteq KeyType
  BY DEF SInv
<1>4. \A k \in Wanted' : k \in todo' \/ IsWellKnown(k.message) \/ k \in DOMAIN schemas'
  BY <1>1 DEF SInv
<1>5. /\ \A k, ss : Complete(k, ss)' <=> Complete(k, ss)
      /\ \A frame, ss : Underway(frame, ss)' <=> Underway(frame, ss)
  BY FiltersStay
<1>6. QED
  BY <1>2, <1>3, <1>4, <1>5 DEF SInv

LEMMA SchemasNext == IInv /\ SInv /\ [Next]_vars => SInv'
<1> SUFFICES ASSUME IInv, SInv, [Next]_vars PROVE SInv'
  OBVIOUS
<1>1. IInv' /\ Settled
  BY StepBalanced
<1>2. todo \subseteq KeyType /\ DOMAIN schemas \subseteq KeyType
  BY DEF SInv
<1>3. ASSUME UNCHANGED <<op, parameters, todo, schemas, stack>>,
             phase' \in Phases, phase' \in {"schemas", "done"} <=> phase \in {"schemas", "done"},
             phase' = "done" => Idle
      PROVE  SInv'
  <2>1. \A k \in DOMAIN schemas : Complete(k, schemas) => Complete(k, schemas')
    BY <1>3, MetStays
  <2>2. \A frame : Underway(frame, schemas) => Underway(frame, schemas')
    BY <1>3, MetStays
  <2>3. Wanted' = Wanted /\ Idle' = Idle
    BY <1>3 DEF Wanted, Idle
  <2>4. \A k \in DOMAIN schemas' : ~schemas'[k].open => Complete(k, schemas')
    BY <1>3, <2>1 DEF SInv
  <2>5. \A i \in DOMAIN stack' : Underway(stack'[i], schemas')
    BY <1>3, <2>2 DEF SInv
  <2>6. /\ \A k, ss : Complete(k, ss)' <=> Complete(k, ss)
        /\ \A frame, ss : Underway(frame, ss)' <=> Underway(frame, ss)
    BY <1>3, FiltersStay
  <2>7. QED
    BY <1>3, <2>3, <2>4, <2>5, <2>6 DEF SInv
<1>4. CASE TerraformEntity
  BY <1>3, <1>4 DEF TerraformEntity, SInv
<1>5. CASE Extensions
  <2>1. /\ phase = "entities" /\ phase' \in {"panic", "failed", "parameters"}
        /\ UNCHANGED <<op, parameters, todo, schemas, stack>>
    BY <1>5 DEF Extensions
  <2>2. QED
    BY <1>3, <2>1 DEF Phases
<1>6. CASE Parameters
  <2>1. /\ phase = "parameters" /\ phase' = "schemas" /\ UNCHANGED <<op, schemas, stack>>
        /\ todo' = Wanted'
    BY <1>6 DEF Parameters, Wanted
  <2>2. stack = <<>> /\ schemas = <<>>
    BY <2>1 DEF SInv, Idle
  <2>3. DOMAIN schemas' = {} /\ DOMAIN stack' = {}
    BY <2>1, <2>2
  <2>4. op \in OperationSet /\ op.rpc.in \in Messages /\ op.rpc.out \in Messages
    BY OperationsAssumption DEF SInv
  <2>5. \A m \in Messages : Key(m, FALSE) \in KeyType /\ Key(m, TRUE) \in KeyType
    BY DEF Key, KeyType
  <2>6. Wanted' \subseteq KeyType
    <3>1. \/ Wanted' \subseteq {Key(op.rpc.out, FALSE), Key(op.rpc.in, TRUE)}
          \/ Wanted' \subseteq {Key(op.rpc.out, FALSE), Key(op.rpc.in, FALSE)}
      BY <2>1 DEF Wanted
    <3>2. QED
      BY <2>4, <2>5, <3>1
  <2>7. QED
    BY <2>1, <2>3, <2>4, <2>6 DEF SInv, Phases
<1>7. ASSUME NEW key \in todo, Track(key) PROVE SInv'
  <2>1. /\ phase = "schemas" /\ stack = <<>> /\ todo' = todo \ {key} /\ Message(key, stack)
        /\ UNCHANGED <<op, phase, parameters>>
    BY <1>7 DEF Track
  <2>2. /\ DOMAIN schemas \subseteq DOMAIN schemas'
        /\ DOMAIN schemas' \subseteq DOMAIN schemas \cup {key}
        /\ IsWellKnown(key.message) \/ key \in DOMAIN schemas'
        /\ \A k \in DOMAIN schemas' : ~schemas'[k].open =>
             k \in DOMAIN schemas /\ ~schemas[k].open /\ schemas'[k] = schemas[k]
        /\ stack' = stack \/ stack' = Append(stack, Frame(key))
    BY <2>1, MessageGoes DEF IInv
  <2>3. \A i \in DOMAIN stack' : Underway(stack'[i], schemas')
    <3>1. DOMAIN stack = {} /\ Frames(stack) /\ key \in KeyType
      BY <1>2, <2>1 DEF IInv, Balanced
    <3>2. QED
      BY <2>1, <2>2, <3>1, StackGoes
  <2>4. \A k \in DOMAIN schemas' : ~schemas'[k].open => Complete(k, schemas')
    BY <2>1, <2>2, MetStays DEF SInv
  <2>5. \A k \in todo : k \in todo' \/ IsWellKnown(k.message) \/ k \in DOMAIN schemas'
    BY <2>1, <2>2
  <2>6. QED
    BY <1>2, <2>1, <2>2, <2>3, <2>4, <2>5, SchemasRendered
<1>8. CASE RenderField
  <2> DEFINE top == [Top EXCEPT !.left = Tail(@)]
             f == Head(Top.left)
             key == Key(f.type, FALSE)
             s == Append(Rest, top)
  <2>1. /\ stack # <<>> /\ Top.left # <<>> /\ UNCHANGED <<op, phase, parameters, todo>>
        /\ IF f.kind = "message" THEN Message(key, s) ELSE stack' = s /\ UNCHANGED schemas
    BY <1>8 DEF RenderField
  <2>2. phase = "schemas"
    BY <2>1 DEF SInv, Idle
  <2>3. /\ stack \in Seq(Range(stack)) /\ Len(stack) \in Nat \ {0}
        /\ DOMAIN stack = 1..Len(stack)
        /\ DOMAIN Rest = 1..(Len(stack) - 1) /\ Len(Rest) = Len(stack) - 1
        /\ \A i \in 1..(Len(stack) - 1) : Rest[i] = stack[i]
        /\ Rest \in Seq(Range(stack))
    <3>1. stack \in Seq(Range(stack)) /\ Len(stack) \in Nat \ {0} /\ DOMAIN stack = 1..Len(stack)
      BY <2>1 DEF IInv, Balanced, Frames
    <3>2. QED
      BY <3>1 DEF Rest
  <2>4. Underway(Top, schemas) /\ DOMAIN Top = {"key", "left"}
    BY <2>3 DEF Top, SInv, IInv, Balanced, Frames
  <2>5. f \in Own(Top.key) /\ Tail(Top.left) \in Seq(Own(Top.key))
        /\ Range(Top.left) = {f} \cup Range(Tail(Top.left))
    <3> DEFINE left == Top.left
               O == Own(Top.key)
    <3>1. left \in Seq(O) /\ left # <<>>
      BY <2>1, <2>4 DEF Underway
    <3> HIDE DEF left, O
    <3>2. /\ Head(left) \in O /\ Tail(left) \in Seq(O)
          /\ Len(left) \in Nat \ {0} /\ DOMAIN left = 1..Len(left)
          /\ DOMAIN Tail(left) = 1..(Len(left) - 1)
          /\ Head(left) = left[1]
          /\ \A i \in 1..(Len(left) - 1) : Tail(left)[i] = left[i + 1]
      BY <3>1
    <3>3. \A i \in 1..Len(left) : i = 1 \/ i - 1 \in 1..(Len(left) - 1)
      BY <3>2
    <3>4. Range(left) = {Head(left)} \cup Range(Tail(left))
      <4>1. \A i \in 1..Len(left) : i # 1 => left[i] = Tail(left)[i - 1]
        BY <3>2, <3>3
      <4>2. \A i \in 1..(Len(left) - 1) : i + 1 \in 1..Len(left)
        BY <3>2
      <4> DEFINE rest == Tail(left)
                 first == Head(left)
                 n == Len(left)
      <4>3. /\ DOMAIN left = 1..n /\ DOMAIN rest = 1..(n - 1) /\ first = left[1] /\ 1 \in 1..n
            /\ \A i \in 1..n : i = 1 \/ (i - 1 \in 1..(n - 1) /\ left[i] = rest[i - 1])
            /\ \A i \in 1..(n - 1) : i + 1 \in 1..n /\ rest[i] = left[i + 1]
        BY <3>2, <3>3, <4>1, <4>2
      <4> HIDE DEF rest, first, n
      <4>4. Range(left) \subseteq {first} \cup Range(rest)
        BY <4>3 DEF Range
      <4>5. Range(rest) \subseteq Range(left) /\ first \in Range(left)
        BY <4>3 DEF Range
      <4>6. QED
        BY <4>4, <4>5 DEF rest, first
    <3>5. QED
      BY <3>2, <3>4 DEF left, O
  <2>6. /\ Top.key \in KeyType
        /\ f.kind = "message" => key \in KeyType
    <3>1. Top.key \in StackKeys(stack)
      BY <2>3 DEF Top, StackKeys
    <3>2. Top.key \in KeyType
      BY <1>2, <3>1 DEF IInv, Balanced, OpenKeys
    <3>3. f.kind = "message" => f.type \in Messages
      BY <2>5, <3>2, FieldsKept DEF Own, KeyType
    <3>4. QED
      BY <3>2, <3>3 DEF Key, KeyType
  <2>7. Balanced(s, schemas)
    <3>1. Top.key \in StackKeys(stack) /\ StackKeys(Rest) = StackKeys(stack) \ {Top.key}
          /\ Frames(Rest) /\ Distinct(Rest)
      BY <2>1, FramesPopped DEF IInv, Balanced
    <3>2. DOMAIN top = {"key", "left"} /\ top.key = Top.key
      BY <2>4
    <3> HIDE DEF top
    <3>3. Frames(s) /\ Distinct(s) /\ StackKeys(s) = StackKeys(Rest) \cup {top.key}
      BY <3>1, <3>2, FramesAppended
    <3>4. StackKeys(s) = StackKeys(stack)
      BY <3>1, <3>2, <3>3
    <3>5. QED
      BY <3>3, <3>4 DEF IInv, Balanced
  <2>8. /\ DOMAIN schemas \subseteq DOMAIN schemas'
        /\ DOMAIN schemas' \subseteq KeyType
        /\ f.kind = "message" => IsWellKnown(key.message) \/ key \in DOMAIN schemas'
        /\ \A k \in DOMAIN schemas' : ~schemas'[k].open =>
             k \in DOMAIN schemas /\ ~schemas[k].open /\ schemas'[k] = schemas[k]
        /\ stack' = s \/ (f.kind = "message" /\ stack' = Append(s, Frame(key)))
    <3> HIDE DEF s, f, key
    <3>1. CASE f.kind = "message"
      <4>1. Message(key, s)
        BY <2>1, <3>1
      <4>2. /\ DOMAIN schemas \subseteq DOMAIN schemas'
            /\ DOMAIN schemas' \subseteq DOMAIN schemas \cup {key}
            /\ IsWellKnown(key.message) \/ key \in DOMAIN schemas'
            /\ \A k \in DOMAIN schemas' : ~schemas'[k].open =>
                 k \in DOMAIN schemas /\ ~schemas[k].open /\ schemas'[k] = schemas[k]
            /\ stack' = s \/ stack' = Append(s, Frame(key))
        BY <2>7, <4>1, MessageGoes
      <4>3. QED
        BY <1>2, <2>6, <3>1, <4>2
    <3>2. CASE f.kind # "message"
      BY <1>2, <2>1, <3>2
    <3>3. QED
      BY <3>1, <3>2
  <2>9. Met(f, schemas')
    <3>1. key.message = f.type
      BY DEF Key
    <3>2. QED
      BY <2>8, <3>1 DEF Met
  <2>10. Underway(top, schemas')
    <3>1. top.key = Top.key /\ top.left = Tail(Top.left)
      BY <2>4
    <3>2. \A g : Met(g, schemas) => Met(g, schemas')
      BY <2>8, MetStays
    <3>3. \A g \in Own(Top.key) : g \in Range(Tail(Top.left)) \/ Met(g, schemas')
      BY <2>4, <2>5, <2>9, <3>2 DEF Underway
    <3> HIDE DEF top, f
    <3>4. QED
      BY <2>5, <3>1, <3>3 DEF Underway
  <2>11. \A i \in DOMAIN s : Underway(s[i], schemas')
    <3>1. \A frame : Underway(frame, schemas) => Underway(frame, schemas')
      BY <2>1, <2>8, MetStays
    <3>2. /\ DOMAIN s = DOMAIN Rest \cup {Len(Rest) + 1}
          /\ \A i \in DOMAIN Rest : s[i] = Rest[i]
          /\ s[Len(Rest) + 1] = top
      <4> HIDE DEF top
      <4>1. QED
        BY <2>3
    <3>3. \A i \in DOMAIN Rest : Underway(Rest[i], schemas)
      BY <2>3 DEF SInv
    <3> HIDE DEF s, top
    <3>4. QED
      BY <2>10, <3>1, <3>2, <3>3
  <2>12. \A i \in DOMAIN stack' : Underway(stack'[i], schemas')
    <3> HIDE DEF s, f, key
    <3>1. CASE stack' = s
      BY <2>11, <3>1
    <3>2. CASE f.kind = "message" /\ stack' = Append(s, Frame(key))
      <4>1. Frames(s) /\ key \in KeyType
        BY <2>6, <2>7, <3>2 DEF Balanced
      <4>2. QED
        BY <2>11, <3>2, <4>1, StackGoes
    <3>3. QED
      BY <2>8, <3>1, <3>2
  <2>13. \A k \in DOMAIN schemas' : ~schemas'[k].open => Complete(k, schemas')
    BY <2>1, <2>8, MetStays DEF SInv
  <2>14. QED
    BY <2>1, <2>2, <2>8, <2>12, <2>13, SchemasRendered
<1>9. CASE Close
  <2>1. /\ stack # <<>> /\ Top.left = <<>> /\ stack' = Rest
        /\ schemas' = [schemas EXCEPT ![Top.key] = Object(Top.key)]
        /\ UNCHANGED <<op, phase, parameters, todo>>
    BY <1>9 DEF Close
  <2>2. phase = "schemas"
    BY <2>1 DEF SInv, Idle
  <2>3. /\ Len(stack) \in Nat \ {0} /\ DOMAIN stack = 1..Len(stack)
        /\ DOMAIN Rest = 1..(Len(stack) - 1)
        /\ \A i \in 1..(Len(stack) - 1) : Rest[i] = stack[i]
    BY <2>1 DEF IInv, Balanced, Frames, Rest
  <2>4. Underway(Top, schemas) /\ Top.key \in DOMAIN schemas
    <3>1. Top \in Range(stack) /\ Underway(Top, schemas)
      BY <2>3 DEF Top, SInv, Range
    <3>2. Top.key \in StackKeys(stack)
      BY <2>3 DEF Top, StackKeys
    <3>3. QED
      BY <3>1, <3>2 DEF IInv, Balanced, OpenKeys
  <2>5. /\ DOMAIN schemas' = DOMAIN schemas
        /\ schemas'[Top.key] = Object(Top.key)
        /\ \A k \in DOMAIN schemas \ {Top.key} : schemas'[k] = schemas[k]
    BY <2>1, <2>4 DEF IInv, Balanced, Tracked
  <2>6. \A f \in Own(Top.key) : Met(f, schemas)
    <3>1. Range(<<>>) = {}
      BY DEF Range
    <3>2. QED
      BY <2>1, <2>4, <3>1 DEF Underway
  <2>7. \A f \in Own(Top.key) : Met(f, schemas')
    BY <2>5, <2>6, MetStays
  <2>8. ASSUME NEW k \in DOMAIN schemas', ~schemas'[k].open PROVE Complete(k, schemas')
    <3>1. CASE k = Top.key
      BY <2>5, <2>7, <3>1 DEF Complete
    <3>2. CASE k # Top.key
      <4>1. k \in DOMAIN schemas /\ schemas'[k] = schemas[k]
        BY <2>5, <2>8, <3>2
      <4>2. Complete(k, schemas)
        BY <2>8, <4>1 DEF SInv
      <4>3. QED
        BY <2>5, <4>1, <4>2, MetStays
    <3>3. QED
      BY <3>1, <3>2
  <2>9. \A i \in DOMAIN stack' : Underway(stack'[i], schemas')
    <3>1. \A frame : Underway(frame, schemas) => Underway(frame, schemas')
      BY <2>1, <2>5, MetStays
    <3>2. \A i \in 1..Len(stack) : Underway(stack[i], schemas)
      BY <2>3 DEF SInv
    <3>3. \A i \in DOMAIN Rest : Underway(Rest[i], schemas')
      BY <2>3, <3>1, <3>2
    <3>4. stack' = Rest
      BY <2>1
    <3>5. QED
      BY <3>3, <3>4
  <2>10. QED
    BY <1>2, <2>1, <2>2, <2>5, <2>8, <2>9, SchemasRendered
<1>10. CASE Finish
  BY <1>3, <1>10 DEF Finish, Idle, Phases
<1>11. CASE UNCHANGED vars
  BY <1>3, <1>11 DEF vars, SInv
<1>12. QED
  BY <1>4, <1>5, <1>6, <1>7, <1>8, <1>9, <1>10, <1>11 DEF Next

LEMMA SchemasAlways == Spec => [](IInv /\ SInv)
<1>1. Init => IInv /\ SInv
  BY InitBalanced, SchemasInit
<1>2. IInv /\ SInv /\ [Next]_vars => (IInv /\ SInv)'
  BY StepBalanced, SchemasNext
<1>3. QED
  BY <1>1, <1>2, PTL DEF Spec
-----------------------------------------------------------------------------
(* What a field's schema admits.  The options and the null that are        *)
(* written on a schema take no JSON type away.                             *)
JSONParts == {"types", "items", "ref"}

LEMMA SchemaKeeps ==
  ASSUME NEW f, NEW s, JSONParts \subseteq DOMAIN s
  PROVE  /\ Annotated(f, s).types = s.types
         /\ Annotated(f, s).items = s.items
         /\ Annotated(f, s).ref = s.ref
         /\ Null(s).types = s.types \cup {"null"}
         /\ Null(s).items = s.items
         /\ Null(s).ref = s.ref
         /\ JSONParts \subseteq DOMAIN Null(s)
         /\ s.types \subseteq applyNullable(f, s).types
         /\ applyNullable(f, s).items = s.items
         /\ applyNullable(f, s).ref = s.ref
         /\ JSONParts \subseteq DOMAIN applyNullable(f, s)
<1>1. /\ Null(s).types = s.types \cup {"null"}
      /\ Null(s).items = s.items
      /\ Null(s).ref = s.ref
      /\ DOMAIN Null(s) = DOMAIN s
  BY DEF Null, JSONParts
<1>2. /\ Annotated(f, s).types = s.types
      /\ Annotated(f, s).items = s.items
      /\ Annotated(f, s).ref = s.ref
  <2> DEFINE a == getReadOnlySpec(f)
             b == f.deprecated \/ getFieldDeprecation(f) # "none"
             c == getFieldStability(f)
             d == Sunset(getFieldDeprecation(f))
             e == annotationBag(f)
  <2>1. Annotated(f, s) = [s EXCEPT !.readOnly = a, !.deprecated = b, !.stability = c,
                                    !.sunset = d, !.bag = e]
    BY DEF Annotated
  <2> HIDE DEF a, b, c, d, e
  <2>2. QED
    BY <2>1 DEF JSONParts
<1>3. /\ s.types \subseteq applyNullable(f, s).types
      /\ applyNullable(f, s).items = s.items
      /\ applyNullable(f, s).ref = s.ref
      /\ DOMAIN applyNullable(f, s) = DOMAIN s
  BY <1>1 DEF applyNullable
<1>4. QED
  BY <1>1, <1>2, <1>3

(* The types of json that neither these types nor a $ref admit.            *)
Wanting(types, json) ==
  {type \in json : type \notin types /\ (type = "integer" => "number" \notin types)}

LEMMA PlainAdmits ==
  ASSUME NEW s, s.ref = "", NEW json
  PROVE  Unadmitted(s, json) = Wanting(s.types, json)
BY DEF Unadmitted, Wanting, Admits

LEMMA PlainSchema ==
  \A types : /\ Schema(types).types = types /\ Schema(types).ref = ""
             /\ JSONParts \subseteq DOMAIN Schema(types)
BY DEF Schema, JSONParts

LEMMA ScalarAdmitted ==
  ASSUME NEW kind \in Scalars
  PROVE  LET s == schemaForScalar(kind) IN
         /\ Unadmitted(s, ScalarJSON(kind))
              = IF kind \in {"double", "float"} THEN {"string"} ELSE {}
         /\ "null" \notin s.types /\ s.ref = ""
         /\ JSONParts \subseteq DOMAIN s
<1> DEFINE s == schemaForScalar(kind)
           json == ScalarJSON(kind)
<1>1. CASE kind \in {"double", "float"}
  <2>1. s = Schema({"number"}) /\ json = {"number", "string"}
    BY <1>1 DEF schemaForScalar, ScalarJSON
  <2>2. s.types = {"number"} /\ s.ref = "" /\ JSONParts \subseteq DOMAIN s
    BY <2>1, PlainSchema
  <2>3. Wanting({"number"}, {"number", "string"}) = {"string"}
    BY DEF Wanting
  <2>4. kind \in {"double", "float"}
    BY <1>1
  <2> HIDE DEF s, json
  <2>5. Unadmitted(s, json) = {"string"}
    BY <2>1, <2>2, <2>3, PlainAdmits
  <2>6. QED
    BY <2>2, <2>4, <2>5 DEF s, json
<1>2. CASE kind \in {"int64", "sfixed64", "sint64"}
  <2>1. s = Formatted({"string"}, "int64") /\ json = {"string"}
    BY <1>2 DEF schemaForScalar, ScalarJSON
  <2>2. s.types = {"string"} /\ s.ref = "" /\ JSONParts \subseteq DOMAIN s
    BY <2>1 DEF Schema, Formatted, JSONParts
  <2>3. Wanting({"string"}, {"string"}) = {}
    BY DEF Wanting
  <2>4. ~(kind \in {"double", "float"})
    BY <1>2
  <2> HIDE DEF s, json
  <2>5. Unadmitted(s, json) = {}
    BY <2>1, <2>2, <2>3, PlainAdmits
  <2>6. QED
    BY <2>2, <2>4, <2>5 DEF s, json
<1>3. CASE kind \in {"int32", "sfixed32", "sint32"}
  <2>1. s = Formatted({"integer"}, "int32") /\ json = {"integer"}
    BY <1>3 DEF schemaForScalar, ScalarJSON
  <2>2. s.types = {"integer"} /\ s.ref = "" /\ JSONParts \subseteq DOMAIN s
    BY <2>1 DEF Schema, Formatted, JSONParts
  <2>3. Wanting({"integer"}, {"integer"}) = {}
    BY DEF Wanting
  <2>4. ~(kind \in {"double", "float"})
    BY <1>3
  <2> HIDE DEF s, json
  <2>5. Unadmitted(s, json) = {}
    BY <2>1, <2>2, <2>3, PlainAdmits
  <2>6. QED
    BY <2>2, <2>4, <2>5 DEF s, json
<1>4. CASE kind \in {"uint64", "fixed64"}
  <2>1. s = Formatted({"string"}, "uint64") /\ json = {"string"}
    BY <1>4 DEF schemaForScalar, ScalarJSON
  <2>2. s.types = {"string"} /\ s.ref = "" /\ JSONParts \subseteq DOMAIN s
    BY <2>1 DEF Schema, Formatted, JSONParts
  <2>3. Wanting({"string"}, {"string"}) = {}
    BY DEF Wanting
  <2>4. ~(kind \in {"double", "float"})
    BY <1>4
  <2> HIDE DEF s, json
  <2>5. Unadmitted(s, json) = {}
    BY <2>1, <2>2, <2>3, PlainAdmits
  <2>6. QED
    BY <2>2, <2>4, <2>5 DEF s, json
<1>5. CASE kind \in {"uint32", "fixed32"}
  <2>1. s = Formatted({"integer"}, "uint32") /\ json = {"integer"}
    BY <1>5 DEF schemaForScalar, ScalarJSON
  <2>2. s.types = {"integer"} /\ s.ref = "" /\ JSONParts \subseteq DOMAIN s
    BY <2>1 DEF Schema, Formatted, JSONParts
  <2>3. Wanting({"integer"}, {"integer"}) = {}
    BY DEF Wanting
  <2>4. ~(kind \in {"double", "float"})
    BY <1>5
  <2> HIDE DEF s, json
  <2>5. Unadmitted(s, json) = {}
    BY <2>1, <2>2, <2>3, PlainAdmits
  <2>6. QED
    BY <2>2, <2>4, <2>5 DEF s, json
<1>6. CASE kind = "string"
  <2>1. s = Schema({"string"}) /\ json = {"string"}
    BY <1>6 DEF schemaForScalar, ScalarJSON
  <2>2. s.types = {"string"} /\ s.ref = "" /\ JSONParts \subseteq DOMAIN s
    BY <2>1, PlainSchema
  <2>3. Wanting({"string"}, {"string"}) = {}
    BY DEF Wanting
  <2>4. ~(kind \in {"double", "float"})
    BY <1>6
  <2> HIDE DEF s, json
  <2>5. Unadmitted(s, json) = {}
    BY <2>1, <2>2, <2>3, PlainAdmits
  <2>6. QED
    BY <2>2, <2>4, <2>5 DEF s, json
<1>7. CASE kind = "bytes"
  <2>1. s = Formatted({"string"}, "base64") /\ json = {"string"}
    BY <1>7 DEF schemaForScalar, ScalarJSON
  <2>2. s.types = {"string"} /\ s.ref = "" /\ JSONParts \subseteq DOMAIN s
    BY <2>1 DEF Schema, Formatted, JSONParts
  <2>3. Wanting({"string"}, {"string"}) = {}
    BY DEF Wanting
  <2>4. ~(kind \in {"double", "float"})
    BY <1>7
  <2> HIDE DEF s, json
  <2>5. Unadmitted(s, json) = {}
    BY <2>1, <2>2, <2>3, PlainAdmits
  <2>6. QED
    BY <2>2, <2>4, <2>5 DEF s, json
<1>8. CASE kind = "bool"
  <2>1. s = Schema({"boolean"}) /\ json = {"boolean"}
    BY <1>8 DEF schemaForScalar, ScalarJSON
  <2>2. s.types = {"boolean"} /\ s.ref = "" /\ JSONParts \subseteq DOMAIN s
    BY <2>1, PlainSchema
  <2>3. Wanting({"boolean"}, {"boolean"}) = {}
    BY DEF Wanting
  <2>4. ~(kind \in {"double", "float"})
    BY <1>8
  <2> HIDE DEF s, json
  <2>5. Unadmitted(s, json) = {}
    BY <2>1, <2>2, <2>3, PlainAdmits
  <2>6. QED
    BY <2>2, <2>4, <2>5 DEF s, json
<1>9. QED
  BY <1>1, <1>2, <1>3, <1>4, <1>5, <1>6, <1>7, <1>8 DEF Scalars

LEMMA WellKnownAdmitted ==
  ASSUME NEW m \in WellKnown
  PROVE  LET s == schemaForWKT(ShortName[m]) IN
         /\ Unadmitted(s, MessageJSON(m))
              = IF ShortName[m] \in {"DoubleValue", "FloatValue"} THEN {"string"} ELSE {}
         /\ s.ref = ""
         /\ JSONParts \subseteq DOMAIN s
<1> DEFINE name == ShortName[m]
           s == schemaForWKT(name)
           T == IF name = "Value" THEN {"string", "number", "object", "array", "boolean", "null"}
                ELSE IF name \in {"Any", "Struct", "Empty"} THEN {"object"}
                ELSE IF name = "ListValue" THEN {"array"}
                ELSE IF name \in {"DoubleValue", "FloatValue"} THEN {"number", "string"}
                ELSE IF name \in {"Int32Value", "UInt32Value"} THEN {"integer"}
                ELSE IF name = "BoolValue" THEN {"boolean"} ELSE {"string"}
           Fits(odd) == /\ Wanting(s.types, T) = odd
                        /\ s.ref = "" /\ JSONParts \subseteq DOMAIN s
<1>1. name \in WellKnownNames
  BY NamesAssumption
<1>2. MessageJSON(m) = T
  <2> HIDE DEF T
  <2>1. QED
    BY DEF MessageJSON, T
<1> HIDE DEF name
<1>3. Fits(IF name \in {"DoubleValue", "FloatValue"} THEN {"string"} ELSE {})
  <2>1. CASE name = "Any"
    <3>1. s = Schema({"object"}) /\ T = {"object"}
      BY <2>1 DEF schemaForWKT
    <3>2. Wanting({"object"}, {"object"}) = {}
      BY DEF Wanting
    <3>3. s.types = {"object"} /\ s.ref = "" /\ JSONParts \subseteq DOMAIN s
      BY <3>1, PlainSchema
    <3> HIDE DEF s, T
    <3>4. Fits({})
      BY <3>1, <3>2, <3>3
    <3> HIDE DEF Fits
    <3>5. QED
      BY <2>1, <3>4
  <2>2. CASE name = "Struct"
    <3>1. s = Schema({"object"}) /\ T = {"object"}
      BY <2>2 DEF schemaForWKT
    <3>2. Wanting({"object"}, {"object"}) = {}
      BY DEF Wanting
    <3>3. s.types = {"object"} /\ s.ref = "" /\ JSONParts \subseteq DOMAIN s
      BY <3>1, PlainSchema
    <3> HIDE DEF s, T
    <3>4. Fits({})
      BY <3>1, <3>2, <3>3
    <3> HIDE DEF Fits
    <3>5. QED
      BY <2>2, <3>4
  <2>3. CASE name = "Duration"
    <3>1. s = Formatted({"string"}, "duration") /\ T = {"string"}
      BY <2>3 DEF schemaForWKT
    <3>2. Wanting({"string"}, {"string"}) = {}
      BY DEF Wanting
    <3>3. s.types = {"string"} /\ s.ref = "" /\ JSONParts \subseteq DOMAIN s
      BY <3>1 DEF Schema, Formatted, JSONParts
    <3> HIDE DEF s, T
    <3>4. Fits({})
      BY <3>1, <3>2, <3>3
    <3> HIDE DEF Fits
    <3>5. QED
      BY <2>3, <3>4
  <2>4. CASE name = "Timestamp"
    <3>1. s = Formatted({"string"}, "date-time") /\ T = {"string"}
      BY <2>4 DEF schemaForWKT
    <3>2. Wanting({"string"}, {"string"}) = {}
      BY DEF Wanting
    <3>3. s.types = {"string"} /\ s.ref = "" /\ JSONParts \subseteq DOMAIN s
      BY <3>1 DEF Schema, Formatted, JSONParts
    <3> HIDE DEF s, T
    <3>4. Fits({})
      BY <3>1, <3>2, <3>3
    <3> HIDE DEF Fits
    <3>5. QED
      BY <2>4, <3>4
  <2>5. CASE name = "Empty"
    <3>1. s = Schema({"object", "null"}) /\ T = {"object"}
      BY <2>5 DEF schemaForWKT
    <3>2. Wanting({"object", "null"}, {"object"}) = {}
      BY DEF Wanting
    <3>3. s.types = {"object", "null"} /\ s.ref = "" /\ JSONParts \subseteq DOMAIN s
      BY <3>1, PlainSchema
    <3> HIDE DEF s, T
    <3>4. Fits({})
      BY <3>1, <3>2, <3>3
    <3> HIDE DEF Fits
    <3>5. QED
      BY <2>5, <3>4
  <2>6. CASE name = "Value"
    <3>1. s = Schema({"string", "number", "object", "array", "boolean", "null"}) /\ T = {"string", "number", "object", "array", "boolean", "null"}
      BY <2>6 DEF schemaForWKT
    <3>2. Wanting({"string", "number", "object", "array", "boolean", "null"}, {"string", "number", "object", "array", "boolean", "null"}) = {}
      BY DEF Wanting
    <3>3. s.types = {"string", "number", "object", "array", "boolean", "null"} /\ s.ref = "" /\ JSONParts \subseteq DOMAIN s
      BY <3>1, PlainSchema
    <3> HIDE DEF s, T
    <3>4. Fits({})
      BY <3>1, <3>2, <3>3
    <3> HIDE DEF Fits
    <3>5. QED
      BY <2>6, <3>4
  <2>7. CASE name = "ListValue"
    <3>1. s = Schema({"array", "null"}) /\ T = {"array"}
      BY <2>7 DEF schemaForWKT
    <3>2. Wanting({"array", "null"}, {"array"}) = {}
      BY DEF Wanting
    <3>3. s.types = {"array", "null"} /\ s.ref = "" /\ JSONParts \subseteq DOMAIN s
      BY <3>1, PlainSchema
    <3> HIDE DEF s, T
    <3>4. Fits({})
      BY <3>1, <3>2, <3>3
    <3> HIDE DEF Fits
    <3>5. QED
      BY <2>7, <3>4
  <2>8. CASE name = "DoubleValue"
    <3>1. s = Formatted({"number", "null"}, "double") /\ T = {"number", "string"}
      BY <2>8 DEF schemaForWKT
    <3>2. Wanting({"number", "null"}, {"number", "string"}) = {"string"}
      BY DEF Wanting
    <3>3. s.types = {"number", "null"} /\ s.ref = "" /\ JSONParts \subseteq DOMAIN s
      BY <3>1 DEF Schema, Formatted, JSONParts
    <3> HIDE DEF s, T
    <3>4. Fits({"string"})
      BY <3>1, <3>2, <3>3
    <3> HIDE DEF Fits
    <3>5. QED
      BY <2>8, <3>4
  <2>9. CASE name = "FloatValue"
    <3>1. s = Formatted({"number", "null"}, "float") /\ T = {"number", "string"}
      BY <2>9 DEF schemaForWKT
    <3>2. Wanting({"number", "null"}, {"number", "string"}) = {"string"}
      BY DEF Wanting
    <3>3. s.types = {"number", "null"} /\ s.ref = "" /\ JSONParts \subseteq DOMAIN s
      BY <3>1 DEF Schema, Formatted, JSONParts
    <3> HIDE DEF s, T
    <3>4. Fits({"string"})
      BY <3>1, <3>2, <3>3
    <3> HIDE DEF Fits
    <3>5. QED
      BY <2>9, <3>4
  <2>10. CASE name = "Int64Value"
    <3>1. s = Formatted({"string", "null"}, "int64") /\ T = {"string"}
      BY <2>10 DEF schemaForWKT
    <3>2. Wanting({"string", "null"}, {"string"}) = {}
      BY DEF Wanting
    <3>3. s.types = {"string", "null"} /\ s.ref = "" /\ JSONParts \subseteq DOMAIN s
      BY <3>1 DEF Schema, Formatted, JSONParts
    <3> HIDE DEF s, T
    <3>4. Fits({})
      BY <3>1, <3>2, <3>3
    <3> HIDE DEF Fits
    <3>5. QED
      BY <2>10, <3>4
  <2>11. CASE name = "UInt64Value"
    <3>1. s = Formatted({"string", "null"}, "uint64") /\ T = {"string"}
      BY <2>11 DEF schemaForWKT
    <3>2. Wanting({"string", "null"}, {"string"}) = {}
      BY DEF Wanting
    <3>3. s.types = {"string", "null"} /\ s.ref = "" /\ JSONParts \subseteq DOMAIN s
      BY <3>1 DEF Schema, Formatted, JSONParts
    <3> HIDE DEF s, T
    <3>4. Fits({})
      BY <3>1, <3>2, <3>3
    <3> HIDE DEF Fits
    <3>5. QED
      BY <2>11, <3>4
  <2>12. CASE name = "Int32Value"
    <3>1. s = Formatted({"integer", "null"}, "int32") /\ T = {"integer"}
      BY <2>12 DEF schemaForWKT
    <3>2. Wanting({"integer", "null"}, {"integer"}) = {}
      BY DEF Wanting
    <3>3. s.types = {"integer", "null"} /\ s.ref = "" /\ JSONParts \subseteq DOMAIN s
      BY <3>1 DEF Schema, Formatted, JSONParts
    <3> HIDE DEF s, T
    <3>4. Fits({})
      BY <3>1, <3>2, <3>3
    <3> HIDE DEF Fits
    <3>5. QED
      BY <2>12, <3>4
  <2>13. CASE name = "UInt32Value"
    <3>1. s = Formatted({"integer", "null"}, "int64") /\ T = {"integer"}
      BY <2>13 DEF schemaForWKT
    <3>2. Wanting({"integer", "null"}, {"integer"}) = {}
      BY DEF Wanting
    <3>3. s.types = {"integer", "null"} /\ s.ref = "" /\ JSONParts \subseteq DOMAIN s
      BY <3>1 DEF Schema, Formatted, JSONParts
    <3> HIDE DEF s, T
    <3>4. Fits({})
      BY <3>1, <3>2, <3>3
    <3> HIDE DEF Fits
    <3>5. QED
      BY <2>13, <3>4
  <2>14. CASE name = "BoolValue"
    <3>1. s = Schema({"boolean", "null"}) /\ T = {"boolean"}
      BY <2>14 DEF schemaForWKT
    <3>2. Wanting({"boolean", "null"}, {"boolean"}) = {}
      BY DEF Wanting
    <3>3. s.types = {"boolean", "null"} /\ s.ref = "" /\ JSONParts \subseteq DOMAIN s
      BY <3>1, PlainSchema
    <3> HIDE DEF s, T
    <3>4. Fits({})
      BY <3>1, <3>2, <3>3
    <3> HIDE DEF Fits
    <3>5. QED
      BY <2>14, <3>4
  <2>15. CASE name = "StringValue"
    <3>1. s = Schema({"string", "null"}) /\ T = {"string"}
      BY <2>15 DEF schemaForWKT
    <3>2. Wanting({"string", "null"}, {"string"}) = {}
      BY DEF Wanting
    <3>3. s.types = {"string", "null"} /\ s.ref = "" /\ JSONParts \subseteq DOMAIN s
      BY <3>1, PlainSchema
    <3> HIDE DEF s, T
    <3>4. Fits({})
      BY <3>1, <3>2, <3>3
    <3> HIDE DEF Fits
    <3>5. QED
      BY <2>15, <3>4
  <2>16. CASE name = "BytesValue"
    <3>1. s = Formatted({"string", "null"}, "bytes") /\ T = {"string"}
      BY <2>16 DEF schemaForWKT
    <3>2. Wanting({"string", "null"}, {"string"}) = {}
      BY DEF Wanting
    <3>3. s.types = {"string", "null"} /\ s.ref = "" /\ JSONParts \subseteq DOMAIN s
      BY <3>1 DEF Schema, Formatted, JSONParts
    <3> HIDE DEF s, T
    <3>4. Fits({})
      BY <3>1, <3>2, <3>3
    <3> HIDE DEF Fits
    <3>5. QED
      BY <2>16, <3>4
  <2>17. CASE name = "FieldMask"
    <3>1. s = Schema({"string", "null"}) /\ T = {"string"}
      BY <2>17 DEF schemaForWKT
    <3>2. Wanting({"string", "null"}, {"string"}) = {}
      BY DEF Wanting
    <3>3. s.types = {"string", "null"} /\ s.ref = "" /\ JSONParts \subseteq DOMAIN s
      BY <3>1, PlainSchema
    <3> HIDE DEF s, T
    <3>4. Fits({})
      BY <3>1, <3>2, <3>3
    <3> HIDE DEF Fits
    <3>5. QED
      BY <2>17, <3>4
  <2>18. QED
    BY <1>1, <2>1, <2>2, <2>3, <2>4, <2>5, <2>6, <2>7, <2>8, <2>9, <2>10, <2>11, <2>12, <2>13, <2>14, <2>15, <2>16, <2>17 DEF WellKnownNames
<1> HIDE DEF s, T
<1>4. QED
  BY <1>2, <1>3, PlainAdmits DEF s, name

(* The fields the generator knows for what they are.                       *)
Known(f) ==
  /\ f \in FieldType
  /\ f.kind = "message" => f.type \in Messages /\ ~TakenForFieldMask(f.type)

LEMMA MessageAdmitted ==
  ASSUME NEW m \in Messages, ~TakenForFieldMask(m), NEW readOnly
  PROVE  /\ Unadmitted(MessageRef(m, readOnly), MessageJSON(m))
              = IF m \in WellKnown /\ ShortName[m] \in {"DoubleValue", "FloatValue"}
                  THEN {"string"} ELSE {}
         /\ JSONParts \subseteq DOMAIN MessageRef(m, readOnly)
<1>1. CASE m \in WellKnown
  <2> DEFINE s == schemaForWKT(ShortName[m])
             odd == IF ShortName[m] \in {"DoubleValue", "FloatValue"} THEN {"string"} ELSE {}
  <2>1. MessageRef(m, readOnly) = [s EXCEPT !.readOnly = readOnly]
    BY <1>1 DEF MessageRef, IsWellKnown
  <2>2. Unadmitted(s, MessageJSON(m)) = odd /\ s.ref = "" /\ JSONParts \subseteq DOMAIN s
    BY <1>1, WellKnownAdmitted
  <2> HIDE DEF s, odd
  <2>3. /\ MessageRef(m, readOnly).types = s.types
        /\ MessageRef(m, readOnly).ref = ""
        /\ DOMAIN MessageRef(m, readOnly) = DOMAIN s
    BY <2>1, <2>2 DEF JSONParts
  <2>4. Unadmitted(MessageRef(m, readOnly), MessageJSON(m)) = odd
    BY <2>2, <2>3, PlainAdmits
  <2>5. QED
    BY <1>1, <2>2, <2>3, <2>4 DEF odd
<1>2. CASE m \notin WellKnown
  <2>1. ~IsWellKnown(m)
    BY <1>2 DEF IsWellKnown, TakenForFieldMask
  <2>2. MessageRef(m, readOnly) = [Schema({}) EXCEPT !.ref = m] /\ MessageJSON(m) = {"object"}
    BY <1>2, <2>1 DEF MessageRef, MessageJSON
  <2>3. MessageRef(m, readOnly).ref = m /\ JSONParts \subseteq DOMAIN MessageRef(m, readOnly)
    BY <2>2 DEF Schema, JSONParts
  <2>4. m # ""
    BY NamesAssumption
  <2>5. QED
    BY <1>2, <2>2, <2>3, <2>4 DEF Admits, Unadmitted
<1>3. QED
  BY <1>1, <1>2

LEMMA EnumAdmitted ==
  ASSUME NEW enum
  PROVE  /\ Unadmitted(Enum, EnumJSON(enum))
              = IF enum = NullEnum THEN {"null"} ELSE {"integer"}
         /\ "null" \notin Enum.types /\ Enum.ref = ""
         /\ JSONParts \subseteq DOMAIN Enum
<1>1. Enum.types = {"string"} /\ Enum.ref = "" /\ JSONParts \subseteq DOMAIN Enum
  BY DEF Enum, Schema, JSONParts
<1>2. Unadmitted(Enum, EnumJSON(enum)) = Wanting({"string"}, EnumJSON(enum))
  BY <1>1, PlainAdmits
<1>3. CASE enum = NullEnum
  <2>1. Wanting({"string"}, {"null"}) = {"null"}
    BY DEF Wanting
  <2>2. QED
    BY <1>1, <1>2, <1>3, <2>1 DEF EnumJSON
<1>4. CASE enum # NullEnum
  <2>1. Wanting({"string"}, {"string", "integer"}) = {"integer"}
    BY DEF Wanting
  <2>2. QED
    BY <1>1, <1>2, <1>4, <2>1 DEF EnumJSON
<1>5. QED
  BY <1>3, <1>4

LEMMA ElementAdmitted ==
  ASSUME NEW f, Known(f), NEW readOnly
  PROVE  Unadmitted(FieldTypeElem(f, readOnly), ElementJSON(f)) = Undocumented(f)
<1>1. f.kind \in Scalars \cup {"enum", "message"}
  BY DEF Known, FieldType
<1>2. CASE f.kind = "message"
  <2>1. FieldTypeElem(f, readOnly) = MessageRef(f.type, readOnly) /\ ElementJSON(f) = MessageJSON(f.type)
    BY <1>2 DEF FieldTypeElem, ElementJSON
  <2>2. Undocumented(f) = IF f.type \in WellKnown /\ ShortName[f.type] \in {"DoubleValue", "FloatValue"}
                            THEN {"string"} ELSE {}
    BY <1>2 DEF Undocumented
  <2>3. QED
    BY <1>2, <2>1, <2>2, MessageAdmitted DEF Known
<1>3. CASE f.kind = "enum"
  <2>1. FieldTypeElem(f, readOnly) = Enum /\ ElementJSON(f) = EnumJSON(f.type)
    BY <1>3 DEF FieldTypeElem, ElementJSON
  <2>2. Undocumented(f) = IF f.type = NullEnum THEN {"null"} ELSE {"integer"}
    BY <1>3 DEF Undocumented
  <2>3. QED
    BY <2>1, <2>2, EnumAdmitted
<1>4. CASE f.kind \in Scalars
  <2>1. f.kind # "message" /\ f.kind # "enum"
    BY <1>4 DEF Scalars
  <2>2. FieldTypeElem(f, readOnly) = schemaForScalar(f.kind) /\ ElementJSON(f) = ScalarJSON(f.kind)
    BY <2>1 DEF FieldTypeElem, ElementJSON
  <2>3. Undocumented(f) = IF f.kind \in {"double", "float"} THEN {"string"} ELSE {}
    BY <2>1 DEF Undocumented
  <2>4. QED
    BY <1>4, <2>2, <2>3, ScalarAdmitted
<1>5. QED
  BY <1>1, <1>2, <1>3, <1>4

(* What a null in the schema, and one in the values, make of it.           *)
LEMMA NullAdds ==
  ASSUME NEW s, NEW t, t.ref = s.ref, t.types = s.types \cup {"null"}, NEW types
  PROVE  /\ Unadmitted(t, types) = Unadmitted(s, types) \ {"null"}
         /\ Unadmitted(t, types \cup {"null"}) = Unadmitted(s, types) \ {"null"}
BY DEF Admits, Unadmitted

LEMMA NullLacks ==
  ASSUME NEW s, NEW t, t.ref = s.ref, t.types = s.types, "null" \notin s.types, NEW types
  PROVE  /\ Unadmitted(t, types) = Unadmitted(s, types)
         /\ Unadmitted(t, types \cup {"null"}) = Unadmitted(s, types) \cup {"null"}
BY DEF Admits, Unadmitted

(* A scalar or an enum of one value: the schema s of its type with a null  *)
(* for a oneof.                                                            *)
LEMMA SingleAdmitted ==
  ASSUME NEW f, f.label = "one", f.kind # "message",
         NEW s, JSONParts \subseteq DOMAIN s, "null" \notin s.types,
         SchemaOfField(f) = Annotated(f, applyNullable(f, s)),
         Unadmitted(s, ElementJSON(f)) = Undocumented(f)
  PROVE  Unadmitted(SchemaOfField(f), Populated(f) \cup Unpopulated(f)) = UndocumentedField(f)
<1> DEFINE t == SchemaOfField(f)
           json == ElementJSON(f)
<1>1. /\ t.types = applyNullable(f, s).types
      /\ t.ref = s.ref
  BY SchemaKeeps
<1>2. Populated(f) = json
  BY DEF Populated
<1>3. CASE f.oneof # ""
  <2>1. t.types = s.types \cup {"null"}
    BY <1>1, <1>3, SchemaKeeps DEF applyNullable
  <2>2. Unpopulated(f) = {} /\ UndocumentedField(f) = Undocumented(f) \ {"null"}
    BY <1>3 DEF Unpopulated, UndocumentedField
  <2> HIDE DEF t, json
  <2>3. Populated(f) \cup Unpopulated(f) = json
    BY <1>2, <2>2
  <2>4. Unadmitted(t, json) = Unadmitted(s, json) \ {"null"}
    BY <1>1, <2>1, NullAdds
  <2>5. QED
    BY <2>2, <2>3, <2>4 DEF t, json
<1>4. CASE f.oneof = ""
  <2>1. t.types = s.types
    BY <1>1, <1>4 DEF applyNullable
  <2>2. /\ Unpopulated(f) = IF f.proto2 THEN {"null"} ELSE Populated(f)
        /\ UndocumentedField(f) = IF f.proto2 THEN Undocumented(f) \cup {"null"} ELSE Undocumented(f)
    BY <1>4 DEF Unpopulated, UndocumentedField
  <2> HIDE DEF t, json
  <2>3. Populated(f) \cup Unpopulated(f) = IF f.proto2 THEN json \cup {"null"} ELSE json
    BY <1>2, <2>2
  <2>4. /\ Unadmitted(t, json) = Unadmitted(s, json)
        /\ Unadmitted(t, json \cup {"null"}) = Unadmitted(s, json) \cup {"null"}
    BY <1>1, <2>1, NullLacks
  <2>5. QED
    BY <2>2, <2>3, <2>4 DEF t, json
<1>5. QED
  BY <1>3, <1>4

(* A field's schema admits the JSON types it may be written as, populated  *)
(* or not, and that of a list or of a map those of its elements, but for   *)
(* the exceptions.                                                         *)
LEMMA SchemaAdmits ==
  ASSUME NEW f, Known(f)
  PROVE  /\ Unadmitted(SchemaOfField(f), Populated(f) \cup Unpopulated(f)) = UndocumentedField(f)
         /\ f.label # "one" =>
              Unadmitted(SchemaOfField(f).items[1], ElementJSON(f)) = Undocumented(f)
<1> DEFINE readOnly == getReadOnlySpec(f)
           elem == FieldTypeElem(f, readOnly)
<1>1. Unadmitted(elem, ElementJSON(f)) = Undocumented(f)
  BY ElementAdmitted
<1> HIDE DEF readOnly, elem
<1>2. f.label \in {"one", "repeated", "map"} /\ f.kind \in Scalars \cup {"enum", "message"}
  BY DEF Known, FieldType
<1>3. CASE f.label = "repeated"
  <2> DEFINE s == [Schema({"array", "null"}) EXCEPT !.items = <<elem>>]
  <2>1. SchemaOfField(f) = Annotated(f, s)
    BY <1>3 DEF SchemaOfField, elem, readOnly
  <2>2. s.types = {"array", "null"} /\ s.items = <<elem>> /\ JSONParts \subseteq DOMAIN s
    BY DEF Schema, JSONParts
  <2> HIDE DEF s
  <2>3. SchemaOfField(f).types = {"array", "null"} /\ SchemaOfField(f).items = <<elem>>
    BY <2>1, <2>2, SchemaKeeps
  <2>4. Populated(f) \cup Unpopulated(f) \subseteq {"array"}
    BY <1>3 DEF Populated, Unpopulated
  <2>5. Unadmitted(SchemaOfField(f), Populated(f) \cup Unpopulated(f)) = {}
    BY <2>3, <2>4 DEF Admits, Unadmitted
  <2>6. SchemaOfField(f).items[1] = elem
    BY <2>3
  <2>7. UndocumentedField(f) = {}
    BY <1>3 DEF UndocumentedField
  <2>8. QED
    BY <1>1, <2>5, <2>6, <2>7
<1>4. CASE f.label = "map"
  <2> DEFINE s == [Schema({"object"}) EXCEPT !.items = <<elem>>]
             t == applyNullable(f, s)
  <2>1. SchemaOfField(f) = Annotated(f, t)
    BY <1>4 DEF SchemaOfField, elem, readOnly
  <2>2. s.types = {"object"} /\ s.items = <<elem>> /\ JSONParts \subseteq DOMAIN s
    BY DEF Schema, JSONParts
  <2> HIDE DEF s
  <2>3. {"object"} \subseteq t.types /\ t.items = <<elem>> /\ JSONParts \subseteq DOMAIN t
    BY <2>2, SchemaKeeps
  <2> HIDE DEF t
  <2>4. {"object"} \subseteq SchemaOfField(f).types /\ SchemaOfField(f).items = <<elem>>
    BY <2>1, <2>3, SchemaKeeps
  <2>5. Populated(f) \cup Unpopulated(f) \subseteq {"object"}
    BY <1>4 DEF Populated, Unpopulated
  <2>6. Unadmitted(SchemaOfField(f), Populated(f) \cup Unpopulated(f)) = {}
    BY <2>4, <2>5 DEF Admits, Unadmitted
  <2>7. SchemaOfField(f).items[1] = elem
    BY <2>4
  <2>8. UndocumentedField(f) = {}
    BY <1>4 DEF UndocumentedField
  <2>9. QED
    BY <1>1, <2>6, <2>7, <2>8
<1>5. CASE f.label = "one" /\ f.kind = "enum"
  <2>1. SchemaOfField(f) = Annotated(f, applyNullable(f, Enum))
    BY <1>5 DEF SchemaOfField
  <2>2. elem = Enum
    BY <1>5 DEF elem, FieldTypeElem
  <2>3. QED
    BY <1>1, <1>5, <2>1, <2>2, EnumAdmitted, SingleAdmitted
<1>6. CASE f.label = "one" /\ f.kind = "message"
  <2> DEFINE t == SchemaOfField(f)
             json == ElementJSON(f)
  <2>1. elem = MessageRef(f.type, readOnly) /\ t = Null(elem)
    BY <1>6 DEF SchemaOfField, elem, readOnly, FieldTypeElem
  <2>2. JSONParts \subseteq DOMAIN elem
    BY <1>6, <2>1, MessageAdmitted DEF Known
  <2>3. t.types = elem.types \cup {"null"} /\ t.ref = elem.ref
    BY <2>1, <2>2, SchemaKeeps
  <2>4. Populated(f) \cup Unpopulated(f) \in {json, json \cup {"null"}}
    BY <1>6 DEF Populated, Unpopulated
  <2>5. Undocumented(f) \ {"null"} = Undocumented(f) /\ UndocumentedField(f) = Undocumented(f)
    <3>1. Undocumented(f) \in {{}, {"string"}}
      BY <1>6 DEF Undocumented
    <3>2. QED
      BY <1>6, <3>1 DEF UndocumentedField
  <2> HIDE DEF t, json
  <2>6. /\ Unadmitted(t, json) = Unadmitted(elem, json) \ {"null"}
        /\ Unadmitted(t, json \cup {"null"}) = Unadmitted(elem, json) \ {"null"}
    BY <2>3, NullAdds
  <2>7. Unadmitted(elem, json) = Undocumented(f)
    BY <1>1 DEF json
  <2>8. Unadmitted(t, Populated(f) \cup Unpopulated(f)) = UndocumentedField(f)
    BY <2>4, <2>5, <2>6, <2>7
  <2>9. QED
    BY <1>6, <2>8 DEF t
<1>7. CASE f.label = "one" /\ f.kind \in Scalars
  <2>1. f.kind # "message" /\ f.kind # "enum"
    BY <1>7 DEF Scalars
  <2>2. SchemaOfField(f) = Annotated(f, applyNullable(f, schemaForScalar(f.kind)))
    BY <1>7, <2>1 DEF SchemaOfField
  <2>3. elem = schemaForScalar(f.kind)
    BY <2>1 DEF elem, FieldTypeElem
  <2>4. QED
    BY <1>1, <1>7, <2>1, <2>2, <2>3, ScalarAdmitted, SingleAdmitted
<1>8. QED
  BY <1>2, <1>3, <1>4, <1>5, <1>6, <1>7

(* A route may use either name of a field, and finds it by both.           *)
LEMMA FieldByName ==
  ASSUME NamesApart, NEW m \in Messages, NEW f \in Range(MessageFields[m]), NEW next
  PROVE  FieldNamed(m, next) = f <=> (next = f.json \/ next = f.name)
<1> DEFINE s == MessageFields[m]
           Is(g) == next = g.json \/ next = g.name
           I == {i \in 1..Len(s) : Is(s[i])}
           first == IF I # {} THEN Min(I) ELSE 0
<1>1. s \in Seq(FieldType) /\ Len(s) \in Nat /\ DOMAIN s = 1..Len(s)
  BY MessageTyped
<1>2. FieldNamed(m, next) = IF first = 0 THEN NoField ELSE s[first]
  BY DEF FieldNamed, First, SelectInSeq
<1>3. I # {} => first \in I
  <2>1. I \in SUBSET Nat
    BY <1>1
  <2> HIDE DEF I
  <2>2. ASSUME I # {} PROVE \E i \in I : \A j \in I : i <= j
    BY <2>1, <2>2, Least
  <2>3. QED
    BY <2>2 DEF Min
<1>4. NoField.number = 0
  BY DEF NoField, Singular
<1>5. \A i \in DOMAIN s : s[i] \in FieldType /\ s[i].number # 0 /\ s[i] \in Range(s)
  <2>1. \A g \in FieldType : g.number # 0
    BY DEF FieldType
  <2>2. \A i \in DOMAIN s : s[i] \in FieldType
    BY <1>1
  <2> HIDE DEF s
  <2>3. QED
    BY <2>1, <2>2 DEF Range
<1>6. \A g, h \in Range(s) : (g.name = h.name \/ g.json = h.json \/ g.json = h.name) => g = h
  <2>1. \A g, h \in Range(s) : g.number = h.number \/ g.name = h.name \/ g.json = h.json => g = h
    BY MessagesAssumption
  <2>2. \A g, h \in Range(s) : g.json = h.name => g = h
    BY DEF NamesApart
  <2>3. QED
    BY <2>1, <2>2
<1>7. \E i \in DOMAIN s : f = s[i]
  BY DEF Range
<1> HIDE DEF s
<1>8. ASSUME FieldNamed(m, next) = f PROVE Is(f)
  BY <1>1, <1>2, <1>3, <1>4, <1>5, <1>7, <1>8
<1>9. ASSUME Is(f) PROVE FieldNamed(m, next) = f
  <2>1. I # {}
    BY <1>1, <1>7, <1>9
  <2>2. first \in I /\ first \in DOMAIN s /\ first # 0
    <3>1. I \subseteq DOMAIN s /\ 0 \notin DOMAIN s
      BY <1>1
    <3> HIDE DEF I, first
    <3>2. first \in I
      BY <1>3, <2>1
    <3>3. QED
      BY <3>1, <3>2
  <2> HIDE DEF first
  <2>3. FieldNamed(m, next) = s[first] /\ Is(s[first]) /\ s[first] \in Range(s)
    BY <1>2, <1>5, <2>2
  <2>4. QED
    BY <1>6, <1>9, <2>3 DEF s
<1>10. QED
  BY <1>8, <1>9

(* Once the operation is done each schema is that of its message.          *)
LEMMA DoneComplete ==
  ASSUME IInv, SInv, phase = "done"
  PROVE  /\ \A k \in DOMAIN schemas : k \in KeyType /\ Complete(k, schemas)
         /\ \A k \in Wanted : IsWellKnown(k.message) \/ k \in DOMAIN schemas
<1>1. stack = <<>> /\ todo = {}
  BY DEF SInv, Idle
<1>2. OpenKeys(schemas) = {}
  BY <1>1 DEF IInv, Balanced, StackKeys
<1>3. QED
  BY <1>1, <1>2 DEF OpenKeys, SInv

(* An object has a property for each field it is rendered with.            *)
LEMMA ObjectProperties ==
  ASSUME NEW key \in KeyType
  PROVE  /\ DOMAIN Object(key).properties = {f.json : f \in Own(key)}
         /\ \A f \in Own(key) : Object(key).properties[f.json] = SchemaOfField(f)
<1> DEFINE all == Range(MessageFields[key.message])
           Called(jn) == CHOOSE g \in all : g.json = jn
           named == {f.json : f \in Own(key)}
           properties == [jn \in named |-> SchemaOfField(Called(jn))]
<1>1. Object(key).properties = properties
  BY DEF Object, Own
<1>2. Own(key) \subseteq all
  BY FieldsKept DEF KeyType, Own
<1>3. \A f, g \in all : f.json = g.json => f = g
  BY MessagesAssumption DEF KeyType
<1> HIDE DEF all
<1>4. \A f \in Own(key) : Called(f.json) = f
  BY <1>2, <1>3
<1> HIDE DEF Called
<1>5. \A f \in Own(key) : f.json \in named
  OBVIOUS
<1>6. QED
  BY <1>1, <1>4, <1>5

(* ResponsesAdmitted: for every set of messages, each field protojson      *)
(* sends of a message is a property of its schema, and of the JSON types   *)
(* the field may have the schema refuses those listed there and no others. *)
THEOREM DocumentAdmitsResponses == Spec => []ResponsesAdmitted
<1>1. ASSUME IInv, SInv, phase = "done", NEW k \in DOMAIN schemas, ~k.input,
             NEW f \in Range(MessageFields[k.message]),
             ~(f.kind = "message" /\ TakenForFieldMask(f.type))
      PROVE  /\ f.json \in DOMAIN schemas[k].properties
             /\ FieldAdmitted(schemas[k].properties[f.json], f)
  <2>1. k \in KeyType /\ schemas[k] = Object(k) /\ \A g \in Own(k) : Met(g, schemas)
    BY <1>1, DoneComplete DEF Complete
  <2>2. f \in Own(k)
    <3>1. FilterOf(k) = {} /\ ~Filtered(f, {})
      BY <1>1 DEF FilterOf, Filtered
    <3>2. QED
      BY <1>1, <2>1, <3>1, FieldsKept DEF Own, KeyType
  <2>3. Known(f)
    BY <1>1, <2>1, FieldsKept DEF Known, KeyType
  <2>4. f.json \in DOMAIN schemas[k].properties /\ schemas[k].properties[f.json] = SchemaOfField(f)
    BY <2>1, <2>2, ObjectProperties
  <2>5. f.kind = "message" /\ f.type \notin WellKnown => Key(f.type, FALSE) \in DOMAIN schemas
    BY <1>1, <2>1, <2>2 DEF Met, IsWellKnown, TakenForFieldMask
  <2>6. QED
    BY <2>3, <2>4, <2>5, SchemaAdmits DEF FieldAdmitted
<1>2. IInv /\ SInv => ResponsesAdmitted
  BY <1>1 DEF ResponsesAdmitted
<1>3. QED
  BY <1>2, SchemasAlways, PTL

(* InputOmitsParameters: unless names of fields are mistaken for each      *)
(* other, the request body is the input without what the parameters fill.  *)
THEOREM InputWithoutParameters ==
  ASSUME NamesApart
  PROVE  Spec => []InputOmitsParameters
<1>1. ASSUME IInv, SInv, phase = "done", HasRequestBody(op.rpc), ~IsWellKnown(op.rpc.in)
      PROVE  DOMAIN schemas[Key(op.rpc.in, parameters # <<>>)].properties =
               {f.json : f \in {g \in Range(MessageFields[op.rpc.in]) : ~ByParameter(g) \/ InRealOneOf(g)}}
  <2> DEFINE key == Key(op.rpc.in, parameters # <<>>)
             all == Range(MessageFields[op.rpc.in])
  <2>1. key.message = op.rpc.in /\ key.input = (parameters # <<>>)
    BY DEF Key
  <2>2. key \in Wanted
    BY <1>1 DEF Wanted
  <2>3. op.rpc.in \in Messages
    BY <1>1, OperationsAssumption DEF SInv
  <2> HIDE DEF key
  <2>4. key \in DOMAIN schemas /\ key \in KeyType /\ schemas[key] = Object(key)
    BY <1>1, <2>1, <2>2, DoneComplete DEF Complete
  <2>5. ASSUME NEW f \in all PROVE Filtered(f, FilterOf(key)) <=> ByParameter(f)
    <3>1. \A next : FieldNamed(op.rpc.in, next) = f <=> (next = f.json \/ next = f.name)
      BY <2>3, <2>5, FieldByName
    <3>2. FilterOf(key) = {p.path[1] : p \in {q \in Range(parameters) : Len(q.path) = 1}}
      <4>1. InputFilter = {p.path[1] : p \in {q \in Range(parameters) : Len(q.path) = 1}}
        BY DEF InputFilter, Range
      <4>2. parameters = <<>> => Range(parameters) = {}
        BY DEF Range
      <4>3. QED
        BY <2>1, <4>1, <4>2 DEF FilterOf
    <3>3. QED
      BY <3>1, <3>2 DEF Filtered, ByParameter
  <2>6. Own(key) = {f \in all : ~ByParameter(f) \/ InRealOneOf(f)}
    BY <2>1, <2>3, <2>5, FieldsKept DEF Own
  <2>7. DOMAIN schemas[key].properties = {f.json : f \in Own(key)}
    BY <2>4, ObjectProperties
  <2>8. QED
    BY <2>6, <2>7 DEF key
<1>2. IInv /\ SInv => InputOmitsParameters
  BY <1>1 DEF InputOmitsParameters
<1>3. QED
  BY <1>2, SchemasAlways, PTL
-----------------------------------------------------------------------------
(* What holds of the request body whatever the names of its fields: it     *)
(* repeats no field that a parameter fills, but for members of oneofs, and *)
(* it lacks only fields one of whose two names a parameter uses.           *)
BodyRepeatsNothing ==
  phase = "done" /\ HasRequestBody(op.rpc) /\ ~IsWellKnown(op.rpc.in) =>
    \A f \in Range(MessageFields[op.rpc.in]) :
      LET there == f.json \in DOMAIN schemas[Key(op.rpc.in, parameters # <<>>)].properties IN
      /\ there => ~ByParameter(f) \/ InRealOneOf(f)
      /\ ~there => ~InRealOneOf(f) /\ {f.json, f.name} \cap InputFilter # {}

(* The field a name leads to is called by that name.                       *)
LEMMA FieldIsCalled ==
  ASSUME NEW m \in Messages, NEW f \in Range(MessageFields[m]), NEW next,
         FieldNamed(m, next) = f
  PROVE  next = f.json \/ next = f.name
<1> DEFINE s == MessageFields[m]
           Is(g) == next = g.json \/ next = g.name
           I == {i \in 1..Len(s) : Is(s[i])}
           first == IF I # {} THEN Min(I) ELSE 0
<1>1. s \in Seq(FieldType) /\ Len(s) \in Nat /\ DOMAIN s = 1..Len(s)
  BY MessageTyped
<1>2. FieldNamed(m, next) = IF first = 0 THEN NoField ELSE s[first]
  BY DEF FieldNamed, First, SelectInSeq
<1>3. I # {} => first \in I
  <2>1. I \in SUBSET Nat
    BY <1>1
  <2> HIDE DEF I
  <2>2. ASSUME I # {} PROVE \E i \in I : \A j \in I : i <= j
    BY <2>1, <2>2, Least
  <2>3. QED
    BY <2>2 DEF Min
<1>4. NoField.number = 0
  BY DEF NoField, Singular
<1>5. f.number # 0
  <2>1. \A g \in FieldType : g.number # 0
    BY DEF FieldType
  <2>2. Range(s) \subseteq FieldType
    BY <1>1 DEF Range
  <2>3. QED
    BY <2>1, <2>2
<1> HIDE DEF s
<1>6. QED
  BY <1>1, <1>2, <1>3, <1>4, <1>5

(* BodyRepeatsNothing, for every set of messages: InputWithoutParameters   *)
(* needs NamesApart only for the fields that are left out by mistake.      *)
THEOREM BodyRepeatsNoParameter == Spec => []BodyRepeatsNothing
<1>1. ASSUME IInv, SInv, phase = "done", HasRequestBody(op.rpc), ~IsWellKnown(op.rpc.in),
             NEW f \in Range(MessageFields[op.rpc.in])
      PROVE  LET there == f.json \in
                   DOMAIN schemas[Key(op.rpc.in, parameters # <<>>)].properties
             IN /\ there => ~ByParameter(f) \/ InRealOneOf(f)
                /\ ~there => ~InRealOneOf(f) /\ {f.json, f.name} \cap InputFilter # {}
  <2> DEFINE key == Key(op.rpc.in, parameters # <<>>)
             all == Range(MessageFields[op.rpc.in])
  <2>1. key.message = op.rpc.in /\ key.input = (parameters # <<>>)
    BY DEF Key
  <2>2. key \in Wanted
    BY <1>1 DEF Wanted
  <2>3. op.rpc.in \in Messages
    BY <1>1, OperationsAssumption DEF SInv
  <2> HIDE DEF key
  <2>4. key \in DOMAIN schemas /\ key \in KeyType /\ schemas[key] = Object(key)
    BY <1>1, <2>1, <2>2, DoneComplete DEF Complete
  <2>5. FilterOf(key) = InputFilter
    <3>1. parameters = <<>> => InputFilter = {}
      BY DEF InputFilter
    <3>2. QED
      BY <2>1, <3>1 DEF FilterOf
  <2>6. ByParameter(f) => Filtered(f, InputFilter)
    <3>1. \A next : FieldNamed(op.rpc.in, next) = f => next = f.json \/ next = f.name
      BY <1>1, <2>3, FieldIsCalled
    <3>2. InputFilter = {p.path[1] : p \in {q \in Range(parameters) : Len(q.path) = 1}}
      BY DEF InputFilter, Range
    <3>3. QED
      BY <3>1, <3>2 DEF Filtered, ByParameter
  <2>7. Own(key) = {g \in all : ~Filtered(g, InputFilter) \/ InRealOneOf(g)}
    BY <2>1, <2>3, <2>5, FieldsKept DEF Own
  <2>8. DOMAIN schemas[key].properties = {g.json : g \in Own(key)}
    BY <2>4, ObjectProperties
  <2>9. \A g \in all : g.json = f.json => g = f
    BY <1>1, <2>3, MessagesAssumption
  <2>10. f.json \in DOMAIN schemas[key].properties <=> f \in Own(key)
    BY <2>7, <2>8, <2>9
  <2>11. QED
    BY <1>1, <2>6, <2>7, <2>10 DEF key, Filtered
<1>2. IInv /\ SInv => BodyRepeatsNothing
  BY <1>1 DEF BodyRepeatsNothing
<1>3. QED
  BY <1>2, SchemasAlways, PTL
-----------------------------------------------------------------------------
(* Which schemas there are: the least set with the messages of the request *)
(* and of the response that holds, with a message, those of its fields.    *)
Roots == {k \in Wanted : ~IsWellKnown(k.message)}

Closed(X) ==
  \A k \in X : \A f \in Own(k) :
    f.kind = "message" /\ ~IsWellKnown(f.type) => Key(f.type, FALSE) \in X

SchemasAreThoseReferred ==
  phase = "done" =>
    /\ Roots \subseteq DOMAIN schemas /\ Closed(DOMAIN schemas)
    /\ \A X : Roots \subseteq X /\ Closed(X) => DOMAIN schemas \subseteq X

(* Nothing is rendered, or waits to be, that is not referred to.           *)
RInv ==
  /\ phase \notin {"schemas", "done"} => todo = {} /\ schemas = <<>>
  /\ phase \in {"schemas", "done"} =>
       /\ todo \subseteq Wanted
       /\ \A X : Roots \subseteq X /\ Closed(X) => DOMAIN schemas \subseteq X

LEMMA ReferredInit == Init => RInv
<1>1. Init => phase = "entities" /\ todo = {} /\ schemas = <<>>
  BY DEF Init
<1>2. QED
  BY <1>1 DEF RInv

(* One message more, which each such set holds.                            *)
LEMMA ReferredMore ==
  ASSUME RInv, phase = "schemas", UNCHANGED <<op, phase, parameters>>, todo' \subseteq todo,
         NEW key, DOMAIN schemas' \subseteq DOMAIN schemas \cup {key},
         \A X : Roots \subseteq X /\ Closed(X) /\ DOMAIN schemas \subseteq X
                  /\ ~IsWellKnown(key.message) => key \in X,
         IsWellKnown(key.message) => DOMAIN schemas' \subseteq DOMAIN schemas
  PROVE  RInv'
<1>1. Wanted' = Wanted
  BY DEF Wanted
<1>2. Roots' = Roots
  BY <1>1 DEF Roots
<1>3. \A X : Closed(X)' <=> Closed(X)
  <2>1. \A k : Own(k)' = Own(k)
    BY OwnStays
  <2>2. QED
    BY <2>1 DEF Closed
<1>4. ASSUME NEW X, Roots \subseteq X, Closed(X) PROVE DOMAIN schemas' \subseteq X
  BY <1>4 DEF RInv
<1>5. todo' \subseteq Wanted
  BY DEF RInv
<1>6. phase' = "schemas"
  OBVIOUS
<1>7. QED
  BY <1>1, <1>2, <1>3, <1>4, <1>5, <1>6 DEF RInv

LEMMA ReferredNext == IInv /\ SInv /\ RInv /\ [Next]_vars => RInv'
<1> SUFFICES ASSUME IInv, SInv, RInv, [Next]_vars PROVE RInv'
  OBVIOUS
<1>1. ASSUME UNCHANGED <<op, parameters, todo, schemas>>,
             phase' \in {"schemas", "done"} <=> phase \in {"schemas", "done"}
      PROVE  RInv'
  <2>1. Wanted' = Wanted
    BY <1>1 DEF Wanted
  <2>2. Roots' = Roots
    BY <2>1 DEF Roots
  <2>3. \A k : Own(k)' = Own(k)
    BY <1>1, OwnStays
  <2>4. \A X : Closed(X)' <=> Closed(X)
    BY <2>3 DEF Closed
  <2>5. QED
    BY <1>1, <2>1, <2>2, <2>4 DEF RInv
<1>2. CASE TerraformEntity
  BY <1>1, <1>2 DEF TerraformEntity
<1>3. CASE Extensions
  <2>1. /\ phase = "entities" /\ phase' \in {"panic", "failed", "parameters"}
        /\ UNCHANGED <<op, parameters, todo, schemas>>
    BY <1>3 DEF Extensions
  <2>2. QED
    BY <1>1, <2>1
<1>4. CASE Parameters
  <2>1. /\ phase = "parameters" /\ phase' = "schemas" /\ schemas' = schemas
        /\ todo' = Wanted'
    BY <1>4 DEF Parameters, Wanted
  <2>2. DOMAIN schemas' = {}
    BY <2>1 DEF RInv
  <2>3. QED
    BY <2>1, <2>2 DEF RInv
<1>5. ASSUME NEW key \in todo, Track(key) PROVE RInv'
  <2>1. /\ phase = "schemas" /\ todo' = todo \ {key} /\ Message(key, stack)
        /\ UNCHANGED <<op, phase, parameters>>
    BY <1>5 DEF Track
  <2>2. /\ DOMAIN schemas' \subseteq DOMAIN schemas \cup {key}
        /\ IsWellKnown(key.message) => DOMAIN schemas' \subseteq DOMAIN schemas
    <3>1. DOMAIN schemas' \subseteq DOMAIN schemas \cup {key}
      BY <2>1, MessageGoes DEF IInv
    <3>2. IsWellKnown(key.message) => schemas' = schemas
      BY <2>1 DEF Message
    <3>3. QED
      BY <3>1, <3>2
  <2>3. ~IsWellKnown(key.message) => key \in Roots
    BY <2>1 DEF RInv, Roots
  <2>4. QED
    BY <2>1, <2>2, <2>3, ReferredMore
<1>6. CASE RenderField
  <2> DEFINE f == Head(Top.left)
             key == Key(f.type, FALSE)
             s == Append(Rest, [Top EXCEPT !.left = Tail(@)])
  <2>1. /\ stack # <<>> /\ Top.left # <<>> /\ UNCHANGED <<op, phase, parameters, todo>>
        /\ IF f.kind = "message" THEN Message(key, s) ELSE stack' = s /\ UNCHANGED schemas
    BY <1>6 DEF RenderField
  <2>2. phase = "schemas"
    BY <2>1 DEF SInv, Idle
  <2>3. Len(stack) \in DOMAIN stack
    BY <2>1 DEF IInv, Balanced, Frames
  <2>4. Top.key \in DOMAIN schemas
    BY <2>3 DEF Top, IInv, Balanced, StackKeys, OpenKeys
  <2>5. f \in Own(Top.key)
    <3>1. Top.left \in Seq(Own(Top.key))
      BY <2>3 DEF Top, SInv, Underway
    <3>2. \A S : \A t \in Seq(S) : t # <<>> => Head(t) \in S
      OBVIOUS
    <3>3. QED
      BY <2>1, <3>1, <3>2
  <2>6. key.message = f.type
    BY DEF Key
  <2> HIDE DEF s, f, key
  <2>7. CASE f.kind # "message"
    BY <1>1, <2>1, <2>7
  <2>8. CASE f.kind = "message"
    <3>1. Message(key, s)
      BY <2>1, <2>8
    <3>2. /\ DOMAIN schemas' \subseteq DOMAIN schemas \cup {key}
          /\ IsWellKnown(key.message) => DOMAIN schemas' \subseteq DOMAIN schemas
      BY <3>1 DEF Message, Placed
    <3>3. \A X : Closed(X) /\ DOMAIN schemas \subseteq X /\ ~IsWellKnown(key.message) => key \in X
      BY <2>4, <2>5, <2>6, <2>8 DEF Closed, key
    <3>4. QED
      BY <2>1, <2>2, <3>2, <3>3, ReferredMore
  <2>9. QED
    BY <2>7, <2>8
<1>7. CASE Close
  <2>1. /\ DOMAIN schemas' = DOMAIN schemas /\ UNCHANGED <<op, phase, parameters, todo>>
        /\ stack # <<>>
    BY <1>7 DEF Close, IInv, Balanced, Tracked
  <2>2. phase = "schemas"
    BY <2>1 DEF SInv, Idle
  <2>3. PICK key : key = Top.key
    OBVIOUS
  <2>4. Top.key \in DOMAIN schemas
    <3>1. Len(stack) \in DOMAIN stack
      BY <2>1 DEF IInv, Balanced, Frames
    <3>2. QED
      BY <3>1 DEF Top, IInv, Balanced, StackKeys, OpenKeys
  <2>5. QED
    BY <2>1, <2>2, <2>3, <2>4, ReferredMore
<1>8. CASE Finish
  BY <1>1, <1>8 DEF Finish
<1>9. CASE UNCHANGED vars
  BY <1>1, <1>9 DEF vars
<1>10. QED
  BY <1>2, <1>3, <1>4, <1>5, <1>6, <1>7, <1>8, <1>9 DEF Next

(* SchemasAreThoseReferred, for every set of messages, however they refer  *)
(* to each other: what sc.Message leaves has no reference to a schema that *)
(* is not there, and no schema that nothing refers to.  A parameter's own  *)
(* schema is not in this set: see the run dangling_ref.                    *)
THEOREM SchemasExactlyReferred == Spec => []SchemasAreThoseReferred
<1>1. ASSUME IInv, SInv, RInv, phase = "done" PROVE SchemasAreThoseReferred
  <2>1. \A k \in DOMAIN schemas : \A f \in Own(k) : Met(f, schemas)
    BY <1>1, DoneComplete DEF Complete
  <2>2. \A k \in Roots : k \in DOMAIN schemas
    BY <1>1, DoneComplete DEF Roots
  <2>3. Closed(DOMAIN schemas)
    BY <2>1 DEF Met, Closed
  <2>4. QED
    BY <1>1, <2>2, <2>3 DEF RInv, SchemasAreThoseReferred
<1>2. IInv /\ SInv /\ RInv => SchemasAreThoseReferred
  BY <1>1 DEF SchemasAreThoseReferred
<1>3. Init /\ [](IInv /\ SInv) /\ [][Next]_vars => []RInv
  BY ReferredInit, ReferredNext, PTL
<1>4. QED
  BY <1>2, <1>3, SchemasAlways, PTL DEF Spec

(* sc.Message is never deeper than there are messages, and the input once  *)
(* more with its filter.                                                   *)
DepthBounded == Len(stack) <= Cardinality(Messages) + 1

(* DepthBounded, when the messages are finitely many: the recursion ends   *)
(* however messages contain each other.                                    *)
THEOREM RecursionBounded ==
  ASSUME IsFiniteSet(Messages)
  PROVE  Spec => []DepthBounded
<1> DEFINE plain == {Key(m, FALSE) : m \in Messages}
           X == plain \cup {Key(op.rpc.in, TRUE)}
<1>1. ASSUME IInv, SInv, RInv PROVE DepthBounded
  <2>1. DOMAIN schemas \subseteq X
    <3>1. CASE phase \notin {"schemas", "done"}
      BY <1>1, <3>1 DEF RInv
    <3>2. CASE phase \in {"schemas", "done"}
      <4>1. op.rpc.in \in Messages /\ op.rpc.out \in Messages
        BY <1>1, OperationsAssumption DEF SInv
      <4>2. X \subseteq KeyType
        <5>1. \A m \in Messages : Key(m, FALSE) \in KeyType /\ Key(m, TRUE) \in KeyType
          BY DEF Key, KeyType
        <5>2. QED
          BY <4>1, <5>1
      <4>3. Roots \subseteq X
        <5>1. CASE parameters = <<>>
          <6>1. Roots \subseteq {Key(op.rpc.out, FALSE), Key(op.rpc.in, FALSE)}
            BY <5>1 DEF Roots, Wanted
          <6>2. QED
            BY <4>1, <6>1
        <5>2. CASE parameters # <<>>
          <6>1. Roots \subseteq {Key(op.rpc.out, FALSE), Key(op.rpc.in, TRUE)}
            BY <5>2 DEF Roots, Wanted
          <6>2. QED
            BY <4>1, <6>1
        <5>3. QED
          BY <5>1, <5>2
      <4>4. Closed(X)
        <5>1. ASSUME NEW k \in X, NEW f \in Own(k), f.kind = "message" PROVE f.type \in Messages
          <6>1. k.message \in Messages
            BY <4>2 DEF KeyType
          <6>2. QED
            BY <5>1, <6>1, FieldsKept DEF Own
        <5>2. QED
          BY <5>1 DEF Closed
      <4>5. QED
        BY <1>1, <3>2, <4>3, <4>4 DEF RInv
    <3>3. QED
      BY <3>1, <3>2
  <2>2. IsFiniteSet(X) /\ Cardinality(X) <= Cardinality(Messages) + 1
    <3>1. IsFiniteSet(plain) /\ Cardinality(plain) <= Cardinality(Messages)
      <4> DEFINE g == [m \in Messages |-> Key(m, FALSE)]
      <4>1. g \in Surjection(Messages, plain)
        BY DEF Surjection
      <4>2. QED
        BY <4>1, FS_Surjection
    <3>2. Cardinality(plain) \in Nat /\ Cardinality(Messages) \in Nat
      BY <3>1, FS_CardinalityType
    <3> HIDE DEF plain
    <3>3. IsFiniteSet(X) /\ (Cardinality(X) = Cardinality(plain)
                               \/ Cardinality(X) = Cardinality(plain) + 1)
      BY <3>1, FS_AddElement
    <3>4. QED
      BY <3>1, <3>2, <3>3
  <2>3. StackKeys(stack) \subseteq X
    BY <1>1, <2>1 DEF IInv, Balanced, OpenKeys
  <2>4. stack \in Seq(Range(stack)) /\ Len(stack) \in Nat /\ DOMAIN stack = 1..Len(stack)
    BY <1>1 DEF IInv, Balanced, Frames
  <2> HIDE DEF X
  <2> DEFINE h == [i \in 1..Len(stack) |-> stack[i].key]
  <2>5. h \in Injection(1..Len(stack), X)
    <3>1. \A i \in 1..Len(stack) : stack[i].key \in X
      BY <2>3, <2>4 DEF StackKeys
    <3>2. \A i, j \in 1..Len(stack) : stack[i].key = stack[j].key => i = j
      BY <1>1, <2>4 DEF IInv, Balanced, Distinct
    <3>3. QED
      BY <3>1, <3>2 DEF Injection, IsInjective
  <2>6. Cardinality(1..Len(stack)) <= Cardinality(X)
    BY <2>2, <2>5, FS_Injection
  <2>7. Cardinality(1..Len(stack)) = Len(stack)
    BY <2>4, FS_Interval
  <2>8. Cardinality(X) \in Nat /\ Cardinality(Messages) \in Nat
    BY <2>2, FS_CardinalityType
  <2>9. QED
    BY <2>2, <2>4, <2>6, <2>7, <2>8 DEF DepthBounded
<1> HIDE DEF plain, X
<1>2. Init /\ [](IInv /\ SInv) /\ [][Next]_vars => []RInv
  BY ReferredInit, ReferredNext, PTL
<1>3. QED
  BY <1>1, <1>2, SchemasAlways, PTL DEF Spec
-----------------------------------------------------------------------------
(* The type invariant.  Every schema has the fields of Schema.             *)
Shape == DOMAIN Schema({})

LEMMA SchemasShaped ==
  \A types, format : DOMAIN Schema(types) = Shape /\ DOMAIN Formatted(types, format) = Shape
BY DEF Shape, Schema, Formatted

LEMMA AnnotatedShaped ==
  ASSUME NEW f, NEW s
  PROVE  /\ DOMAIN Annotated(f, s) = DOMAIN s
         /\ DOMAIN Null(s) = DOMAIN s
         /\ DOMAIN applyNullable(f, s) = DOMAIN s
<1>1. DOMAIN Null(s) = DOMAIN s
  BY DEF Null
<1>2. DOMAIN Annotated(f, s) = DOMAIN s
  <2> DEFINE a == getReadOnlySpec(f)
             b == f.deprecated \/ getFieldDeprecation(f) # "none"
             c == getFieldStability(f)
             d == Sunset(getFieldDeprecation(f))
             e == annotationBag(f)
  <2>1. Annotated(f, s) = [s EXCEPT !.readOnly = a, !.deprecated = b, !.stability = c,
                                    !.sunset = d, !.bag = e]
    BY DEF Annotated
  <2> HIDE DEF a, b, c, d, e
  <2>2. QED
    BY <2>1
<1>3. QED
  BY <1>1, <1>2 DEF applyNullable

LEMMA ScalarShaped ==
  ASSUME NEW kind \in Scalars
  PROVE  DOMAIN schemaForScalar(kind) = Shape
<1>1. CASE kind \in {"double", "float"}
  BY <1>1, SchemasShaped DEF schemaForScalar
<1>2. CASE kind \in {"int64", "sfixed64", "sint64"}
  BY <1>2, SchemasShaped DEF schemaForScalar
<1>3. CASE kind \in {"int32", "sfixed32", "sint32"}
  BY <1>3, SchemasShaped DEF schemaForScalar
<1>4. CASE kind \in {"uint64", "fixed64"}
  BY <1>4, SchemasShaped DEF schemaForScalar
<1>5. CASE kind \in {"uint32", "fixed32"}
  BY <1>5, SchemasShaped DEF schemaForScalar
<1>6. CASE kind \in {"string", "bytes", "bool"}
  BY <1>6, SchemasShaped DEF schemaForScalar
<1>7. QED
  BY <1>1, <1>2, <1>3, <1>4, <1>5, <1>6 DEF Scalars

LEMMA WellKnownShaped ==
  ASSUME NEW wkt \in WellKnownNames
  PROVE  DOMAIN schemaForWKT(wkt) = Shape
<1>1. CASE wkt \in {"Any", "Struct", "Duration", "Timestamp", "Empty", "Value"}
  BY <1>1, SchemasShaped DEF schemaForWKT
<1>2. CASE wkt \in {"ListValue", "DoubleValue", "FloatValue", "Int64Value", "UInt64Value"}
  BY <1>2, SchemasShaped DEF schemaForWKT
<1>3. CASE wkt \in {"Int32Value", "UInt32Value", "BoolValue", "StringValue", "BytesValue",
                    "FieldMask"}
  BY <1>3, SchemasShaped DEF schemaForWKT
<1>4. QED
  BY <1>1, <1>2, <1>3 DEF WellKnownNames

LEMMA ElementShaped ==
  ASSUME NEW f \in FieldType, NEW readOnly
  PROVE  /\ DOMAIN MessageRef(f.type, readOnly) = Shape
         /\ DOMAIN Enum = Shape
<1>1. CASE IsWellKnown(f.type)
  <2>1. ShortName[f.type] \in WellKnownNames
    BY <1>1, NamesAssumption DEF IsWellKnown, WellKnownNames
  <2>2. QED
    BY <1>1, <2>1, WellKnownShaped, SchemasShaped DEF MessageRef, Enum
<1>2. CASE ~IsWellKnown(f.type)
  BY <1>2, SchemasShaped DEF MessageRef, Enum
<1>3. QED
  BY <1>1, <1>2

LEMMA FieldShaped ==
  ASSUME NEW f \in FieldType
  PROVE  DOMAIN SchemaOfField(f) = Shape
<1> DEFINE ref == MessageRef(f.type, getReadOnlySpec(f))
           scalar == schemaForScalar(f.kind)
           list == [Schema({"array", "null"}) EXCEPT
                      !.items = <<FieldTypeElem(f, getReadOnlySpec(f))>>]
           map == [Schema({"object"}) EXCEPT
                      !.items = <<FieldTypeElem(f, getReadOnlySpec(f))>>]
<1>1. DOMAIN ref = Shape /\ DOMAIN Enum = Shape /\ DOMAIN list = Shape /\ DOMAIN map = Shape
  BY ElementShaped, SchemasShaped
<1>2. f.kind \notin {"enum", "message"} => DOMAIN scalar = Shape
  BY ScalarShaped DEF FieldType
<1> DEFINE one == Annotated(f, applyNullable(f, scalar))
           enum == Annotated(f, applyNullable(f, Enum))
<1>3. SchemaOfField(f) =
        IF f.label = "repeated" THEN Annotated(f, list)
        ELSE IF f.label = "map" THEN Annotated(f, applyNullable(f, map))
        ELSE IF f.kind = "enum" THEN enum
        ELSE IF f.kind = "message" THEN Null(ref)
        ELSE one
  <2>1. f.label \in {"one", "repeated", "map"}
    BY DEF FieldType
  <2> HIDE DEF ref, scalar, list, map
  <2>2. SchemaOfField(f) =
          CASE f.label = "repeated" -> Annotated(f, list)
            [] f.label = "map" -> Annotated(f, applyNullable(f, map))
            [] f.label = "one" /\ f.kind = "enum" -> enum
            [] f.label = "one" /\ f.kind = "message" -> Null(ref)
            [] OTHER -> one
    BY DEF SchemaOfField, ref, scalar, list, map
  <2> HIDE DEF one, enum
  <2>3. QED
    BY <2>1, <2>2
<1> HIDE DEF ref, scalar, list, map
<1>4. /\ DOMAIN one = DOMAIN scalar /\ DOMAIN enum = DOMAIN Enum
      /\ DOMAIN Annotated(f, list) = DOMAIN list
      /\ DOMAIN Annotated(f, applyNullable(f, map)) = DOMAIN map
      /\ DOMAIN Null(ref) = DOMAIN ref
  <2>1. \A s : /\ DOMAIN Annotated(f, s) = DOMAIN s
               /\ DOMAIN applyNullable(f, s) = DOMAIN s
               /\ DOMAIN Null(s) = DOMAIN s
    BY AnnotatedShaped
  <2>2. DOMAIN one = DOMAIN scalar
    BY <2>1
  <2>3. DOMAIN enum = DOMAIN Enum
    BY <2>1
  <2>4. QED
    BY <2>1, <2>2, <2>3
<1> HIDE DEF one, enum
<1>5. CASE f.label = "repeated"
  <2>1. SchemaOfField(f) = Annotated(f, list)
    BY <1>3, <1>5
  <2>2. QED
    BY <1>1, <1>4, <2>1
<1>6. CASE f.label = "map"
  <2>1. SchemaOfField(f) = Annotated(f, applyNullable(f, map))
    BY <1>3, <1>6
  <2>2. QED
    BY <1>1, <1>4, <2>1
<1>7. CASE f.label \notin {"repeated", "map"} /\ f.kind = "enum"
  <2>1. SchemaOfField(f) = enum
    BY <1>3, <1>7
  <2>2. QED
    BY <1>1, <1>4, <2>1
<1>8. CASE f.label \notin {"repeated", "map"} /\ f.kind = "message"
  <2>1. SchemaOfField(f) = Null(ref)
    BY <1>3, <1>8
  <2>2. QED
    BY <1>1, <1>4, <2>1
<1>9. CASE f.label \notin {"repeated", "map"} /\ f.kind \notin {"enum", "message"}
  <2>1. SchemaOfField(f) = one
    BY <1>3, <1>9
  <2>2. QED
    BY <1>1, <1>4, <2>1, <1>2, <1>9
<1>10. QED
  BY <1>5, <1>6, <1>7, <1>8, <1>9

(* The parameters of an operation, each of a field there is.               *)
Fielded(ps) == \A p \in Range(ps) : DOMAIN p.schema = Shape

LEMMA ParametersFielded ==
  ASSUME op \in OperationSet
  PROVE  Fielded(PathParameters \o QueryParameters)
<1> DEFINE tkn == ParseRoute(op.rpc.route)
           params == ParamsOf(tkn)
           queries == QueryNames(op.rpc)
<1>1. /\ op.rpc.route \in RouteSet
      /\ \A name \in Range(params) : Leads(op.rpc.in, Parts[name])
      /\ \A key \in Range(queries) : Leads(op.rpc.in, <<op.rpc.query[key]>>)
  BY OperationsAssumption
<1>2. tkn \in Seq(Parsed)
  BY <1>1, ParsedRoute
<1>3. PICK m \in Nat : DOMAIN params = 1..m
  <2>1. Params(tkn) \in Seq(Parsed)
    BY <1>2, SelectedType DEF Params
  <2>2. DOMAIN params = DOMAIN Params(tkn)
    BY DEF ParamsOf
  <2>3. QED
    BY <2>1, <2>2
<1>4. PICK n \in Nat : DOMAIN queries = 1..n
  <2>1. ParamOrder \in Seq(STRING)
    BY OrderAssumption
  <2>2. queries \in Seq(STRING)
    BY <2>1, SelectedType DEF QueryNames
  <2>3. QED
    BY <2>2
<1> HIDE DEF tkn, params, queries
<1> DEFINE ps == [i \in 1..m |-> Parameter("path", Parts[params[i]])]
           qs == [i \in 1..n |-> Parameter("query", <<op.rpc.query[queries[i]]>>)]
           S == Range(ps) \cup Range(qs)
<1>5. PathParameters = ps /\ QueryParameters = qs
  BY <1>3, <1>4 DEF PathParameters, QueryParameters, params, queries, tkn
<1>6. \A in, path : Leads(op.rpc.in, path) => DOMAIN Parameter(in, path).schema = Shape
  BY FieldShaped DEF Leads, Parameter
<1>7. Fielded(ps)
  BY <1>1, <1>3, <1>6 DEF Fielded, Range
<1>8. Fielded(qs)
  BY <1>1, <1>4, <1>6 DEF Fielded, Range
<1>9. ps \in Seq(S) /\ qs \in Seq(S)
  <2>1. /\ \A i \in 1..m : ps[i] \in S
        /\ \A i \in 1..n : qs[i] \in S
    BY DEF Range
  <2>2. ps = [i \in 1..m |-> ps[i]] /\ qs = [i \in 1..n |-> qs[i]]
    OBVIOUS
  <2> HIDE DEF ps, qs, S
  <2>3. QED
    BY <2>1, <2>2
<1> HIDE DEF ps, qs
<1>10. Range(ps \o qs) = Range(ps) \cup Range(qs)
  BY <1>9, RangeOfConcat
<1>11. QED
  BY <1>5, <1>7, <1>8, <1>10 DEF Fielded

(* What TypeOK says and EInv and SInv do not.                              *)
FromEntities(values) ==
  Range(values) \subseteq {NullValue} \cup {EntityValue(te) : te \in Range(op.entities)}

Objects(ss) == \A k \in DOMAIN ss : DOMAIN ss[k] = DOMAIN Placeholder

TInv ==
  /\ FromEntities(datasource) /\ FromEntities(resource)
  /\ \E S : datasource \in Seq(S) /\ resource \in Seq(S)
  /\ DOMAIN extensions = DOMAIN NoExtensions
  /\ Fielded(parameters)
  /\ Objects(schemas)

LEMMA AppendedFromEntities ==
  ASSUME NEW S, NEW values \in Seq(S), FromEntities(values), op.entities \in Seq(EntityType),
         NEW te \in Range(op.entities), NEW v \in {NullValue, EntityValue(te)}
  PROVE  /\ FromEntities(Appended(values, v))
         /\ Appended(values, v) \in Seq(S \cup {v})
<1>1. Range(Append(values, v)) = Range(values) \cup {v} /\ Append(values, v) \in Seq(S \cup {v})
  <2>1. values \in Seq(S \cup {v}) /\ Len(values) \in Nat /\ DOMAIN values = 1..Len(values)
    OBVIOUS
  <2>2. /\ DOMAIN Append(values, v) = 1..(Len(values) + 1)
        /\ Append(values, v)[Len(values) + 1] = v
        /\ \A i \in 1..Len(values) : Append(values, v)[i] = values[i]
    BY <2>1
  <2>3. QED
    BY <2>1, <2>2 DEF Range
<1>2. values \in Seq(S \cup {v})
  OBVIOUS
<1>3. Appended(values, v) = values \/ Appended(values, v) = Append(values, v)
  BY DEF Appended
<1>4. v \in {NullValue} \cup {EntityValue(e) : e \in Range(op.entities)}
  OBVIOUS
<1>5. FromEntities(Append(values, v))
  BY <1>1, <1>4 DEF FromEntities
<1>6. QED
  BY <1>1, <1>2, <1>3, <1>5

LEMMA MessageObjects ==
  ASSUME NEW key, NEW s, Message(key, s), Objects(schemas)
  PROVE  Objects(schemas')
<1>1. schemas' = schemas \/ schemas' = Placed(key)
  BY DEF Message
<1>2. Objects(Placed(key))
  BY DEF Objects, Placed
<1>3. QED
  BY <1>1, <1>2

LEMMA TypesNext == IInv /\ EInv /\ TInv /\ [Next]_vars => TInv'
<1> SUFFICES ASSUME IInv, EInv, TInv, [Next]_vars PROVE TInv'
  OBVIOUS
<1>1. op' = op
  BY DEF Next, TerraformEntity, Extensions, Parameters, Track, RenderField, Close, Finish, vars
<1>2. /\ op \in OperationSet /\ op.entities \in Seq(EntityType)
  BY OperationsAssumption DEF EInv
<1>3. \A values : FromEntities(values)' <=> FromEntities(values)
  BY <1>1 DEF FromEntities
<1>4. ASSUME UNCHANGED <<datasource, resource, extensions, parameters>>, Objects(schemas')
      PROVE  TInv'
  BY <1>1, <1>4 DEF TInv, FromEntities, Fielded, Objects
<1>5. CASE TerraformEntity
  <2> DEFINE te == op.entities[at]
  <2>1. /\ at \in DOMAIN op.entities
        /\ UNCHANGED <<extensions, parameters, schemas>>
        /\ resource' = resource \/ resource' = Appended(resource, Resource(te))
        /\ datasource' = datasource \/ datasource' = Appended(datasource, Datasource(te))
    BY <1>2, <1>5 DEF TerraformEntity, EInv
  <2>2. /\ te \in Range(op.entities)
        /\ Resource(te) \in {NullValue, EntityValue(te)}
        /\ Datasource(te) \in {NullValue, EntityValue(te)}
    BY <2>1 DEF Range, Resource, Datasource
  <2>3. PICK S : datasource \in Seq(S) /\ resource \in Seq(S)
    BY DEF TInv
  <2> DEFINE T == S \cup {Resource(te), Datasource(te)}
  <2>4. datasource \in Seq(T) /\ resource \in Seq(T)
    BY <2>3
  <2> HIDE DEF te, T
  <2>5. /\ FromEntities(resource') /\ FromEntities(datasource')
    <3>1. FromEntities(resource) /\ FromEntities(datasource)
      BY DEF TInv
    <3>2. QED
      BY <1>2, <2>1, <2>2, <2>3, <3>1, AppendedFromEntities
  <2>6. resource' \in Seq(T) /\ datasource' \in Seq(T)
    <3>1. FromEntities(resource) /\ FromEntities(datasource)
      BY DEF TInv
    <3>2. T \cup {Resource(te)} = T /\ T \cup {Datasource(te)} = T
      BY DEF T
    <3>3. /\ Appended(resource, Resource(te)) \in Seq(T \cup {Resource(te)})
          /\ Appended(datasource, Datasource(te)) \in Seq(T \cup {Datasource(te)})
      BY <1>2, <2>2, <2>4, <3>1, AppendedFromEntities
    <3>4. QED
      BY <2>1, <2>4, <3>2, <3>3
  <2>7. QED
    BY <1>1, <2>1, <2>5, <2>6 DEF TInv, FromEntities, Fielded, Objects
<1>6. CASE Extensions
  <2>1. /\ UNCHANGED <<datasource, resource, parameters, schemas>>
        /\ extensions' = extensions \/ DOMAIN extensions' = DOMAIN NoExtensions
    BY <1>6 DEF Extensions, NoExtensions
  <2>2. QED
    BY <1>1, <2>1 DEF TInv, FromEntities, Fielded, Objects, NoExtensions
<1>7. CASE Parameters
  <2>1. /\ UNCHANGED <<datasource, resource, extensions, schemas>>
        /\ parameters' = PathParameters \o QueryParameters
    BY <1>7 DEF Parameters
  <2>2. Fielded(parameters')
    BY <1>2, <2>1, ParametersFielded
  <2>3. QED
    BY <1>1, <2>1, <2>2 DEF TInv, FromEntities, Fielded, Objects
<1>8. ASSUME NEW key \in todo, Track(key) PROVE TInv'
  <2>1. Objects(schemas')
    BY <1>8, MessageObjects DEF Track, TInv
  <2>2. QED
    BY <1>4, <1>8, <2>1 DEF Track
<1>9. CASE RenderField
  <2>1. Objects(schemas')
    <3>1. \/ \E key, s : Message(key, s)
          \/ schemas' = schemas
      BY <1>9 DEF RenderField
    <3>2. QED
      BY <3>1, MessageObjects DEF TInv
  <2>2. QED
    BY <1>4, <1>9, <2>1 DEF RenderField
<1>10. CASE Close
  <2>1. Objects(schemas')
    <3>1. schemas' = [schemas EXCEPT ![Top.key] = Object(Top.key)]
      BY <1>10 DEF Close
    <3>2. DOMAIN Object(Top.key) = DOMAIN Placeholder
      BY DEF Object, Placeholder
    <3>3. QED
      BY <3>1, <3>2 DEF Objects, TInv
  <2>2. QED
    BY <1>4, <1>10, <2>1 DEF Close
<1>11. CASE Finish
  BY <1>4, <1>11 DEF Finish, TInv
<1>12. CASE UNCHANGED vars
  BY <1>4, <1>12 DEF vars, TInv
<1>13. QED
  BY <1>5, <1>6, <1>7, <1>8, <1>9, <1>10, <1>11, <1>12 DEF Next

(* TypeOK: the values of the extension come from the entities, and all     *)
(* schemas, those of parameters and those under way too, are complete      *)
(* records.                                                                *)
THEOREM OperationTypeCorrect == Spec => []TypeOK
<1>1. Init => TInv
  <2>1. Range(<<>>) = {} /\ <<>> \in Seq({})
    BY DEF Range
  <2>2. QED
    BY <2>1 DEF Init, TInv, FromEntities, Fielded, Objects
<1>2. Spec => [](IInv /\ SInv /\ EInv /\ TInv)
  BY <1>1, TypesNext, SchemasAlways, ExtensionsAlways, PTL DEF Spec
<1>3. EInv /\ SInv /\ TInv => TypeOK
  <2> SUFFICES ASSUME EInv, SInv, TInv PROVE TypeOK
    OBVIOUS
  <2>1. \A key \in todo \cup DOMAIN schemas : key.message \in Messages /\ key.input \in BOOLEAN
    BY DEF SInv, KeyType
  <2>2. QED
    BY <2>1 DEF TypeOK, EInv, SInv, TInv, FromEntities, Fielded, Objects, Shape
<1>4. QED
  BY <1>2, <1>3, PTL
-----------------------------------------------------------------------------
(* That buildOperation ends, but for the fairness: what is left to do, the *)
(* first of the numbers that changes deciding.                             *)
PhasesLeft ==
  CASE phase = "entities" -> 3 [] phase = "parameters" -> 2 [] phase = "schemas" -> 1
    [] OTHER -> 0
EntitiesLeft == Len(op.entities) + 1 - at
Unopened == Cardinality(KeyType \ DOMAIN schemas)
FieldsLeft == IF stack = <<>> THEN 0 ELSE Len(Top.left)

Effort == <<PhasesLeft, EntitiesLeft, Unopened, Cardinality(todo), Len(stack), FieldsLeft>>
LeavesLess == <<Effort', Effort>> \in Lower

EffortType ==
  /\ PhasesLeft \in Nat /\ EntitiesLeft \in Nat /\ Unopened \in Nat
  /\ Cardinality(todo) \in Nat /\ Len(stack) \in Nat /\ FieldsLeft \in Nat

LEMMA KeysFinite ==
  ASSUME IsFiniteSet(Messages)
  PROVE  IsFiniteSet(KeyType)
<1> DEFINE plain == {Key(m, FALSE) : m \in Messages}
           input == {Key(m, TRUE) : m \in Messages}
<1>1. IsFiniteSet(plain)
  <2> DEFINE g == [m \in Messages |-> Key(m, FALSE)]
  <2>1. g \in Surjection(Messages, plain)
    BY DEF Surjection
  <2>2. QED
    BY <2>1, FS_Surjection
<1>2. IsFiniteSet(input)
  <2> DEFINE g == [m \in Messages |-> Key(m, TRUE)]
  <2>1. g \in Surjection(Messages, input)
    BY DEF Surjection
  <2>2. QED
    BY <2>1, FS_Surjection
<1>3. KeyType \subseteq plain \cup input
  <2>1. ASSUME NEW k \in KeyType PROVE k \in plain \cup input
    <3>1. k.message \in Messages /\ k.input \in BOOLEAN /\ k = Key(k.message, k.input)
      BY DEF KeyType, Key
    <3>2. CASE k.input = TRUE
      BY <3>1, <3>2
    <3>3. CASE k.input = FALSE
      BY <3>1, <3>3
    <3>4. QED
      BY <3>1, <3>2, <3>3
  <2>2. QED
    BY <2>1
<1> HIDE DEF plain, input
<1>4. IsFiniteSet(plain \cup input)
  BY <1>1, <1>2, FS_Union
<1>5. QED
  BY <1>3, <1>4, FS_Subset

LEMMA EffortTyped ==
  ASSUME IsFiniteSet(Messages), IInv, SInv, EInv
  PROVE  EffortType
<1>1. PhasesLeft \in Nat
  <2>1. PhasesLeft \in {0, 1, 2, 3}
    BY DEF PhasesLeft
  <2>2. QED
    BY <2>1
<1>2. EntitiesLeft \in Nat
  <2>1. op.entities \in Seq(EntityType) /\ at \in 1..(Len(op.entities) + 1)
    BY OperationsAssumption DEF EInv
  <2>2. Len(op.entities) \in Nat
    BY <2>1
  <2>3. QED
    BY <2>1, <2>2 DEF EntitiesLeft
<1>3. Unopened \in Nat /\ Cardinality(todo) \in Nat
  <2>1. IsFiniteSet(KeyType \ DOMAIN schemas) /\ IsFiniteSet(todo)
    BY KeysFinite, FS_Subset DEF SInv
  <2>2. QED
    BY <2>1, FS_CardinalityType DEF Unopened
<1>4. stack \in Seq(Range(stack)) /\ Len(stack) \in Nat /\ DOMAIN stack = 1..Len(stack)
  BY DEF IInv, Balanced, Frames
<1>5. FieldsLeft \in Nat
  <2>1. CASE stack = <<>>
    BY <2>1 DEF FieldsLeft
  <2>2. CASE stack # <<>>
    <3>1. Len(stack) \in DOMAIN stack
      BY <1>4, <2>2
    <3>2. Top.left \in Seq(Own(Top.key))
      BY <3>1 DEF Top, SInv, Underway
    <3>3. Len(Top.left) \in Nat
      BY <3>2
    <3>4. QED
      BY <2>2, <3>3 DEF FieldsLeft
  <2>3. QED
    BY <2>1, <2>2
<1>6. QED
  BY <1>1, <1>2, <1>3, <1>4, <1>5 DEF EffortType

(* sc.Message opens what has no schema, or goes on.                        *)
LEMMA MessageEffort ==
  ASSUME IsFiniteSet(Messages), SInv, NEW s, NEW key \in KeyType, Message(key, s)
  PROVE  \/ Unopened' < Unopened
         \/ Unopened' = Unopened /\ stack' = s
<1>1. CASE IsWellKnown(key.message) \/ key \in DOMAIN schemas
  BY <1>1 DEF Message, Unopened
<1>2. CASE ~(IsWellKnown(key.message) \/ key \in DOMAIN schemas)
  <2> DEFINE old == KeyType \ DOMAIN schemas
             new == KeyType \ DOMAIN schemas'
  <2>1. DOMAIN schemas' = DOMAIN schemas \cup {key}
    BY <1>2 DEF Message, Placed
  <2>2. new = old \ {key} /\ key \in old
    BY <1>2, <2>1
  <2>3. IsFiniteSet(old)
    BY KeysFinite, FS_Subset
  <2> HIDE DEF old, new
  <2>4. Cardinality(new) = Cardinality(old) - 1 /\ Cardinality(old) \in Nat
    BY <2>2, <2>3, FS_RemoveElement, FS_CardinalityType
  <2>5. QED
    BY <2>4 DEF Unopened, old, new
<1>3. QED
  BY <1>1, <1>2

LEMMA EffortFalls ==
  ASSUME IsFiniteSet(Messages), IInv, SInv, EInv, EffortType, EffortType', Next
  PROVE  LeavesLess
<1> DEFINE a1 == PhasesLeft        a2 == PhasesLeft'
           b1 == EntitiesLeft      b2 == EntitiesLeft'
           c1 == Unopened          c2 == Unopened'
           d1 == Cardinality(todo) d2 == Cardinality(todo')
           e1 == Len(stack)        e2 == Len(stack')
           f1 == FieldsLeft        f2 == FieldsLeft'
<1>1. a1 \in Nat /\ b1 \in Nat /\ c1 \in Nat /\ d1 \in Nat /\ e1 \in Nat /\ f1 \in Nat
  BY DEF EffortType
<1>2. a2 \in Nat /\ b2 \in Nat /\ c2 \in Nat /\ d2 \in Nat /\ e2 \in Nat /\ f2 \in Nat
  BY DEF EffortType
<1>3. stack # <<>> => /\ stack \in Seq(Range(stack)) /\ Len(stack) \in Nat \ {0}
                      /\ DOMAIN stack = 1..Len(stack) /\ Len(Rest) = Len(stack) - 1
                      /\ Underway(Top, schemas) /\ Top.key \in DOMAIN schemas
                      /\ Top.key \in KeyType /\ DOMAIN Top = {"key", "left"}
                      /\ phase = "schemas" /\ Rest \in Seq(Range(stack))
  <2>1. SUFFICES ASSUME stack # <<>>
        PROVE  /\ stack \in Seq(Range(stack)) /\ Len(stack) \in Nat \ {0}
               /\ DOMAIN stack = 1..Len(stack) /\ Len(Rest) = Len(stack) - 1
               /\ Underway(Top, schemas) /\ Top.key \in DOMAIN schemas
               /\ Top.key \in KeyType /\ DOMAIN Top = {"key", "left"}
               /\ phase = "schemas" /\ Rest \in Seq(Range(stack))
    OBVIOUS
  <2>2. stack \in Seq(Range(stack)) /\ Len(stack) \in Nat \ {0} /\ DOMAIN stack = 1..Len(stack)
    BY <2>1 DEF IInv, Balanced, Frames
  <2>3. Len(Rest) = Len(stack) - 1 /\ Rest \in Seq(Range(stack))
    BY <2>2 DEF Rest
  <2>4. Underway(Top, schemas) /\ DOMAIN Top = {"key", "left"}
    BY <2>2 DEF Top, SInv, IInv, Balanced, Frames
  <2>5. Top.key \in DOMAIN schemas
    BY <2>2 DEF Top, IInv, Balanced, StackKeys, OpenKeys
  <2>6. Top.key \in KeyType /\ phase = "schemas"
    BY <2>1, <2>5 DEF SInv, Idle
  <2>7. QED
    BY <2>2, <2>3, <2>4, <2>5, <2>6
<1>4. CASE TerraformEntity
  <2>1. /\ phase' = phase /\ op' = op /\ at' = at + 1
    BY <1>4 DEF TerraformEntity
  <2>2. op.entities \in Seq(EntityType) /\ at \in 1..(Len(op.entities) + 1)
    BY OperationsAssumption DEF EInv
  <2>3. Len(op.entities) \in Nat
    BY <2>2
  <2>4. a2 = a1 /\ b2 < b1
    BY <2>1, <2>2, <2>3 DEF PhasesLeft, EntitiesLeft
  <2> HIDE DEF a1, a2, b1, b2, c1, c2, d1, d2, e1, e2, f1, f2
  <2>5. << <<a2, b2, c2, d2, e2, f2>>, <<a1, b1, c1, d1, e1, f1>> >> \in Lower
    BY <1>1, <1>2, <2>4, SixLower
  <2>6. QED
    BY <2>5 DEF LeavesLess, Effort, a1, a2, b1, b2, c1, c2, d1, d2, e1, e2, f1, f2
<1>5. CASE Extensions \/ Parameters \/ Finish
  <2>1. \/ phase = "entities" /\ phase' \in {"panic", "failed", "parameters"}
        \/ phase = "parameters" /\ phase' = "schemas"
        \/ phase = "schemas" /\ phase' = "done"
    BY <1>5 DEF Extensions, Parameters, Finish
  <2>2. a2 < a1
    BY <2>1 DEF PhasesLeft
  <2> HIDE DEF a1, a2, b1, b2, c1, c2, d1, d2, e1, e2, f1, f2
  <2>3. << <<a2, b2, c2, d2, e2, f2>>, <<a1, b1, c1, d1, e1, f1>> >> \in Lower
    BY <1>1, <1>2, <2>2, SixLower
  <2>4. QED
    BY <2>3 DEF LeavesLess, Effort, a1, a2, b1, b2, c1, c2, d1, d2, e1, e2, f1, f2
<1>6. ASSUME UNCHANGED <<op, phase, at>>,
             \/ c2 < c1
             \/ c2 = c1 /\ d2 < d1
             \/ c2 = c1 /\ d2 = d1 /\ e2 < e1
             \/ c2 = c1 /\ d2 = d1 /\ e2 = e1 /\ f2 < f1
      PROVE  LeavesLess
  <2>1. a2 = a1 /\ b2 = b1
    BY <1>6 DEF PhasesLeft, EntitiesLeft
  <2> HIDE DEF a1, a2, b1, b2, c1, c2, d1, d2, e1, e2, f1, f2
  <2>2. << <<a2, b2, c2, d2, e2, f2>>, <<a1, b1, c1, d1, e1, f1>> >> \in Lower
    BY <1>1, <1>2, <1>6, <2>1, SixLower
  <2>3. QED
    BY <2>2 DEF LeavesLess, Effort, a1, a2, b1, b2, c1, c2, d1, d2, e1, e2, f1, f2
<1>7. ASSUME NEW key \in todo, Track(key) PROVE LeavesLess
  <2>1. todo' = todo \ {key} /\ Message(key, stack) /\ UNCHANGED <<op, phase, at>>
    BY <1>7 DEF Track
  <2>2. c2 < c1 \/ c2 = c1
    BY <2>1, MessageEffort DEF SInv
  <2>3. IsFiniteSet(todo)
    BY KeysFinite, FS_Subset DEF SInv
  <2>4. d2 < d1
    <3>1. d2 = d1 - 1
      BY <2>1, <2>3, FS_RemoveElement
    <3>2. QED
      BY <1>1, <3>1
  <2>5. QED
    BY <1>6, <2>1, <2>2, <2>4
<1>8. CASE RenderField
  <2> DEFINE f == Head(Top.left)
             key == Key(f.type, FALSE)
             top == [Top EXCEPT !.left = Tail(@)]
             s == Append(Rest, top)
  <2>1. /\ stack # <<>> /\ Top.left # <<>> /\ UNCHANGED <<op, phase, at, todo>>
        /\ IF f.kind = "message" THEN Message(key, s) ELSE stack' = s /\ UNCHANGED schemas
    BY <1>8 DEF RenderField
  <2>2. /\ f \in Own(Top.key) /\ Len(Top.left) \in Nat
        /\ Len(Tail(Top.left)) = Len(Top.left) - 1
    <3>1. Top.left \in Seq(Own(Top.key)) /\ Top.left # <<>>
      BY <1>3, <2>1 DEF Underway
    <3>2. \A S : \A t \in Seq(S) : t # <<>> =>
            Head(t) \in S /\ Len(t) \in Nat /\ Len(Tail(t)) = Len(t) - 1
      OBVIOUS
    <3>3. QED
      BY <3>1, <3>2
  <2>3. top.left = Tail(Top.left)
    BY <1>3, <2>1
  <2>4. f.kind = "message" => key \in KeyType
    <3>1. f.kind = "message" => f.type \in Messages
      BY <1>3, <2>1, <2>2, FieldsKept DEF Own, KeyType
    <3>2. QED
      BY <3>1 DEF Key, KeyType
  <2>5. Len(s) = Len(stack) /\ s # <<>> /\ s[Len(s)] = top
    <3> HIDE DEF top
    <3>1. Rest \in Seq(Range(stack)) /\ Len(Rest) = Len(stack) - 1 /\ Len(stack) \in Nat
      BY <1>3, <2>1
    <3>2. \A S : \A t \in Seq(S) : \A e :
            /\ Len(Append(t, e)) = Len(t) + 1 /\ Append(t, e) # <<>>
            /\ Append(t, e)[Len(t) + 1] = e
      OBVIOUS
    <3>3. QED
      BY <3>1, <3>2
  <2>6. c2 < c1 \/ (c2 = c1 /\ stack' = s)
    <3> HIDE DEF f, key, top, s
    <3>1. CASE f.kind = "message"
      BY <2>1, <2>4, <3>1, MessageEffort
    <3>2. CASE f.kind # "message"
      BY <2>1, <3>2 DEF Unopened
    <3>3. QED
      BY <3>1, <3>2
  <2>7. stack' = s => e2 = e1 /\ f2 < f1
    <3>1. FieldsLeft = Len(Top.left)
      BY <2>1 DEF FieldsLeft
    <3>2. ASSUME stack' = s PROVE FieldsLeft' = Len(Tail(Top.left))
      <4>1. stack' # <<>> /\ Top' = top
        BY <2>5, <3>2 DEF Top
      <4>2. FieldsLeft' = Len(Top'.left)
        BY <4>1 DEF FieldsLeft
      <4>3. QED
        BY <2>3, <4>1, <4>2
    <3> HIDE DEF s
    <3>3. QED
      BY <2>2, <2>5, <3>1, <3>2
  <2>8. d2 = d1
    BY <2>1
  <2>9. UNCHANGED <<op, phase, at>>
    BY <2>1
  <2> HIDE DEF s, c1, c2, d1, d2, e1, e2, f1, f2
  <2>10. QED
    BY <1>6, <2>6, <2>7, <2>8, <2>9
<1>9. CASE Close
  <2>1. /\ stack # <<>> /\ stack' = Rest /\ UNCHANGED <<op, phase, at, todo>>
        /\ DOMAIN schemas' = DOMAIN schemas
    BY <1>9 DEF Close
  <2>2. c2 = c1 /\ d2 = d1
    BY <2>1 DEF Unopened
  <2>3. e2 < e1
    BY <1>3, <2>1
  <2>4. QED
    BY <1>6, <2>1, <2>2, <2>3
<1>10. QED
  BY <1>4, <1>5, <1>7, <1>8, <1>9 DEF Next

(* Each step of buildOperation leaves less to do, however messages contain *)
(* each other, and what is left cannot fall without end: the recursion     *)
(* into the messages of messages ends.                                     *)
THEOREM RenderingGoesDown ==
  ASSUME IsFiniteSet(Messages)
  PROVE  IsWellFoundedOn(Lower, Measures) /\ (Spec => [][LeavesLess]_vars)
<1>1. IInv /\ SInv /\ EInv /\ EffortType /\ EffortType' /\ [Next]_vars => [LeavesLess]_vars
  BY EffortFalls
<1>2. IInv /\ SInv /\ EInv => EffortType
  BY EffortTyped
<1>3. Spec => [][LeavesLess]_vars
  BY <1>1, <1>2, SchemasAlways, ExtensionsAlways, PTL DEF Spec
<1>4. QED
  BY <1>3, LowerEnds
=============================================================================
