-------------------------- MODULE Converters_proofs --------------------------
(***************************************************************************)
(* The recursions over paths of names and of numbers: that the functions   *)
(* of Messages and Converters are what their definitions say, on messages  *)
(* of any depth, and what the steps of a decoder have to do with the       *)
(* fields they fill.  Lemmas for the proofs about the decoder.             *)
(***************************************************************************)
EXTENDS Converters, Routes_proofs

(* A function by recursion on one smaller argument, and that there is one. *)
ByDescent(g, W, into, to, base, comb) ==
  g = [w \in W |-> IF w \in into THEN comb[<<w, g[to[w]]>>] ELSE base[w]]

Smaller(into, to, size) == \A w \in into : size[to[w]] < size[w]

LEMMA Descent ==
  ASSUME NEW W, NEW V, NEW size \in [W -> Nat],
         NEW into \in SUBSET W, NEW to \in [into -> W], Smaller(into, to, size),
         NEW base \in [W -> V], NEW comb \in [W \X V -> V]
  PROVE  \E g \in [W -> V] : ByDescent(g, W, into, to, base, comb)
<1> DEFINE Below(n) == {w \in W : size[w] < n}
           Value(h, w) == IF w \in into THEN comb[<<w, h[to[w]]>>] ELSE base[w]
           Solves(h, n) == h \in [Below(n) -> V] /\ \A w \in Below(n) : h[w] = Value(h, w)
<1>1. ASSUME NEW n \in Nat, NEW w \in into, w \in Below(n + 1)
      PROVE  to[w] \in Below(n)
  <2>1. size[to[w]] < size[w] /\ size[w] < n + 1 /\ size[to[w]] \in Nat /\ size[w] \in Nat
    BY <1>1 DEF Smaller
  <2>2. size[to[w]] < n
    BY <2>1
  <2>3. QED
    BY <2>2
<1>2. ASSUME NEW n \in Nat PROVE Below(n) \subseteq Below(n + 1)
  <2>1. \A w \in W : size[w] \in Nat
    OBVIOUS
  <2>2. QED
    BY <2>1
<1>3. \A h, w : (w \in into => h[to[w]] \in V) /\ w \in W => Value(h, w) \in V
  OBVIOUS
<1>4. Below(0) = {}
  OBVIOUS
<1>5. ASSUME NEW w \in W PROVE w \in Below(size[w] + 1) /\ size[w] \in Nat
  OBVIOUS
<1>6. ASSUME NEW n \in Nat PROVE Below(n) \subseteq W /\ \A w \in Below(n) : size[w] \in Nat /\ size[w] < n
  OBVIOUS
<1>7. ASSUME NEW n \in Nat, NEW w \in Below(n), NEW v \in W, size[v] <= size[w] PROVE v \in Below(n)
  BY <1>7
<1> HIDE DEF Below
<1>8. ASSUME NEW n \in Nat PROVE \E h : Solves(h, n)
  <2> DEFINE T == {k \in Nat : ~\E h : Solves(h, k)}
  <2>1. SUFFICES ASSUME T # {} PROVE FALSE
    OBVIOUS
  <2>2. T \in SUBSET Nat
    OBVIOUS
  <2>3. PICK m \in T : \A k \in T : m <= k
    BY <2>1, <2>2, Least
  <2>4. m # 0
    <3>1. Solves([w \in {} |-> w], 0)
      BY <1>4
    <3>2. QED
      BY <2>3, <3>1
  <2>5. PICK k \in Nat : m = k + 1
    <3>1. m - 1 \in Nat /\ m = (m - 1) + 1
      BY <2>4
    <3>2. QED
      BY <3>1
  <2>6. k \notin T
    BY <2>3, <2>5
  <2>7. PICK h : Solves(h, k)
    BY <2>6
  <2> DEFINE g == [w \in Below(k + 1) |-> Value(h, w)]
  <2>8. ASSUME NEW w \in Below(k + 1), w \in into
        PROVE  to[w] \in Below(k) /\ to[w] \in Below(k + 1) /\ h[to[w]] \in V
    BY <1>1, <1>2, <2>7, <2>8
  <2>9. g \in [Below(k + 1) -> V]
    <3>1. k + 1 \in Nat
      OBVIOUS
    <3>2. \A w \in Below(k + 1) : Value(h, w) \in V
      BY <1>3, <1>6, <2>8, <3>1
    <3> HIDE DEF Value
    <3>3. QED
      BY <3>2
  <2>10. ASSUME NEW w \in Below(k + 1) PROVE g[w] = Value(g, w)
    <3>1. w \in into => g[to[w]] = h[to[w]]
      BY <2>7, <2>8
    <3>2. QED
      BY <3>1
  <2> HIDE DEF g
  <2>11. Solves(g, k + 1)
    BY <2>9, <2>10
  <2>12. QED
    BY <2>3, <2>5, <2>11
<1>9. ASSUME NEW m \in Nat, NEW n \in Nat, NEW g, NEW h, Solves(g, m), Solves(h, n),
             NEW v \in Below(m), v \in Below(n)
      PROVE  g[v] = h[v]
  <2> DEFINE Bad == {w \in Below(m) : w \in Below(n) /\ g[w] # h[w]}
             T == {size[w] : w \in Bad}
  <2>1. SUFFICES ASSUME Bad # {} PROVE FALSE
    BY <1>9
  <2>2. T \in SUBSET Nat /\ T # {}
    BY <1>6, <2>1
  <2>3. PICK s \in T : \A t \in T : s <= t
    BY <2>2, Least
  <2>4. PICK w \in Bad : s = size[w]
    OBVIOUS
  <2>5. g[w] = Value(g, w) /\ h[w] = Value(h, w) /\ g[w] # h[w]
    BY <1>9
  <2>6. w \in into /\ g[to[w]] # h[to[w]]
    BY <2>5
  <2>7. to[w] \in W /\ size[to[w]] < size[w] /\ size[to[w]] \in Nat /\ size[w] \in Nat
    BY <1>6, <2>6 DEF Smaller
  <2>8. to[w] \in Below(m) /\ to[w] \in Below(n)
    BY <1>7, <2>7
  <2>9. to[w] \in Bad
    BY <2>6, <2>8
  <2> HIDE DEF Bad
  <2>10. size[to[w]] \in T
    BY <2>9
  <2> HIDE DEF T
  <2>11. s <= size[to[w]]
    BY <2>3, <2>10
  <2>12. QED
    BY <2>4, <2>7, <2>11
<1> DEFINE H(n) == CHOOSE h : Solves(h, n)
           g == [w \in W |-> H(size[w] + 1)[w]]
<1>10. ASSUME NEW n \in Nat PROVE Solves(H(n), n)
  BY <1>8
<1> HIDE DEF H
<1>11. ASSUME NEW w \in W
       PROVE  g[w] \in V /\ g[w] = Value(g, w)
  <2> DEFINE n == size[w] + 1
  <2>1. n \in Nat /\ w \in Below(n) /\ Solves(H(n), n)
    BY <1>5, <1>10
  <2>2. g[w] = H(n)[w]
    OBVIOUS
  <2>3. g[w] \in V /\ g[w] = Value(H(n), w)
    BY <2>1, <2>2
  <2>4. ASSUME w \in into PROVE g[to[w]] = H(n)[to[w]]
    <3> DEFINE v == to[w]
               k == size[v] + 1
    <3>1. v \in W /\ size[v] < size[w] /\ size[v] \in Nat /\ size[w] \in Nat
      BY <1>5, <2>4 DEF Smaller
    <3>2. v \in Below(n)
      BY <1>7, <2>1, <3>1
    <3>3. k \in Nat /\ v \in Below(k) /\ Solves(H(k), k)
      BY <1>5, <1>10, <3>1
    <3>4. g[v] = H(k)[v]
      BY <3>1
    <3> HIDE DEF v, k, n, g, Solves
    <3>5. H(k)[v] = H(n)[v]
      BY <1>9, <2>1, <3>2, <3>3
    <3>6. QED
      BY <3>4, <3>5 DEF v, n
  <2> HIDE DEF n, g
  <2>5. QED
    BY <2>3, <2>4
<1>12. g \in [W -> V] /\ g = [w \in W |-> Value(g, w)]
  <2>1. g = [w \in W |-> g[w]] /\ \A w \in W : g[w] \in V /\ g[w] = Value(g, w)
    BY <1>11
  <2> HIDE DEF g, Value
  <2>2. QED
    BY <2>1
<1>13. ByDescent(g, W, into, to, base, comb)
  BY <1>12, Zenon DEF ByDescent
<1> HIDE DEF g
<1>14. QED
  BY <1>12, <1>13

(* What passes from the smaller argument to each holds of all.             *)
LEMMA DescentInduction ==
  ASSUME NEW W, NEW size \in [W -> Nat],
         NEW into \in SUBSET W, NEW to \in [into -> W], Smaller(into, to, size),
         NEW S \in SUBSET W, \A w \in W : (w \in into => to[w] \in S) => w \in S
  PROVE  S = W
<1> DEFINE T == {size[w] : w \in W \ S}
<1>1. SUFFICES ASSUME W \ S # {} PROVE FALSE
  OBVIOUS
<1>2. T \in SUBSET Nat /\ T # {}
  BY <1>1
<1>3. PICK n \in T : \A t \in T : n <= t
  BY <1>2, Least
<1>4. PICK w \in W \ S : n = size[w]
  OBVIOUS
<1>5. w \in into /\ to[w] \in W \ S
  OBVIOUS
<1>6. size[to[w]] < size[w] /\ size[to[w]] \in Nat /\ size[w] \in Nat
  BY <1>5 DEF Smaller
<1>7. size[to[w]] \in T
  BY <1>5
<1> HIDE DEF T
<1>8. n <= size[to[w]]
  BY <1>3, <1>7
<1>9. QED
  BY <1>4, <1>6, <1>8

-----------------------------------------------------------------------------
(* The fields a name or a number finds.                                    *)
LEMMA FieldsTyped ==
  ASSUME NEW m \in Messages
  PROVE  /\ MessageFields[m] \in Seq(FieldType)
         /\ \A f \in Range(MessageFields[m]) :
              f \in FieldType /\ f # NoField /\ (IsEmbed(f) => f.type \in Messages)
         /\ ~IsEmbed(NoField) /\ NoField.number = 0
<1>1. MessageFields[m] \in Seq(FieldType)
  BY MessagesAssumption
<1>2. NoField.number = 0 /\ NoField.kind = "none"
  BY DEF NoField, Singular
<1>3. \A f \in FieldType : f.number # 0
  BY DEF FieldType
<1>4. \A f \in Range(MessageFields[m]) : f \in FieldType
  BY <1>1 DEF Range
<1>5. \A f \in Range(MessageFields[m]) : f.kind = "message" => f.type \in Messages
  BY MessagesAssumption
<1>6. QED
  BY <1>1, <1>2, <1>3, <1>4, <1>5 DEF IsEmbed

LEMMA FieldNamedTyped ==
  ASSUME NEW m \in Messages, NEW next
  PROVE  FieldNamed(m, next) \in Range(MessageFields[m]) \cup {NoField}
<1> DEFINE s == MessageFields[m]
           I == {i \in 1..Len(s) : next = s[i].json \/ next = s[i].name}
           first == IF I # {} THEN Min(I) ELSE 0
<1>1. Len(s) \in Nat /\ DOMAIN s = 1..Len(s)
  BY FieldsTyped
<1>2. FieldNamed(m, next) = IF first = 0 THEN NoField ELSE s[first]
  BY DEF FieldNamed, First, SelectInSeq
<1>3. I # {} => first \in I
  <2>1. I \in SUBSET Nat
    BY <1>1
  <2> HIDE DEF I
  <2>2. ASSUME I # {} PROVE \E i \in I : \A j \in I : i <= j
    BY <2>1, <2>2, Least
  <2>3. QED
    BY <2>2 DEF Min
<1>4. first = 0 \/ first \in DOMAIN s
  BY <1>1, <1>3
<1> HIDE DEF first, s
<1>5. QED
  BY <1>2, <1>4 DEF Range, s

LEMMA FieldNumberedTyped ==
  ASSUME NEW m \in Messages, NEW number
  PROVE  /\ FieldNumbered(m, number) \in Range(MessageFields[m]) \cup {NoField}
         /\ \A f \in Range(MessageFields[m]) : f.number = number => FieldNumbered(m, number) = f
<1> DEFINE s == MessageFields[m]
           I == {i \in 1..Len(s) : s[i].number = number}
           first == IF I # {} THEN Min(I) ELSE 0
<1>1. Len(s) \in Nat /\ DOMAIN s = 1..Len(s)
  BY FieldsTyped
<1>2. FieldNumbered(m, number) = IF first = 0 THEN NoField ELSE s[first]
  BY DEF FieldNumbered, First, SelectInSeq
<1>3. I # {} => first \in I
  <2>1. I \in SUBSET Nat
    BY <1>1
  <2> HIDE DEF I
  <2>2. ASSUME I # {} PROVE \E i \in I : \A j \in I : i <= j
    BY <2>1, <2>2, Least
  <2>3. QED
    BY <2>2 DEF Min
<1>4. first = 0 \/ first \in DOMAIN s
  BY <1>1, <1>3
<1>5. \A f, g \in Range(s) : f.number = g.number => f = g
  BY MessagesAssumption
<1>6. ASSUME NEW i \in DOMAIN s, s[i].number = number
      PROVE  first \in DOMAIN s /\ first # 0 /\ s[first].number = number
  BY <1>1, <1>3, <1>6
<1> HIDE DEF first
<1>7. ASSUME NEW f \in Range(s), f.number = number
      PROVE  FieldNumbered(m, number) = f
  <2>1. PICK i \in DOMAIN s : f = s[i]
    BY DEF Range
  <2>2. first \in DOMAIN s /\ first # 0 /\ s[first].number = number
    BY <1>6, <1>7, <2>1
  <2>3. s[first] \in Range(s)
    BY <2>2 DEF Range
  <2> HIDE DEF s
  <2>4. s[first] = f
    BY <1>5, <1>7, <2>2, <2>3
  <2>5. QED
    BY <1>2, <2>2, <2>4 DEF s
<1> HIDE DEF s
<1>8. FieldNumbered(m, number) \in Range(s) \cup {NoField}
  BY <1>2, <1>4 DEF Range
<1>9. QED
  BY <1>7, <1>8 DEF s

-----------------------------------------------------------------------------
(* The recursions over a path of names, and over one of numbers.           *)
NameHere(w) == FieldNamed(w[1], Head(w[2]))
NameBelow(w) == <<NameHere(w).type, Tail(w[2])>>
NameDeeper == {w \in NamePaths : Len(w[2]) > 1 /\ IsEmbed(NameHere(w))}
NameTo == [w \in NameDeeper |-> NameBelow(w)]

LEMMA NameStep ==
  ASSUME NEW w \in NamePaths
  PROVE  /\ w[1] \in Messages /\ w[2] \in Seq(STRING) /\ Len(w[2]) \in Nat
         /\ NameHere(w) \in FieldType \cup {NoField}
         /\ w \in NameDeeper => NameBelow(w) \in NamePaths /\ Len(NameBelow(w)[2]) < Len(w[2])
<1>1. w[1] \in Messages /\ w[2] \in Seq(STRING) /\ Len(w[2]) \in Nat
  BY DEF NamePaths
<1>2. NameHere(w) \in Range(MessageFields[w[1]]) \cup {NoField}
  BY <1>1, FieldNamedTyped DEF NameHere
<1>3. NameHere(w) \in FieldType \cup {NoField}
  BY <1>1, <1>2, FieldsTyped
<1>4. ASSUME w \in NameDeeper
      PROVE  NameBelow(w) \in NamePaths /\ Len(NameBelow(w)[2]) < Len(w[2])
  <2>1. Len(w[2]) > 1 /\ IsEmbed(NameHere(w))
    BY <1>4 DEF NameDeeper
  <2>2. NameHere(w).type \in Messages
    BY <1>1, <1>2, <2>1, FieldsTyped
  <2>3. Tail(w[2]) \in Seq(STRING) /\ Len(Tail(w[2])) < Len(w[2])
    <3>1. w[2] # <<>>
      BY <1>1, <2>1
    <3>2. PICK s : s = w[2]
      OBVIOUS
    <3>3. s \in Seq(STRING) /\ s # <<>>
      BY <1>1, <3>1, <3>2
    <3>4. Tail(s) \in Seq(STRING) /\ Len(Tail(s)) = Len(s) - 1 /\ Len(s) \in Nat
      BY <3>3
    <3>5. QED
      BY <3>2, <3>4
  <2>4. QED
    BY <2>2, <2>3 DEF NameBelow, NamePaths
<1>5. QED
  BY <1>1, <1>3, <1>4

NameSolution(g, V, base, comb) ==
  \A w \in NamePaths :
    /\ w \in NameDeeper => g[NameBelow(w)] \in V /\ g[w] = comb[<<w, g[NameBelow(w)]>>]
    /\ w \notin NameDeeper => g[w] = base[w]

LEMMA NameRecursion ==
  ASSUME NEW V, NEW base \in [NamePaths -> V], NEW comb \in [NamePaths \X V -> V]
  PROVE  \E g \in [NamePaths -> V] : NameSolution(g, V, base, comb)
<1> DEFINE size == [w \in NamePaths |-> Len(w[2])]
<1>1. size \in [NamePaths -> Nat] /\ NameDeeper \in SUBSET NamePaths
      /\ NameTo \in [NameDeeper -> NamePaths]
  BY NameStep DEF NameDeeper, NameTo
<1>2. Smaller(NameDeeper, NameTo, size)
  BY NameStep DEF NameDeeper, NameTo, Smaller
<1> HIDE DEF size
<1>3. PICK g \in [NamePaths -> V] : ByDescent(g, NamePaths, NameDeeper, NameTo, base, comb)
  BY <1>1, <1>2, Descent
<1>4. ASSUME NEW w \in NamePaths
      PROVE  /\ w \in NameDeeper => g[NameBelow(w)] \in V /\ g[w] = comb[<<w, g[NameBelow(w)]>>]
             /\ w \notin NameDeeper => g[w] = base[w]
  <2>1. g[w] = IF w \in NameDeeper THEN comb[<<w, g[NameBelow(w)]>>] ELSE base[w]
    BY <1>3 DEF ByDescent, NameTo
  <2>2. w \in NameDeeper => g[NameBelow(w)] \in V
    BY NameStep
  <2>3. QED
    BY <2>1, <2>2
<1>5. QED
  BY <1>4 DEF NameSolution

LEMMA NameInduction ==
  ASSUME NEW S \in SUBSET NamePaths,
         \A w \in NamePaths : (w \in NameDeeper => NameBelow(w) \in S) => w \in S
  PROVE  S = NamePaths
<1> DEFINE size == [w \in NamePaths |-> Len(w[2])]
<1>1. size \in [NamePaths -> Nat] /\ NameDeeper \in SUBSET NamePaths
      /\ NameTo \in [NameDeeper -> NamePaths]
  BY NameStep DEF NameDeeper, NameTo
<1>2. Smaller(NameDeeper, NameTo, size)
  BY NameStep DEF NameDeeper, NameTo, Smaller
<1>3. \A w \in NamePaths : (w \in NameDeeper => NameTo[w] \in S) => w \in S
  BY DEF NameTo
<1> HIDE DEF size
<1>4. QED
  BY <1>1, <1>2, <1>3, DescentInduction

(* FieldOf finds a field of some message, or none.                         *)
LEMMA FieldOfDefined ==
  /\ FieldOf \in [NamePaths -> FieldType \cup {NoField}]
  /\ \A w \in NamePaths :
       FieldOf[w] = IF Len(w[2]) <= 1 THEN NameHere(w)
                    ELSE IF IsEmbed(NameHere(w)) THEN FieldOf[NameBelow(w)] ELSE NoField
<1> DEFINE V == FieldType \cup {NoField}
           base == [w \in NamePaths |-> IF Len(w[2]) <= 1 THEN NameHere(w) ELSE NoField]
           comb == [p \in NamePaths \X V |-> p[2]]
           Rhs(g, w) == IF Len(w[2]) <= 1 THEN NameHere(w)
                         ELSE IF IsEmbed(NameHere(w)) THEN g[NameBelow(w)] ELSE NoField
           Is(g) == g = [w \in NamePaths |-> Rhs(g, w)]
<1>1. base \in [NamePaths -> V] /\ comb \in [NamePaths \X V -> V]
  BY NameStep
<1>2. \A w \in NamePaths, v \in V : comb[<<w, v>>] = v
  OBVIOUS
<1>3. \A w \in NamePaths : base[w] = IF Len(w[2]) <= 1 THEN NameHere(w) ELSE NoField
  OBVIOUS
<1> HIDE DEF base, comb, V
<1>4. PICK g \in [NamePaths -> V] : NameSolution(g, V, base, comb)
  BY <1>1, NameRecursion
<1>5. ASSUME NEW w \in NamePaths PROVE g[w] = Rhs(g, w)
  <2>1. w \in NameDeeper <=> ~(Len(w[2]) <= 1) /\ IsEmbed(NameHere(w))
    BY NameStep DEF NameDeeper
  <2>2. QED
    BY <1>2, <1>3, <1>4, <2>1 DEF NameSolution
<1>6. Is(g)
  <2>1. g = [w \in NamePaths |-> g[w]]
    OBVIOUS
  <2>2. QED
    BY <1>5, <2>1
<1>7. FieldOf = CHOOSE h : Is(h)
  BY DEF FieldOf, NameHere, NameBelow
<1>8. Is(FieldOf)
  <2> HIDE DEF Is
  <2>1. QED
    BY <1>6, <1>7
<1> HIDE DEF Rhs
<1>9. \A w \in NamePaths : FieldOf[w] = Rhs(FieldOf, w)
  BY <1>8, Zenon
<1>10. FieldOf = [w \in NamePaths |-> FieldOf[w]]
  BY <1>8, Zenon
<1>11. \A w \in NamePaths : FieldOf[w] \in V
  <2> DEFINE S == {w \in NamePaths : FieldOf[w] \in V}
  <2>1. ASSUME NEW w \in NamePaths, w \in NameDeeper => NameBelow(w) \in S
        PROVE  w \in S
    BY <1>9, <2>1, NameStep DEF Rhs, V, NameDeeper
  <2> HIDE DEF S
  <2>2. S = NamePaths
    <3>1. S \in SUBSET NamePaths
      BY DEF S
    <3>2. QED
      BY <2>1, <3>1, NameInduction
  <2>3. QED
    BY <2>2 DEF S
<1>12. FieldOf \in [NamePaths -> V]
  BY <1>10, <1>11, Zenon
<1>13. QED
  BY <1>9, <1>12 DEF Rhs, V

LEMMA HereNumber ==
  ASSUME NEW w \in NamePaths
  PROVE  NameHere(w).number \in Nat
<1>1. \A f \in FieldType : f.number \in Nat
  BY DEF FieldType
<1>2. NoField.number \in Nat
  BY DEF NoField, Singular
<1>3. QED
  BY <1>1, <1>2, NameStep

LEMMA Reversed ==
  ASSUME NEW n \in Nat, NEW s \in Seq(Nat) \ {<<>>}
  PROVE  /\ Reverse(<<n>> \o s) \in Seq(Nat) \ {<<>>}
         /\ Len(Reverse(<<n>> \o s)) = Len(s) + 1 /\ Len(s) \in Nat \ {0}
         /\ <<n>> \o s \in Seq(Nat) \ {<<>>}
<1> DEFINE t == <<n>> \o s
<1>1. t \in Seq(Nat) /\ Len(t) = Len(s) + 1 /\ Len(s) \in Nat \ {0}
  OBVIOUS
<1> HIDE DEF t
<1>2. Reverse(t) = [i \in 1..Len(t) |-> t[(Len(t) - i) + 1]]
  BY DEF Reverse
<1>3. \A i \in 1..Len(t) : t[(Len(t) - i) + 1] \in Nat
  BY <1>1
<1>4. Reverse(t) \in Seq(Nat) /\ Len(Reverse(t)) = Len(t)
  BY <1>1, <1>2, <1>3
<1>5. Reverse(t) # <<>> /\ t # <<>>
  BY <1>1, <1>4
<1>6. QED
  BY <1>1, <1>4, <1>5 DEF t

(* Numbers is one number for a path of one name, and more than one for a   *)
(* longer path that stays in the messages.                                 *)
LEMMA NumbersDefined ==
  /\ Numbers \in [NamePaths -> Seq(Nat) \ {<<>>}]
  /\ \A w \in NamePaths :
       Numbers[w] = IF Len(w[2]) <= 1 THEN <<NameHere(w).number>>
                    ELSE IF IsEmbed(NameHere(w))
                      THEN Reverse(<<NameHere(w).number>> \o Numbers[NameBelow(w)])
                    ELSE <<NoField.number>>
<1> DEFINE V == Seq(Nat) \ {<<>>}
           base == [w \in NamePaths |-> IF Len(w[2]) <= 1 THEN <<NameHere(w).number>>
                                        ELSE <<NoField.number>>]
           comb == [p \in NamePaths \X V |-> Reverse(<<NameHere(p[1]).number>> \o p[2])]
           Rhs(g, w) == IF Len(w[2]) <= 1 THEN <<NameHere(w).number>>
                        ELSE IF IsEmbed(NameHere(w))
                          THEN Reverse(<<NameHere(w).number>> \o g[NameBelow(w)])
                        ELSE <<NoField.number>>
           Is(g) == g = [w \in NamePaths |-> Rhs(g, w)]
<1>1. /\ \A w \in NamePaths : <<NameHere(w).number>> \in V
      /\ <<NoField.number>> \in V
  <2>1. \A n \in Nat : <<n>> \in Seq(Nat) /\ <<n>> # <<>>
    OBVIOUS
  <2>2. NoField.number \in Nat
    BY DEF NoField, Singular
  <2>3. QED
    BY <2>1, <2>2, HereNumber
<1>2. \A w \in NamePaths, s \in V : Reverse(<<NameHere(w).number>> \o s) \in V
  BY HereNumber, Reversed
<1> HIDE DEF V
<1>3. base \in [NamePaths -> V] /\ comb \in [NamePaths \X V -> V]
  <2>1. base \in [NamePaths -> V]
    BY <1>1
  <2>2. \A p \in NamePaths \X V : Reverse(<<NameHere(p[1]).number>> \o p[2]) \in V
    BY <1>2
  <2>3. comb \in [NamePaths \X V -> V]
    BY <2>2
  <2>4. QED
    BY <2>1, <2>3
<1>4. \A w \in NamePaths, s \in V : comb[<<w, s>>] = Reverse(<<NameHere(w).number>> \o s)
  OBVIOUS
<1>5. \A w \in NamePaths :
        base[w] = IF Len(w[2]) <= 1 THEN <<NameHere(w).number>> ELSE <<NoField.number>>
  OBVIOUS
<1> HIDE DEF base, comb
<1>6. PICK g \in [NamePaths -> V] : NameSolution(g, V, base, comb)
  BY <1>3, NameRecursion
<1>7. \A w \in NamePaths : w \in NameDeeper <=> ~(Len(w[2]) <= 1) /\ IsEmbed(NameHere(w))
  BY NameStep DEF NameDeeper
<1>8. ASSUME NEW w \in NamePaths PROVE g[w] = Rhs(g, w)
  BY <1>4, <1>5, <1>6, <1>7 DEF NameSolution
<1>9. Is(g)
  <2>1. g = [w \in NamePaths |-> g[w]]
    OBVIOUS
  <2>2. QED
    BY <1>8, <2>1
<1>10. Numbers = CHOOSE h : Is(h)
  BY DEF Numbers, NameHere, NameBelow
<1>11. Is(Numbers)
  <2> HIDE DEF Is
  <2>1. QED
    BY <1>9, <1>10
<1>12. \A w \in NamePaths : (w \in NameDeeper => Numbers[NameBelow(w)] \in V) => Rhs(Numbers, w) \in V
  BY <1>1, <1>2, <1>7
<1> HIDE DEF Rhs
<1>13. Numbers = [w \in NamePaths |-> Numbers[w]] /\ \A w \in NamePaths : Numbers[w] = Rhs(Numbers, w)
  BY <1>11, Zenon
<1>14. \A w \in NamePaths : Numbers[w] \in V
  <2> DEFINE S == {w \in NamePaths : Numbers[w] \in V}
  <2>1. ASSUME NEW w \in NamePaths, w \in NameDeeper => NameBelow(w) \in S
        PROVE  w \in S
    BY <1>12, <1>13, <2>1
  <2>2. S \in SUBSET NamePaths
    OBVIOUS
  <2> HIDE DEF S
  <2>3. S = NamePaths
    BY <2>1, <2>2, NameInduction
  <2>4. QED
    BY <2>3 DEF S
<1>15. Numbers \in [NamePaths -> V]
  BY <1>13, <1>14, Zenon
<1>16. QED
  BY <1>13, <1>15 DEF Rhs, V

LEMMA PathNumbersDefined ==
  ASSUME NEW w \in NamePaths
  PROVE  PathNumbers[w] = <<NameHere(w).number>> \o
           IF Len(w[2]) > 1 /\ IsEmbed(NameHere(w)) THEN PathNumbers[NameBelow(w)] ELSE <<>>
<1> DEFINE V == Seq(Nat) \ {<<>>}
           base == [v \in NamePaths |-> <<NameHere(v).number>> \o <<>>]
           comb == [p \in NamePaths \X V |-> <<NameHere(p[1]).number>> \o p[2]]
           Rhs(g, v) == <<NameHere(v).number>> \o
                          IF Len(v[2]) > 1 /\ IsEmbed(NameHere(v)) THEN g[NameBelow(v)] ELSE <<>>
           Is(g) == g = [v \in NamePaths |-> Rhs(g, v)]
<1>1. \A v \in NamePaths : <<NameHere(v).number>> \o <<>> \in V
  <2>1. \A n \in Nat : <<n>> \o <<>> \in Seq(Nat) /\ <<n>> \o <<>> # <<>>
    <3>1. ASSUME NEW n \in Nat PROVE <<n>> \in Seq(Nat) /\ Len(<<n>>) = 1
      OBVIOUS
    <3>2. <<>> \in Seq(Nat) /\ Len(<<>>) = 0
      OBVIOUS
    <3>3. ASSUME NEW n \in Nat PROVE <<n>> \o <<>> \in Seq(Nat) /\ Len(<<n>> \o <<>>) = 1
      BY <3>1, <3>2
    <3>4. QED
      BY <3>2, <3>3
  <2>2. QED
    BY <2>1, HereNumber
<1>2. \A v \in NamePaths, s \in V : <<NameHere(v).number>> \o s \in V
  BY HereNumber, Reversed
<1> HIDE DEF V
<1>3. base \in [NamePaths -> V] /\ comb \in [NamePaths \X V -> V]
  <2>1. base \in [NamePaths -> V]
    BY <1>1
  <2>2. \A p \in NamePaths \X V : <<NameHere(p[1]).number>> \o p[2] \in V
    BY <1>2
  <2>3. comb \in [NamePaths \X V -> V]
    BY <2>2
  <2>4. QED
    BY <2>1, <2>3
<1>4. \A v \in NamePaths, s \in V : comb[<<v, s>>] = <<NameHere(v).number>> \o s
  OBVIOUS
<1>5. \A v \in NamePaths : base[v] = <<NameHere(v).number>> \o <<>>
  OBVIOUS
<1> HIDE DEF base, comb
<1>6. PICK g \in [NamePaths -> V] : NameSolution(g, V, base, comb)
  BY <1>3, NameRecursion
<1>7. ASSUME NEW v \in NamePaths PROVE g[v] = Rhs(g, v)
  <2>1. v \in NameDeeper <=> Len(v[2]) > 1 /\ IsEmbed(NameHere(v))
    BY DEF NameDeeper
  <2>2. QED
    BY <1>4, <1>5, <1>6, <2>1 DEF NameSolution
<1>8. Is(g)
  <2>1. g = [v \in NamePaths |-> g[v]]
    OBVIOUS
  <2>2. QED
    BY <1>7, <2>1
<1>9. PathNumbers = CHOOSE h : Is(h)
  BY DEF PathNumbers, NameHere, NameBelow
<1>10. Is(PathNumbers)
  <2> HIDE DEF Is
  <2>1. QED
    BY <1>8, <1>9
<1> HIDE DEF Rhs
<1>11. \A v \in NamePaths : PathNumbers[v] = Rhs(PathNumbers, v)
  BY <1>10, Zenon
<1>12. QED
  BY <1>11 DEF Rhs

-----------------------------------------------------------------------------
NumberHere(w) == FieldNumbered(w[1], Head(w[2]))
NumberBelow(w) == <<NumberHere(w).type, Tail(w[2])>>
NumberDeeper == {w \in NumberPaths : Len(w[2]) > 1 /\ IsEmbed(NumberHere(w))}
NumberTo == [w \in NumberDeeper |-> NumberBelow(w)]

LEMMA NumberStep ==
  ASSUME NEW w \in NumberPaths
  PROVE  /\ w[1] \in Messages /\ w[2] \in Seq(Nat) /\ Len(w[2]) \in Nat
         /\ NumberHere(w) \in FieldType \cup {NoField}
         /\ w \in NumberDeeper => NumberBelow(w) \in NumberPaths
                                  /\ Len(NumberBelow(w)[2]) < Len(w[2])
<1>1. w[1] \in Messages /\ w[2] \in Seq(Nat) /\ Len(w[2]) \in Nat
  BY DEF NumberPaths
<1>2. NumberHere(w) \in Range(MessageFields[w[1]]) \cup {NoField}
  BY <1>1, FieldNumberedTyped DEF NumberHere
<1>3. NumberHere(w) \in FieldType \cup {NoField}
  BY <1>1, <1>2, FieldsTyped
<1>4. ASSUME w \in NumberDeeper
      PROVE  NumberBelow(w) \in NumberPaths /\ Len(NumberBelow(w)[2]) < Len(w[2])
  <2>1. Len(w[2]) > 1 /\ IsEmbed(NumberHere(w))
    BY <1>4 DEF NumberDeeper
  <2>2. NumberHere(w).type \in Messages
    BY <1>1, <1>2, <2>1, FieldsTyped
  <2>3. Tail(w[2]) \in Seq(Nat) /\ Len(Tail(w[2])) < Len(w[2])
    <3>1. w[2] # <<>>
      BY <1>1, <2>1
    <3>2. PICK s : s = w[2]
      OBVIOUS
    <3>3. s \in Seq(Nat) /\ s # <<>>
      BY <1>1, <3>1, <3>2
    <3>4. Tail(s) \in Seq(Nat) /\ Len(Tail(s)) = Len(s) - 1 /\ Len(s) \in Nat
      BY <3>3
    <3>5. QED
      BY <3>2, <3>4
  <2>4. QED
    BY <2>2, <2>3 DEF NumberBelow, NumberPaths
<1>5. QED
  BY <1>1, <1>3, <1>4

(* FieldAt looks up one number at a time.                                  *)
LEMMA FieldAtDefined ==
  ASSUME NEW w \in NumberPaths
  PROVE  FieldAt[w] = IF Len(w[2]) <= 1 THEN NumberHere(w)
                      ELSE IF IsEmbed(NumberHere(w)) THEN FieldAt[NumberBelow(w)] ELSE NoField
<1> DEFINE V == FieldType \cup {NoField}
           size == [v \in NumberPaths |-> Len(v[2])]
           base == [v \in NumberPaths |-> IF Len(v[2]) <= 1 THEN NumberHere(v) ELSE NoField]
           comb == [p \in NumberPaths \X V |-> p[2]]
           Rhs(g, v) == IF Len(v[2]) <= 1 THEN NumberHere(v)
                        ELSE IF IsEmbed(NumberHere(v)) THEN g[NumberBelow(v)] ELSE NoField
           Is(g) == g = [v \in NumberPaths |-> Rhs(g, v)]
<1>1. size \in [NumberPaths -> Nat] /\ NumberDeeper \in SUBSET NumberPaths
      /\ NumberTo \in [NumberDeeper -> NumberPaths]
  BY NumberStep DEF NumberDeeper, NumberTo
<1>2. Smaller(NumberDeeper, NumberTo, size)
  BY NumberStep DEF NumberDeeper, NumberTo, Smaller
<1>3. base \in [NumberPaths -> V] /\ comb \in [NumberPaths \X V -> V]
  BY NumberStep
<1>4. \A v \in NumberPaths, f \in V : comb[<<v, f>>] = f
  OBVIOUS
<1>5. \A v \in NumberPaths : base[v] = IF Len(v[2]) <= 1 THEN NumberHere(v) ELSE NoField
  OBVIOUS
<1> HIDE DEF size, base, comb, V
<1>6. PICK g \in [NumberPaths -> V] : ByDescent(g, NumberPaths, NumberDeeper, NumberTo, base, comb)
  BY <1>1, <1>2, <1>3, Descent
<1>7. ASSUME NEW v \in NumberPaths PROVE g[v] = Rhs(g, v)
  <2>1. v \in NumberDeeper <=> ~(Len(v[2]) <= 1) /\ IsEmbed(NumberHere(v))
    BY NumberStep DEF NumberDeeper
  <2>2. g[v] = IF v \in NumberDeeper THEN comb[<<v, g[NumberBelow(v)]>>] ELSE base[v]
    BY <1>6 DEF ByDescent, NumberTo
  <2>3. v \in NumberDeeper => g[NumberBelow(v)] \in V
    BY NumberStep
  <2>4. QED
    BY <1>4, <1>5, <2>1, <2>2, <2>3
<1>8. Is(g)
  <2>1. g = [v \in NumberPaths |-> g[v]]
    OBVIOUS
  <2>2. QED
    BY <1>7, <2>1
<1>9. FieldAt = CHOOSE h : Is(h)
  BY DEF FieldAt, NumberHere, NumberBelow
<1>10. Is(FieldAt)
  <2> HIDE DEF Is
  <2>1. QED
    BY <1>8, <1>9
<1> HIDE DEF Rhs
<1>11. \A v \in NumberPaths : FieldAt[v] = Rhs(FieldAt, v)
  BY <1>10, Zenon
<1>12. QED
  BY <1>11 DEF Rhs

-----------------------------------------------------------------------------
(* The numbers of a parameter, turned round, find its field.               *)
LEMMA HereByNumber ==
  ASSUME NEW w \in NamePaths, NameHere(w).number # 0
  PROVE  /\ NameHere(w) \in Range(MessageFields[w[1]]) /\ NameHere(w) \in FieldType
         /\ FieldNumbered(w[1], NameHere(w).number) = NameHere(w)
<1>1. w[1] \in Messages
  BY NameStep
<1>2. NameHere(w) \in Range(MessageFields[w[1]]) \cup {NoField}
  BY <1>1, FieldNamedTyped DEF NameHere
<1>3. NameHere(w) \in Range(MessageFields[w[1]])
  BY <1>1, <1>2, FieldsTyped
<1>4. NameHere(w) \in FieldType
  BY <1>1, <1>3, FieldsTyped
<1>5. QED
  BY <1>1, <1>3, <1>4, FieldNumberedTyped

LEMMA One ==
  ASSUME NEW n
  PROVE  /\ Len(<<n>>) = 1 /\ Head(<<n>>) = n /\ Reverse(<<n>>) = <<n>>
         /\ <<n>> \o <<>> = <<n>>
<1>1. Len(<<n>>) = 1 /\ Head(<<n>>) = n /\ <<n>>[1] = n
  OBVIOUS
<1>2. Reverse(<<n>>) = [i \in 1..1 |-> <<n>>[(1 - i) + 1]]
  BY <1>1 DEF Reverse
<1>3. \A i \in 1..1 : (1 - i) + 1 = 1
  OBVIOUS
<1>4. Reverse(<<n>>) = [i \in 1..1 |-> n]
  BY <1>1, <1>2, <1>3
<1>5. <<n>> = [i \in 1..1 |-> n]
  OBVIOUS
<1>6. <<n>> \o <<>> = <<n>>
  <2>1. <<n>> \in Seq({n}) /\ <<>> \in Seq({n}) /\ Len(<<>>) = 0
    OBVIOUS
  <2>2. <<n>> \o <<>> \in Seq({n}) /\ Len(<<n>> \o <<>>) = 1 /\ (<<n>> \o <<>>)[1] = n
    BY <1>1, <2>1
  <2>3. QED
    BY <1>1, <2>2
<1>7. QED
  BY <1>1, <1>4, <1>5, <1>6

LEMMA OnlyElement ==
  ASSUME NEW s \in Seq(Nat \ {0}), Len(s) = 1
  PROVE  s[1] \in Nat \ {0}
BY SMT

(* One number is the number of one field, which FieldOf finds by its name. *)
LEMMA SingleNumber ==
  ASSUME NEW w \in NamePaths, Numbers[w] \in Seq(Nat \ {0}), Len(Numbers[w]) = 1
  PROVE  /\ FieldOf[w] \in FieldType
         /\ Reverse(Numbers[w]) = Numbers[w]
         /\ FieldAt[<<w[1], Numbers[w]>>] = FieldOf[w]
<1> DEFINE f == NameHere(w)
<1>1. Len(w[2]) \in Nat /\ w[1] \in Messages
  BY NameStep
<1>2. Len(w[2]) <= 1
  <2>1. SUFFICES ASSUME ~(Len(w[2]) <= 1) PROVE FALSE
    OBVIOUS
  <2>2. CASE IsEmbed(f)
    <3>1. w \in NameDeeper
      BY <1>1, <2>1, <2>2 DEF NameDeeper
    <3>2. NameBelow(w) \in NamePaths
      BY <3>1, NameStep
    <3>3. Numbers[NameBelow(w)] \in Seq(Nat) \ {<<>>}
      BY <3>2, NumbersDefined
    <3>4. Numbers[w] = Reverse(<<f.number>> \o Numbers[NameBelow(w)])
      BY <2>1, <2>2, NumbersDefined
    <3>5. f.number \in Nat
      BY HereNumber
    <3>6. Len(Numbers[w]) > 1
      <4>1. PICK s \in Seq(Nat) \ {<<>>} : s = Numbers[NameBelow(w)]
        BY <3>3
      <4>2. Len(Reverse(<<f.number>> \o s)) = Len(s) + 1 /\ Len(s) \in Nat \ {0}
        BY <3>5, Reversed
      <4>3. Len(Numbers[w]) = Len(s) + 1
        BY <3>4, <4>1, <4>2
      <4>4. QED
        BY <4>2, <4>3
    <3>7. QED
      BY <3>6
  <2>3. CASE ~IsEmbed(f)
    <3>1. Numbers[w] = <<NoField.number>>
      BY <2>1, <2>3, NumbersDefined
    <3>2. NoField.number = 0
      BY DEF NoField, Singular
    <3>3. <<0>> \notin Seq(Nat \ {0})
      <4>1. Len(<<0>>) = 1 /\ <<0>>[1] = 0
        OBVIOUS
      <4>2. QED
        BY <4>1, OnlyElement
    <3>4. QED
      BY <3>1, <3>2, <3>3
  <2>4. QED
    BY <2>2, <2>3
<1>3. Numbers[w] = <<f.number>> /\ FieldOf[w] = f
  BY <1>2, NumbersDefined, FieldOfDefined
<1>4. f.number \in Nat \ {0}
  <2>1. \A n : <<n>> \in Seq(Nat \ {0}) => n \in Nat \ {0}
    <3>1. \A n : Len(<<n>>) = 1 /\ <<n>>[1] = n
      OBVIOUS
    <3>2. QED
      BY <3>1, OnlyElement
  <2>2. QED
    BY <1>3, <2>1
<1>5. f \in FieldType /\ FieldNumbered(w[1], f.number) = f
  BY <1>4, HereByNumber
<1>6. FieldAt[<<w[1], <<f.number>> >>] = f
  <2> DEFINE v == <<w[1], <<f.number>> >>
  <2>1. v \in NumberPaths
    <3>1. PICK n \in Nat : n = f.number
      BY <1>4
    <3>2. <<n>> \in Seq(Nat) /\ <<n>> # <<>>
      OBVIOUS
    <3>3. QED
      BY <1>1, <3>1, <3>2 DEF NumberPaths
  <2>2. Len(v[2]) <= 1 /\ NumberHere(v) = FieldNumbered(w[1], f.number)
    BY One DEF NumberHere
  <2> HIDE DEF v
  <2>3. FieldAt[v] = NumberHere(v)
    BY <2>1, <2>2, FieldAtDefined
  <2>4. QED
    BY <1>5, <2>2, <2>3 DEF v
<1>7. QED
  BY <1>3, <1>5, <1>6, One

LEMMA Two ==
  ASSUME NEW m, NEW n
  PROVE  /\ Len(<<m, n>>) = 2 /\ Head(<<m, n>>) = m /\ Tail(<<m, n>>) = <<n>>
         /\ <<m>> \o <<n>> = <<m, n>>
         /\ Reverse(<<m, n>>) = <<n, m>>
         /\ SubSeq(<<m, n>>, 1, 1) = <<m>>
<1>1. /\ Len(<<m, n>>) = 2 /\ Head(<<m, n>>) = m /\ Tail(<<m, n>>) = <<n>>
      /\ <<m, n>>[1] = m /\ <<m, n>>[2] = n
  OBVIOUS
<1>2. <<m>> \o <<n>> = <<m, n>>
  <2>1. <<m>> \in Seq({m, n}) /\ <<n>> \in Seq({m, n}) /\ <<m, n>> \in Seq({m, n})
    OBVIOUS
  <2>2. /\ <<m>> \o <<n>> \in Seq({m, n}) /\ Len(<<m>> \o <<n>>) = 2
        /\ (<<m>> \o <<n>>)[1] = m /\ (<<m>> \o <<n>>)[2] = n
    BY <2>1
  <2>3. PICK s \in Seq({m, n}), t \in Seq({m, n}) : s = <<m>> \o <<n>> /\ t = <<m, n>>
    BY <2>1, <2>2
  <2>4. Len(s) = 2 /\ Len(t) = 2 /\ s[1] = t[1] /\ s[2] = t[2]
    BY <1>1, <2>2, <2>3
  <2>5. s = t
    BY <2>4
  <2>6. QED
    BY <2>3, <2>5
<1>3. Reverse(<<m, n>>) = [i \in 1..2 |-> <<m, n>>[(2 - i) + 1]]
  BY <1>1 DEF Reverse
<1>4. \A i \in 1..2 : <<m, n>>[(2 - i) + 1] = <<n, m>>[i]
  <2>1. \A i \in 1..2 : (i = 1 /\ (2 - i) + 1 = 2) \/ (i = 2 /\ (2 - i) + 1 = 1)
    OBVIOUS
  <2>2. <<n, m>>[1] = n /\ <<n, m>>[2] = m
    OBVIOUS
  <2>3. QED
    BY <1>1, <2>1, <2>2
<1>5. <<n, m>> = [i \in 1..2 |-> <<n, m>>[i]]
  OBVIOUS
<1>6. Reverse(<<m, n>>) = <<n, m>>
  BY <1>3, <1>4, <1>5
<1>7. SubSeq(<<m, n>>, 1, 1) = <<m>>
  <2>1. <<m>> \in Seq({m, n}) /\ <<m, n>> \in Seq({m, n}) /\ Len(<<m>>) = 1 /\ <<m>>[1] = m
    OBVIOUS
  <2>2. PICK s \in Seq({m, n}) : s = <<m, n>>
    BY <2>1
  <2>3. SubSeq(s, 1, 1) \in Seq({m, n}) /\ Len(SubSeq(s, 1, 1)) = 1 /\ SubSeq(s, 1, 1)[1] = s[1]
    BY <1>1, <2>2
  <2>4. PICK a \in Seq({m, n}), b \in Seq({m, n}) : a = SubSeq(s, 1, 1) /\ b = <<m>>
    BY <2>1, <2>3
  <2>5. Len(a) = 1 /\ Len(b) = 1 /\ a[1] = b[1]
    BY <1>1, <2>1, <2>2, <2>3, <2>4
  <2>6. a = b
    BY <2>5
  <2>7. QED
    BY <2>2, <2>4, <2>6
<1>8. QED
  BY <1>1, <1>2, <1>6, <1>7

(* Two numbers: the generator reverses once, the template once more.       *)
LEMMA TwoNumbers ==
  ASSUME NEW w \in NamePaths, Numbers[w] \in Seq(Nat \ {0}), Len(w[2]) = 2
  PROVE  /\ FieldOf[w] \in FieldType
         /\ Len(Numbers[w]) = 2 /\ Len(PathNumbers[w]) = 2
         /\ Reverse(Numbers[w]) = PathNumbers[w]
         /\ FieldAt[<<w[1], PathNumbers[w]>>] = FieldOf[w]
         /\ IsEmbed(FieldAt[<<w[1], SubSeq(PathNumbers[w], 1, 1)>>])
<1> DEFINE f == NameHere(w)
           v == NameBelow(w)
           g == NameHere(v)
<1>1. Len(w[2]) \in Nat /\ w[1] \in Messages /\ w[2] \in Seq(STRING)
  BY NameStep
<1>1a. Len(w[2]) > 1 /\ ~(Len(w[2]) <= 1)
  BY <1>1
<1>2. IsEmbed(f)
  <2>1. SUFFICES ASSUME ~IsEmbed(f) PROVE FALSE
    OBVIOUS
  <2>2. Numbers[w] = <<NoField.number>>
    BY <1>1a, <2>1, NumbersDefined
  <2>3. NoField.number = 0
    BY DEF NoField, Singular
  <2>4. Len(<<0>>) = 1 /\ <<0>>[1] = 0
    OBVIOUS
  <2>5. PICK s \in Seq(Nat \ {0}) : s = Numbers[w]
    OBVIOUS
  <2>6. s = <<0>>
    BY <2>2, <2>3, <2>5
  <2>7. QED
    BY <2>4, <2>6, OnlyElement
<1>3. w \in NameDeeper
  BY <1>1a, <1>2 DEF NameDeeper
<1>4. v \in NamePaths /\ Len(v[2]) < 2 /\ v[1] = f.type /\ f.type \in Messages
  <2>1. v \in NamePaths /\ Len(v[2]) < 2 /\ v[1] = f.type
    BY <1>3, NameStep DEF NameBelow
  <2>2. QED
    BY <2>1, NameStep
<1>5. Len(v[2]) <= 1
  BY <1>4, NameStep
<1>6. /\ Numbers[w] = Reverse(<<f.number>> \o Numbers[v]) /\ Numbers[v] = <<g.number>>
      /\ FieldOf[w] = FieldOf[v] /\ FieldOf[v] = g
  BY <1>1a, <1>2, <1>4, <1>5, NumbersDefined, FieldOfDefined
<1>7. PathNumbers[w] = <<f.number>> \o PathNumbers[v]
  BY <1>1a, <1>2, PathNumbersDefined
<1>8. PathNumbers[v] = <<g.number>>
  <2>1. ~(Len(v[2]) > 1)
    BY <1>4, NameStep
  <2>2. PathNumbers[v] = <<g.number>> \o <<>>
    BY <1>4, <2>1, PathNumbersDefined
  <2>3. QED
    BY <2>2, One
<1> HIDE DEF f, g, v
<1>9. Numbers[w] = <<g.number, f.number>> /\ PathNumbers[w] = <<f.number, g.number>>
  <2>1. PICK m, n : m = f.number /\ n = g.number
    OBVIOUS
  <2>2. Numbers[w] = Reverse(<<m>> \o <<n>>) /\ PathNumbers[w] = <<m>> \o <<n>>
    BY <1>6, <1>7, <1>8, <2>1
  <2>3. <<m>> \o <<n>> = <<m, n>> /\ Reverse(<<m, n>>) = <<n, m>>
    BY Two
  <2>4. QED
    BY <2>1, <2>2, <2>3
<1>10. f.number \in Nat \ {0} /\ g.number \in Nat \ {0}
  <2>1. ASSUME NEW s \in Seq(Nat \ {0}), Len(s) = 2
        PROVE  s[1] \in Nat \ {0} /\ s[2] \in Nat \ {0}
    BY <2>1
  <2>2. Len(Numbers[w]) = 2 /\ Numbers[w][1] = g.number /\ Numbers[w][2] = f.number
    BY <1>9
  <2>3. QED
    BY <2>1, <2>2
<1>11. /\ f \in FieldType /\ FieldNumbered(w[1], f.number) = f
       /\ g \in FieldType /\ FieldNumbered(f.type, g.number) = g
  BY <1>4, <1>10, HereByNumber DEF f, g
<1>12. PICK m \in Nat, n \in Nat : m = f.number /\ n = g.number
  BY <1>10
<1>13. <<m, n>> \in Seq(Nat) /\ <<m>> \in Seq(Nat) /\ <<n>> \in Seq(Nat)
  OBVIOUS
<1>14. FieldAt[<<w[1], <<m>> >>] = f
  <2> DEFINE u == <<w[1], <<m>> >>
  <2>1. u \in NumberPaths
    BY <1>1, <1>13 DEF NumberPaths
  <2>2. Len(u[2]) <= 1 /\ NumberHere(u) = f
    BY <1>11, <1>12, One DEF NumberHere
  <2> HIDE DEF u
  <2>3. QED
    BY <2>1, <2>2, FieldAtDefined DEF u
<1>15. FieldAt[<<f.type, <<n>> >>] = g
  <2> DEFINE u == <<f.type, <<n>> >>
  <2>1. u \in NumberPaths
    BY <1>4, <1>13 DEF NumberPaths
  <2>2. Len(u[2]) <= 1 /\ NumberHere(u) = g
    BY <1>11, <1>12, One DEF NumberHere
  <2> HIDE DEF u
  <2>3. QED
    BY <2>1, <2>2, FieldAtDefined DEF u
<1>16. FieldAt[<<w[1], <<m, n>> >>] = g
  <2> DEFINE u == <<w[1], <<m, n>> >>
  <2>1. u \in NumberPaths
    BY <1>1, <1>13 DEF NumberPaths
  <2>2. ~(Len(u[2]) <= 1) /\ NumberHere(u) = f /\ NumberBelow(u) = <<f.type, <<n>> >>
    BY <1>11, <1>12, Two DEF NumberHere, NumberBelow
  <2> HIDE DEF u
  <2>3. FieldAt[u] = FieldAt[NumberBelow(u)]
    BY <1>2, <2>1, <2>2, FieldAtDefined DEF f
  <2>4. QED
    BY <1>15, <2>2, <2>3 DEF u
<1>17. SubSeq(PathNumbers[w], 1, 1) = <<m>> /\ PathNumbers[w] = <<m, n>> /\ Numbers[w] = <<n, m>>
  BY <1>9, <1>12, Two
<1>18. /\ Len(Numbers[w]) = 2 /\ Len(PathNumbers[w]) = 2
       /\ Reverse(Numbers[w]) = PathNumbers[w]
  BY <1>17, Two
<1>19. FieldAt[<<w[1], PathNumbers[w]>>] = FieldOf[w] /\ FieldOf[w] \in FieldType
  BY <1>6, <1>11, <1>16, <1>17
<1>20. IsEmbed(FieldAt[<<w[1], SubSeq(PathNumbers[w], 1, 1)>>])
  BY <1>2, <1>14, <1>17 DEF f
<1>21. QED
  BY <1>18, <1>19, <1>20

LEMMA OneName ==
  ASSUME NEW w \in NamePaths, Len(w[2]) <= 1
  PROVE  PathNumbers[w] = Numbers[w] /\ Len(Numbers[w]) = 1
<1>1. Len(w[2]) \in Nat /\ ~(Len(w[2]) > 1)
  BY NameStep
<1>2. PathNumbers[w] = <<NameHere(w).number>> \o <<>>
  BY <1>1, PathNumbersDefined
<1>3. Numbers[w] = <<NameHere(w).number>>
  BY NumbersDefined
<1>4. QED
  BY <1>2, <1>3, One

-----------------------------------------------------------------------------
(* Longer paths: each level of path2fieldNumbers turns round what the one  *)
(* below returned, so the numbers do not stay in the order of the names.   *)
LEMMA ReversedEnds ==
  ASSUME NEW n \in Nat, NEW s \in Seq(Nat) \ {<<>>}
  PROVE  /\ Reverse(<<n>> \o s)[1] = s[Len(s)]
         /\ Reverse(<<n>> \o s)[Len(s) + 1] = n
<1> DEFINE t == <<n>> \o s
<1>1. t \in Seq(Nat) /\ Len(t) = Len(s) + 1 /\ Len(s) \in Nat \ {0}
  OBVIOUS
<1>2. t[1] = n /\ t[Len(t)] = s[Len(s)]
  OBVIOUS
<1> HIDE DEF t
<1>3. Reverse(t) = [i \in 1..Len(t) |-> t[(Len(t) - i) + 1]]
  BY DEF Reverse
<1>4. 1 \in 1..Len(t) /\ Len(t) \in 1..Len(t) /\ (Len(t) - 1) + 1 = Len(t) /\ (Len(t) - Len(t)) + 1 = 1
  BY <1>1
<1>5. Reverse(t)[1] = t[Len(t)] /\ Reverse(t)[Len(t)] = t[1]
  BY <1>3, <1>4
<1>6. QED
  BY <1>1, <1>2, <1>5 DEF t

LevelEnds(n, s, t) ==
  Len(s) \in Nat \ {0} /\ Len(t) = Len(s) + 1 /\ t[1] = s[Len(s)] /\ t[Len(t)] = n

(* What the decoder makes of them, PathOf: Reverse once more.              *)
LEMMA ReverseEnds ==
  ASSUME NEW s \in Seq(Nat) \ {<<>>}
  PROVE  Reverse(s)[1] = s[Len(s)] /\ Reverse(s)[Len(s)] = s[1]
<1>1. Len(s) \in Nat \ {0}
  OBVIOUS
<1>2. Reverse(s) = [i \in 1..Len(s) |-> s[(Len(s) - i) + 1]]
  BY DEF Reverse
<1>3. 1 \in 1..Len(s) /\ Len(s) \in 1..Len(s) /\ (Len(s) - 1) + 1 = Len(s) /\ (Len(s) - Len(s)) + 1 = 1
  BY <1>1
<1>4. QED
  BY <1>2, <1>3

LEMMA Three ==
  ASSUME NEW k \in Nat, NEW m \in Nat, NEW n \in Nat
  PROVE  /\ <<k>> \o <<m, n>> = <<k, m, n>>
         /\ Reverse(<<k, m, n>>) = <<n, m, k>>
<1>1. <<k>> \o <<m, n>> = <<k, m, n>>
  <2>1. /\ <<k>> \in Seq(Nat) /\ <<m, n>> \in Seq(Nat) /\ <<k, m, n>> \in Seq(Nat)
        /\ Len(<<k, m, n>>) = 3
        /\ <<k, m, n>>[1] = k /\ <<k, m, n>>[2] = m /\ <<k, m, n>>[3] = n
    OBVIOUS
  <2>2. /\ <<k>> \o <<m, n>> \in Seq(Nat) /\ Len(<<k>> \o <<m, n>>) = 3
        /\ (<<k>> \o <<m, n>>)[1] = k /\ (<<k>> \o <<m, n>>)[2] = m
        /\ (<<k>> \o <<m, n>>)[3] = n
    BY <2>1
  <2>3. PICK s \in Seq(Nat), t \in Seq(Nat) : s = <<k>> \o <<m, n>> /\ t = <<k, m, n>>
    BY <2>1, <2>2
  <2>4. Len(s) = 3 /\ Len(t) = 3 /\ s[1] = t[1] /\ s[2] = t[2] /\ s[3] = t[3]
    BY <2>1, <2>2, <2>3
  <2>5. \A i \in 1..3 : s[i] = t[i]
    <3>1. \A i \in 1..3 : i = 1 \/ i = 2 \/ i = 3
      OBVIOUS
    <3>2. QED
      BY <2>4, <3>1
  <2>6. s = t
    BY <2>4, <2>5
  <2>7. QED
    BY <2>3, <2>6
<1>2. Len(<<k, m, n>>) = 3
  OBVIOUS
<1>3. Reverse(<<k, m, n>>) = [i \in 1..3 |-> <<k, m, n>>[(3 - i) + 1]]
  BY <1>2 DEF Reverse
<1>4. \A i \in 1..3 : <<k, m, n>>[(3 - i) + 1] = <<n, m, k>>[i]
  <2>1. \A i \in 1..3 : \/ i = 1 /\ (3 - i) + 1 = 3
                        \/ i = 2 /\ (3 - i) + 1 = 2
                        \/ i = 3 /\ (3 - i) + 1 = 1
    OBVIOUS
  <2>2. /\ <<k, m, n>>[1] = k /\ <<k, m, n>>[2] = m /\ <<k, m, n>>[3] = n
        /\ <<n, m, k>>[1] = n /\ <<n, m, k>>[2] = m /\ <<n, m, k>>[3] = k
    OBVIOUS
  <2>3. QED
    BY <2>1, <2>2
<1>5. <<n, m, k>> = [i \in 1..3 |-> <<n, m, k>>[i]]
  OBVIOUS
<1>6. QED
  BY <1>1, <1>3, <1>4, <1>5

(* A parameter whose path has more than two names ends, in the decoder, in *)
(* the field number of its second name, whatever its last name is: the     *)
(* value does not go where the path leads (apigw_method.go:73-95).         *)
THEOREM LongPathsEndInTheSecondName ==
  ASSUME NEW w \in NamePaths, Len(w[2]) > 2,
         IsEmbed(NameHere(w)), IsEmbed(NameHere(NameBelow(w)))
  PROVE  /\ Len(Numbers[w]) > 2
         /\ Reverse(Numbers[w])[1] = NameHere(w).number
         /\ Reverse(Numbers[w])[Len(Numbers[w])] = NameHere(NameBelow(w)).number
<1> DEFINE v == NameBelow(w)
           u == NameBelow(v)
<1>1. Len(w[2]) \in Nat /\ w[2] \in Seq(STRING)
  BY NameStep
<1>2. w \in NameDeeper /\ ~(Len(w[2]) <= 1)
  BY <1>1 DEF NameDeeper
<1>3. v \in NamePaths /\ Len(v[2]) = Len(w[2]) - 1
  <2>1. v \in NamePaths
    BY <1>2, NameStep
  <2>2. PICK s \in Seq(STRING) : s = w[2]
    BY <1>1
  <2>3. Len(s) > 2 => Len(Tail(s)) = Len(s) - 1
    OBVIOUS
  <2>4. v[2] = Tail(w[2])
    BY DEF NameBelow
  <2>5. QED
    BY <2>1, <2>2, <2>3, <2>4
<1>4. v \in NameDeeper /\ ~(Len(v[2]) <= 1)
  BY <1>1, <1>3 DEF NameDeeper
<1>5. u \in NamePaths
  BY <1>3, <1>4, NameStep
<1>6. Numbers[u] \in Seq(Nat) \ {<<>>}
  BY <1>5, NumbersDefined
<1>7. /\ Numbers[w] = Reverse(<<NameHere(w).number>> \o Numbers[v])
      /\ Numbers[v] = Reverse(<<NameHere(v).number>> \o Numbers[u])
      /\ NameHere(w).number \in Nat /\ NameHere(v).number \in Nat
  BY <1>2, <1>3, <1>4, NumbersDefined, HereNumber
<1> HIDE DEF v, u
<1>8. PICK a \in Nat, b \in Nat, s \in Seq(Nat) \ {<<>>} :
        a = NameHere(w).number /\ b = NameHere(v).number /\ s = Numbers[u]
  BY <1>6, <1>7
<1>9. PICK t \in Seq(Nat) \ {<<>>} : t = Reverse(<<b>> \o s)
  BY Reversed
<1>r. \A c \in Nat, z \in Seq(Nat) \ {<<>>} : LevelEnds(c, z, Reverse(<<c>> \o z))
  <2> SUFFICES ASSUME NEW c \in Nat, NEW z \in Seq(Nat) \ {<<>>}
               PROVE  LevelEnds(c, z, Reverse(<<c>> \o z))
    OBVIOUS
  <2>1. Len(Reverse(<<c>> \o z)) = Len(z) + 1 /\ Len(z) \in Nat \ {0}
    BY Reversed
  <2>2. Reverse(<<c>> \o z)[1] = z[Len(z)] /\ Reverse(<<c>> \o z)[Len(z) + 1] = c
    BY ReversedEnds
  <2>3. QED
    BY <2>1, <2>2 DEF LevelEnds
<1>10. Len(t) = Len(s) + 1 /\ Len(s) \in Nat \ {0} /\ t[Len(t)] = b
  <2>1. LevelEnds(b, s, t)
    BY <1>9, <1>r
  <2>2. QED
    BY <2>1 DEF LevelEnds
<1>11. PICK x \in Seq(Nat) \ {<<>>} : x = Reverse(<<a>> \o t)
  BY Reversed
<1>12. Len(x) = Len(t) + 1 /\ x[Len(x)] = a /\ x[1] = b
  <2>1. LevelEnds(a, t, x)
    BY <1>11, <1>r
  <2>2. QED
    BY <1>10, <2>1 DEF LevelEnds
<1>13. x = Numbers[w]
  BY <1>7, <1>8, <1>9, <1>11
<1>14. Reverse(x)[1] = a /\ Reverse(x)[Len(x)] = b /\ Len(x) > 2
  <2>1. Reverse(x)[1] = x[Len(x)] /\ Reverse(x)[Len(x)] = x[1]
    BY ReverseEnds
  <2>2. QED
    BY <1>10, <1>12, <2>1
<1>15. QED
  BY <1>8, <1>13, <1>14 DEF v

(* Three names exactly: the last two numbers change places, so the decoder *)
(* reaches the field only when the two have the same number.               *)
THEOREM ThreeNamesSwapped ==
  ASSUME NEW w \in NamePaths, Len(w[2]) = 3,
         IsEmbed(NameHere(w)), IsEmbed(NameHere(NameBelow(w)))
  PROVE  \E k, m, n \in Nat : /\ PathNumbers[w] = <<k, m, n>>
                              /\ Reverse(Numbers[w]) = <<k, n, m>>
<1> DEFINE v == NameBelow(w)
           u == NameBelow(v)
<1>1. w[2] \in Seq(STRING)
  BY NameStep
<1>2. w \in NameDeeper /\ ~(Len(w[2]) <= 1) /\ Len(w[2]) > 1
  BY DEF NameDeeper
<1>3. ASSUME NEW s \in Seq(STRING), Len(s) > 1
      PROVE  Len(Tail(s)) = Len(s) - 1
  BY <1>3
<1>4. v \in NamePaths /\ Len(v[2]) = 2
  <2>1. v \in NamePaths /\ v[2] = Tail(w[2])
    BY <1>2, NameStep DEF NameBelow
  <2>2. QED
    BY <1>1, <1>2, <1>3, <2>1
<1>5. v \in NameDeeper /\ ~(Len(v[2]) <= 1) /\ Len(v[2]) > 1
  BY <1>4 DEF NameDeeper
<1>6. u \in NamePaths /\ Len(u[2]) = 1
  <2>1. u \in NamePaths /\ u[2] = Tail(v[2])
    BY <1>4, <1>5, NameStep DEF NameBelow
  <2>2. v[2] \in Seq(STRING)
    BY <1>4, NameStep
  <2>3. QED
    BY <1>3, <1>4, <2>1, <2>2
<1>7. /\ NameHere(w).number \in Nat /\ NameHere(v).number \in Nat
      /\ NameHere(u).number \in Nat
  BY <1>4, <1>6, HereNumber
<1>8. PICK k \in Nat, m \in Nat, n \in Nat :
        k = NameHere(w).number /\ m = NameHere(v).number /\ n = NameHere(u).number
  BY <1>7
<1> HIDE DEF v
<1>9. v = NameBelow(w)
  BY DEF v
<1>10. IsEmbed(NameHere(v))
  BY <1>9
<1> HIDE DEF u
<1>11. u = NameBelow(v)
  BY DEF u
<1>12. /\ Numbers[u] = <<n>>
       /\ Numbers[v] = Reverse(<<m>> \o Numbers[u])
       /\ Numbers[w] = Reverse(<<k>> \o Numbers[v])
  <2>1. Numbers[u] = <<NameHere(u).number>>
    <3>1. Len(u[2]) <= 1
      BY <1>6
    <3>2. QED
      BY <1>6, <3>1, NumbersDefined
  <2>2. Numbers[v] = Reverse(<<NameHere(v).number>> \o Numbers[NameBelow(v)])
    BY <1>4, <1>5, <1>10, NumbersDefined
  <2>3. Numbers[w] = Reverse(<<NameHere(w).number>> \o Numbers[NameBelow(w)])
    BY <1>2, NumbersDefined
  <2>4. QED
    BY <1>8, <1>9, <1>11, <2>1, <2>2, <2>3
<1>13. Reverse(Numbers[w]) = <<k, n, m>>
  <2>1. Numbers[v] = <<n, m>>
    <3>1. <<m>> \o <<n>> = <<m, n>> /\ Reverse(<<m, n>>) = <<n, m>>
      BY Two
    <3>2. QED
      BY <1>12, <3>1
  <2>2. <<k>> \o <<n, m>> = <<k, n, m>> /\ Reverse(<<k, n, m>>) = <<m, n, k>>
        /\ Reverse(<<m, n, k>>) = <<k, n, m>>
    <3>1. \A x, y, z \in Nat : <<x>> \o <<y, z>> = <<x, y, z>> /\ Reverse(<<x, y, z>>) = <<z, y, x>>
      BY Three
    <3>2. QED
      BY <3>1
  <2>3. Numbers[w] = <<m, n, k>>
    BY <1>12, <2>1, <2>2
  <2>4. QED
    BY <2>2, <2>3
<1>14. PathNumbers[w] = <<k, m, n>>
  <2>1. PathNumbers[u] = <<n>>
    <3>1. ~(Len(u[2]) > 1)
      BY <1>6
    <3>2. QED
      BY <1>6, <1>8, <3>1, PathNumbersDefined, One
  <2>2. PathNumbers[v] = <<m, n>>
    <3>1. PathNumbers[v] = <<NameHere(v).number>> \o PathNumbers[NameBelow(v)]
      BY <1>4, <1>5, <1>10, PathNumbersDefined
    <3>2. <<m>> \o <<n>> = <<m, n>>
      BY Two
    <3>3. QED
      BY <1>8, <1>11, <2>1, <3>1, <3>2
  <2>3. PathNumbers[w] = <<k>> \o PathNumbers[v]
    BY <1>2, <1>8, <1>9, PathNumbersDefined
  <2>4. QED
    <3>1. <<k>> \o <<m, n>> = <<k, m, n>>
      BY Three
    <3>2. QED
      BY <2>2, <2>3, <3>1
<1>15. QED
  BY <1>13, <1>14

LEMMA PathNumbersTyped ==
  ASSUME NEW w \in NamePaths
  PROVE  PathNumbers[w] \in Seq(Nat) \ {<<>>}
<1> DEFINE S == {v \in NamePaths : PathNumbers[v] \in Seq(Nat) \ {<<>>}}
<1>1. ASSUME NEW v \in NamePaths, v \in NameDeeper => NameBelow(v) \in S
      PROVE  v \in S
  <2>1. PICK n \in Nat : n = NameHere(v).number
    BY HereNumber
  <2>2. CASE v \in NameDeeper
    <3>1. PICK s \in Seq(Nat) \ {<<>>} : s = PathNumbers[NameBelow(v)]
      BY <1>1, <2>2
    <3>2. <<n>> \o s \in Seq(Nat) \ {<<>>}
      BY Reversed
    <3>3. PathNumbers[v] = <<n>> \o s
      BY <2>1, <2>2, <3>1, PathNumbersDefined DEF NameDeeper
    <3>4. QED
      BY <3>2, <3>3
  <2>3. CASE v \notin NameDeeper
    <3>1. PathNumbers[v] = <<n>> \o <<>>
      BY <2>1, <2>3, PathNumbersDefined DEF NameDeeper
    <3>2. <<n>> \in Seq(Nat) /\ Len(<<n>>) = 1 /\ Len(<<>>) = 0
      OBVIOUS
    <3>3. PathNumbers[v] = <<n>>
      BY <3>1, One
    <3>4. PathNumbers[v] \in Seq(Nat) /\ Len(PathNumbers[v]) = 1
      BY <3>2, <3>3
    <3>5. PathNumbers[v] # <<>>
      BY <3>2, <3>4
    <3>6. QED
      BY <3>4, <3>5
  <2>4. QED
    BY <2>2, <2>3
<1> HIDE DEF S
<1>2. S = NamePaths
  <2>1. S \in SUBSET NamePaths
    BY DEF S
  <2>2. QED
    BY <1>1, <2>1, NameInduction
<1>3. QED
  BY <1>2 DEF S

(* A path the generator finds fields for names a field for every number.   *)
LEMMA NoZero ==
  ASSUME NEW w \in NamePaths, Numbers[w] \in Seq(Nat \ {0}), Len(w[2]) > 1
  PROVE  IsEmbed(NameHere(w))
<1> SUFFICES ASSUME ~IsEmbed(NameHere(w)) PROVE FALSE
  OBVIOUS
<1>1. Len(w[2]) \in Nat
  BY NameStep
<1>2. ~(Len(w[2]) <= 1)
  BY <1>1
<1>3. Numbers[w] = <<NoField.number>>
  BY <1>2, NumbersDefined
<1>4. NoField.number = 0
  BY DEF NoField, Singular
<1>5. Len(<<0>>) = 1 /\ <<0>>[1] = 0
  OBVIOUS
<1>6. QED
  BY <1>3, <1>4, <1>5, OnlyElement

LEMMA PairElements ==
  ASSUME NEW s \in Seq(Nat \ {0}), Len(s) = 2
  PROVE  s[1] \in Nat \ {0}
BY SMT

(* The first two names of a longer path are messages.                      *)
LEMMA LongPathGoesDown ==
  ASSUME NEW w \in NamePaths, Numbers[w] \in Seq(Nat \ {0}), Len(w[2]) > 2
  PROVE  /\ IsEmbed(NameHere(w)) /\ IsEmbed(NameHere(NameBelow(w)))
         /\ NameBelow(w) \in NamePaths /\ Len(NameBelow(w)[2]) > 1
<1> DEFINE v == NameBelow(w)
<1>1. w[2] \in Seq(STRING) /\ Len(w[2]) \in Nat
  BY NameStep
<1>2. Len(w[2]) > 1 /\ ~(Len(w[2]) <= 1)
  BY <1>1
<1>3. IsEmbed(NameHere(w))
  BY <1>2, NoZero
<1>4. v \in NamePaths /\ Len(v[2]) > 1 /\ Len(v[2]) \in Nat
  <2>1. v \in NamePaths
    BY <1>2, <1>3, NameStep DEF NameDeeper
  <2>2. PICK s \in Seq(STRING) : s = w[2]
    BY <1>1
  <2>3. Len(s) > 2 => Len(Tail(s)) > 1
    OBVIOUS
  <2>4. v[2] = Tail(w[2])
    BY DEF NameBelow
  <2>5. QED
    BY <2>1, <2>2, <2>3, <2>4, NameStep
<1> HIDE DEF v
<1>5. IsEmbed(NameHere(v))
  <2>1. ~(Len(v[2]) <= 1)
    BY <1>4
  <2>2. CASE ~IsEmbed(NameHere(v))
    <3>1. Numbers[v] = <<NoField.number>> /\ NoField.number = 0
      BY <1>4, <2>1, <2>2, NumbersDefined DEF NoField, Singular
    <3>2. PICK n \in Nat : n = NameHere(w).number
      BY HereNumber
    <3>3. Numbers[w] = Reverse(<<n>> \o <<0>>)
      BY <1>2, <1>3, <3>1, <3>2, NumbersDefined DEF v
    <3>4. <<n>> \o <<0>> = <<n, 0>> /\ Reverse(<<n, 0>>) = <<0, n>>
      BY Two
    <3>5. Numbers[w] = <<0, n>>
      BY <3>3, <3>4
    <3>6. \A s \in Seq(Nat \ {0}) : Len(s) = 2 => s[1] \in Nat \ {0}
      BY PairElements
    <3>7. Len(<<0, n>>) = 2 /\ <<0, n>>[1] = 0
      OBVIOUS
    <3>8. Len(Numbers[w]) = 2 /\ Numbers[w][1] = 0
      BY <3>5, <3>7
    <3>9. PICK s \in Seq(Nat \ {0}) : s = Numbers[w]
      OBVIOUS
    <3>10. QED
      BY <3>6, <3>8, <3>9
  <2>3. QED
    BY <2>2
<1>6. QED
  BY <1>3, <1>4, <1>5 DEF v

LEMMA LongPath ==
  ASSUME NEW w \in NamePaths, Numbers[w] \in Seq(Nat \ {0}), Len(w[2]) > 2
  PROVE  Len(PathNumbers[w]) > 2
<1> DEFINE v == NameBelow(w)
           u == NameBelow(v)
<1>1. Len(w[2]) \in Nat
  BY NameStep
<1>2. Len(w[2]) > 1
  BY <1>1
<1>3. IsEmbed(NameHere(w)) /\ IsEmbed(NameHere(v)) /\ v \in NamePaths /\ Len(v[2]) > 1
  BY LongPathGoesDown
<1> HIDE DEF v
<1>6. u \in NamePaths
  BY <1>3, NameStep DEF NameDeeper
<1> HIDE DEF u
<1>7. PICK s \in Seq(Nat) \ {<<>>} : s = PathNumbers[u]
  BY <1>6, PathNumbersTyped
<1>8. PICK m \in Nat, n \in Nat : m = NameHere(w).number /\ n = NameHere(v).number
  BY <1>3, HereNumber
<1>9. PathNumbers[v] = <<n>> \o s
  BY <1>3, <1>7, <1>8, PathNumbersDefined DEF u
<1>10. PathNumbers[w] = <<m>> \o (<<n>> \o s)
  BY <1>2, <1>3, <1>8, <1>9, PathNumbersDefined DEF v
<1>11. PICK t \in Seq(Nat) \ {<<>>} : t = <<n>> \o s
  BY Reversed
<1>12. Len(t) > 1 /\ Len(<<m>> \o t) = Len(t) + 1 /\ Len(t) \in Nat
  <2>1. Len(<<n>> \o s) > 1
    OBVIOUS
  <2>2. QED
    BY <1>11, <2>1
<1>13. QED
  BY <1>10, <1>11, <1>12

(* Two numbers come of two names.                                          *)
LEMMA TwoNumbersTwoNames ==
  ASSUME NEW w \in NamePaths, Numbers[w] \in Seq(Nat \ {0}), Len(Numbers[w]) = 2
  PROVE  Len(w[2]) = 2
<1>1. Len(w[2]) \in Nat
  BY NameStep
<1>2. CASE Len(w[2]) <= 1
  BY <1>2, OneName
<1>3. CASE Len(w[2]) > 2
  <2>1. IsEmbed(NameHere(w)) /\ IsEmbed(NameHere(NameBelow(w)))
    BY <1>3, LongPathGoesDown
  <2>2. Len(Numbers[w]) > 2
    BY <1>3, <2>1, LongPathsEndInTheSecondName
  <2>3. QED
    BY <2>2
<1>4. \A n \in Nat : n <= 1 \/ n = 2 \/ n > 2
  OBVIOUS
<1>5. QED
  BY <1>1, <1>2, <1>3, <1>4, Zenon

(* A path has as many numbers as names, as far as two: what the decoder    *)
(* reaches is told by either.                                              *)
LEMMA ShortPath ==
  ASSUME NEW w \in NamePaths, Numbers[w] \in Seq(Nat \ {0})
  PROVE  Len(PathNumbers[w]) <= 2 <=> Len(w[2]) <= 2
<1>1. Len(w[2]) \in Nat
  BY NameStep
<1>2. Len(PathNumbers[w]) \in Nat
  <2>1. \A s \in Seq(Nat) : Len(s) \in Nat
    OBVIOUS
  <2>2. QED
    BY <2>1, PathNumbersTyped
<1>3. CASE Len(w[2]) <= 1
  BY <1>1, <1>3, OneName
<1>4. CASE Len(w[2]) = 2
  <2>1. Len(PathNumbers[w]) = 2
    BY <1>4, TwoNumbers
  <2>2. QED
    BY <1>4, <2>1
<1>5. CASE Len(w[2]) > 2
  <2>1. Len(PathNumbers[w]) > 2
    BY <1>5, LongPath
  <2>2. QED
    BY <1>1, <1>2, <1>5, <2>1
<1>6. Len(w[2]) <= 1 \/ Len(w[2]) = 2 \/ Len(w[2]) > 2
  <2>1. \A n \in Nat : n <= 1 \/ n = 2 \/ n > 2
    OBVIOUS
  <2>2. QED
    BY <1>1, <2>1, Zenon
<1>7. QED
  BY <1>3, <1>4, <1>5, <1>6
=============================================================================
