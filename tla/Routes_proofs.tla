---------------------------- MODULE Routes_proofs ----------------------------
(***************************************************************************)
(* What the loops over the tokens of a route leave behind, for routes of   *)
(* any length: the elements a selection keeps, the numbers of parameters,  *)
(* and the keys and patterns made of them.  Lemmas for the proofs about    *)
(* the registry, the generator and the operations of a document.           *)
(***************************************************************************)
EXTENDS Routes, FiniteSetTheorems, WellFoundedInduction, TLAPS

(* A set of positions has a first one.                                     *)
LEMMA Least ==
  ASSUME NEW T \in SUBSET Nat, T # {}
  PROVE  \E x \in T : \A y \in T : x <= y
<1>1. IsWellFoundedOn(OpToRel(<, Nat), Nat)
  BY NatLessThanWellFounded
<1>2. \E x \in T : \A y \in T : <<y, x>> \notin OpToRel(<, Nat)
  BY <1>1, WFMin
<1>3. \A x \in Nat, y \in Nat : <<y, x>> \in OpToRel(<, Nat) <=> y < x
  BY DEF OpToRel
<1>4. PICK x \in T : \A y \in T : <<y, x>> \notin OpToRel(<, Nat)
  BY <1>2, Zenon
<1>5. ASSUME NEW y \in T PROVE x <= y
  <2>1. ~(y < x)
    BY <1>3, <1>4, Zenon
  <2>2. QED
    BY <2>1
<1>6. QED
  BY <1>5, Zenon

(* The number of positions before i.                                       *)
Rank(I, i) == Cardinality({j \in I : j < i})

LEMMA Positions ==
  ASSUME NEW s, NEW S, s \in Seq(S), NEW I \in SUBSET DOMAIN s
  PROVE  I \in SUBSET Nat /\ IsFiniteSet(I) /\ Cardinality(I) \in Nat
<1>1. DOMAIN s = 1..Len(s) /\ Len(s) \in Nat
  OBVIOUS
<1>2. IsFiniteSet(1..Len(s))
  BY <1>1, FS_Interval
<1>3. IsFiniteSet(I)
  BY <1>1, <1>2, FS_Subset
<1>4. QED
  BY <1>1, <1>3, FS_CardinalityType

LEMMA RankType ==
  ASSUME NEW I \in SUBSET Nat, IsFiniteSet(I), NEW i
  PROVE  Rank(I, i) \in Nat
<1>1. IsFiniteSet({j \in I : j < i})
  BY FS_Subset
<1>2. QED
  BY <1>1, FS_CardinalityType DEF Rank

LEMMA RankGrows ==
  ASSUME NEW I \in SUBSET Nat, IsFiniteSet(I), NEW i \in I, NEW k \in Nat, i < k
  PROVE  Rank(I, i) < Rank(I, k)
<1> DEFINE A == {j \in I : j < i}
           B == {j \in I : j < k}
<1>1. A \in SUBSET B /\ A # B
  <2>1. i \in B /\ i \notin A
    OBVIOUS
  <2>2. \A j \in A : j \in B
    OBVIOUS
  <2>3. QED
    BY <2>1, <2>2
<1>2. IsFiniteSet(B) /\ B \in SUBSET I
  BY FS_Subset
<1>3. Cardinality(A) <= Cardinality(B) /\ Cardinality(A) # Cardinality(B)
  BY <1>1, <1>2, FS_Subset
<1>4. Cardinality(A) \in Nat /\ Cardinality(B) \in Nat
  BY <1>1, <1>2, FS_Subset, FS_CardinalityType
<1>5. QED
  BY <1>3, <1>4 DEF Rank

LEMMA RankBelow ==
  ASSUME NEW I \in SUBSET Nat, IsFiniteSet(I), NEW i \in I
  PROVE  Rank(I, i) + 1 \in 1..Cardinality(I)
<1> DEFINE A == {j \in I : j < i}
<1>1. A \in SUBSET I /\ A # I
  OBVIOUS
<1>2. Cardinality(A) <= Cardinality(I) /\ Cardinality(A) # Cardinality(I)
  BY <1>1, FS_Subset
<1>3. Cardinality(A) \in Nat /\ Cardinality(I) \in Nat
  BY <1>1, FS_Subset, FS_CardinalityType
<1>4. QED
  BY <1>2, <1>3 DEF Rank

LEMMA RankDistinguishes ==
  ASSUME NEW I \in SUBSET Nat, IsFiniteSet(I), NEW i \in I, NEW k \in I, Rank(I, i) = Rank(I, k)
  PROVE  i = k
<1>1. Rank(I, i) \in Nat /\ Rank(I, k) \in Nat /\ i \in Nat /\ k \in Nat
  BY RankType
<1>2. ~(i < k) /\ ~(k < i)
  BY <1>1, RankGrows
<1>3. QED
  BY <1>1, <1>2

(* Nth is what its name says: the ranks of I are 0 .. Cardinality(I) - 1,  *)
(* each of them once.                                                      *)
LEMMA NthInSet ==
  ASSUME NEW I \in SUBSET Nat, IsFiniteSet(I), NEW n \in 1..Cardinality(I)
  PROVE  Nth(I, n) \in I /\ Rank(I, Nth(I, n)) = n - 1
<1> DEFINE r == [i \in I |-> Rank(I, i) + 1]
           N == Cardinality(I)
<1>1. N \in Nat /\ IsFiniteSet(1..N) /\ Cardinality(1..N) = N
  BY FS_CardinalityType, FS_Interval
<1>2. r \in [I -> 1..N]
  BY RankBelow
<1>3. r \in Injection(I, 1..N)
  <2>1. ASSUME NEW i \in I, NEW k \in I, r[i] = r[k] PROVE i = k
    <3>1. Rank(I, i) \in Nat /\ Rank(I, k) \in Nat
      BY RankType
    <3>2. Rank(I, i) = Rank(I, k)
      BY <2>1, <3>1
    <3>3. QED
      BY <3>2, RankDistinguishes
  <2>2. QED
    BY <1>2, <2>1 DEF Injection, IsInjective
<1>4. r \in Surjection(I, 1..N)
  BY <1>1, <1>3, FS_Injection
<1>5. PICK i \in I : r[i] = n
  BY <1>4 DEF Surjection
<1>6. Rank(I, i) = n - 1
  BY <1>5, RankType
<1>7. QED
  BY <1>5, <1>6 DEF Nth, Rank

LEMMA NthOfRank ==
  ASSUME NEW I \in SUBSET Nat, IsFiniteSet(I), NEW i \in I
  PROVE  Nth(I, Rank(I, i) + 1) = i
<1> DEFINE n == Rank(I, i) + 1
<1>1. n \in 1..Cardinality(I) /\ Rank(I, i) \in Nat
  BY RankBelow, RankType
<1>2. PICK k \in I : k = Nth(I, n) /\ Rank(I, k) = n - 1
  BY <1>1, NthInSet
<1>3. Rank(I, k) = Rank(I, i)
  BY <1>1, <1>2
<1>4. k = i
  BY <1>3, RankDistinguishes
<1>5. QED
  BY <1>2, <1>4

(* A selection keeps the elements at its positions, all of them, and no    *)
(* others.                                                                 *)
LEMMA SelectedType ==
  ASSUME NEW S, NEW s, s \in Seq(S), NEW I \in SUBSET DOMAIN s
  PROVE  /\ Selected(s, I) \in Seq(S)
         /\ Len(Selected(s, I)) = Cardinality(I)
         /\ DOMAIN Selected(s, I) = 1..Cardinality(I)
<1>1. I \in SUBSET Nat /\ IsFiniteSet(I) /\ Cardinality(I) \in Nat
  BY Positions
<1>2. \A n \in 1..Cardinality(I) : s[Nth(I, n)] \in S
  BY <1>1, NthInSet
<1>3. QED
  BY <1>1, <1>2 DEF Selected

LEMMA SelectedElements ==
  ASSUME NEW S, NEW s, s \in Seq(S), NEW I \in SUBSET DOMAIN s
  PROVE  /\ \A n \in 1..Cardinality(I) : Nth(I, n) \in I /\ Selected(s, I)[n] = s[Nth(I, n)]
         /\ \A i \in I : /\ Rank(I, i) + 1 \in 1..Cardinality(I)
                         /\ Selected(s, I)[Rank(I, i) + 1] = s[i]
<1>1. I \in SUBSET Nat /\ IsFiniteSet(I) /\ Cardinality(I) \in Nat
  BY Positions
<1>2. \A n \in 1..Cardinality(I) : Nth(I, n) \in I
  BY <1>1, NthInSet
<1>3. \A i \in I : Rank(I, i) + 1 \in 1..Cardinality(I) /\ Nth(I, Rank(I, i) + 1) = i
  BY <1>1, NthOfRank, RankBelow
<1>4. QED
  BY <1>2, <1>3 DEF Selected

(* What is appended after the positions of a selection does not change it, *)
(* and one position more, after the others, is one element more.           *)
LEMMA SelectedAppend ==
  ASSUME NEW S, NEW s, s \in Seq(S), NEW I \in SUBSET DOMAIN s, NEW e
  PROVE  Selected(Append(s, e), I) = Selected(s, I)
<1>1. I \in SUBSET Nat /\ IsFiniteSet(I) /\ Cardinality(I) \in Nat
  BY Positions
<1>2. \A i \in DOMAIN s : Append(s, e)[i] = s[i]
  OBVIOUS
<1>3. \A n \in 1..Cardinality(I) : Append(s, e)[Nth(I, n)] = s[Nth(I, n)]
  BY <1>1, <1>2, NthInSet
<1>4. QED
  BY <1>3 DEF Selected

LEMMA SelectedNext ==
  ASSUME NEW S, NEW s, s \in Seq(S), NEW I \in SUBSET DOMAIN s,
         NEW m \in DOMAIN s, \A i \in I : i < m
  PROVE  Selected(s, I \cup {m}) = Append(Selected(s, I), s[m])
<1> DEFINE J == I \cup {m}
           N == Cardinality(I)
<1>1. /\ I \in SUBSET Nat /\ IsFiniteSet(I) /\ N \in Nat
      /\ J \in SUBSET DOMAIN s /\ J \in SUBSET Nat /\ IsFiniteSet(J)
      /\ m \in Nat /\ m \notin I
  BY Positions
<1>2. Cardinality(J) = N + 1
  BY <1>1, FS_AddElement
<1>3. Rank(J, m) = N
  <2>1. {j \in J : j < m} = I
    BY <1>1
  <2>2. QED
    BY <2>1 DEF Rank
<1>4. \A i \in I : Rank(J, i) = Rank(I, i)
  <2>1. TAKE i \in I
  <2>2. {j \in J : j < i} = {j \in I : j < i}
    BY <1>1
  <2>3. QED
    BY <2>2 DEF Rank
<1> HIDE DEF J, N
<1>5. Nth(J, N + 1) = m
  BY <1>1, <1>3, NthOfRank DEF J
<1>6. ASSUME NEW n \in 1..N PROVE Nth(J, n) = Nth(I, n)
  <2>1. Nth(I, n) \in I /\ Rank(I, Nth(I, n)) = n - 1
    BY <1>1, NthInSet DEF N
  <2>2. Nth(I, n) \in J /\ Rank(J, Nth(I, n)) = n - 1
    BY <1>4, <2>1 DEF J
  <2>3. (n - 1) + 1 = n
    BY <1>1
  <2>4. QED
    BY <1>1, <2>2, <2>3, NthOfRank
<1>7. Selected(s, I) \in Seq(S) /\ Len(Selected(s, I)) = N
  BY SelectedType DEF N
<1>8. Selected(s, J) \in Seq(S) /\ Len(Selected(s, J)) = N + 1
  BY <1>1, <1>2, SelectedType
<1>9. ASSUME NEW n \in 1..(N + 1)
      PROVE  Selected(s, J)[n] = Append(Selected(s, I), s[m])[n]
  <2>1. CASE n = N + 1
    <3>1. Selected(s, J)[n] = s[m]
      BY <1>2, <1>5, <2>1 DEF Selected
    <3>2. QED
      BY <1>7, <2>1, <3>1
  <2>2. CASE n # N + 1
    <3>1. n \in 1..N
      BY <1>1, <2>2
    <3>2. Selected(s, J)[n] = s[Nth(I, n)] /\ Selected(s, I)[n] = s[Nth(I, n)]
      BY <1>2, <1>6, <3>1 DEF Selected, N
    <3>3. QED
      BY <1>7, <3>1, <3>2
  <2>3. QED
    BY <2>1, <2>2
<1>10. Append(Selected(s, I), s[m]) \in Seq(S) /\ Len(Append(Selected(s, I), s[m])) = N + 1
  BY <1>7
<1> DEFINE a == Selected(s, J)
           b == Append(Selected(s, I), s[m])
<1> HIDE DEF a, b
<1>11. a = b
  BY <1>1, <1>8, <1>9, <1>10 DEF a, b
<1>12. QED
  BY <1>11 DEF a, b, J

-----------------------------------------------------------------------------
(* Routes.                                                                 *)

Parsed == [IsParam : BOOLEAN, Name : Literals \cup ParamNames, ParamIndex : Nat]

(* The positions of the parameters of a parsed route.                      *)
ParamsAt(tkn) == {i \in DOMAIN tkn : tkn[i].IsParam}

(* The generator and the router number the parameters of a route alike:    *)
(* the counter ParseRoute keeps and the one ConvertRoute keeps.            *)
LEMMA NumberingsAgree ==
  ASSUME NEW ts, NEW i \in DOMAIN ts, Numbered(ts)[i].IsParam
  PROVE  ParamNum(Numbered(ts), i) = Numbered(ts)[i].ParamIndex
<1>1. DOMAIN Numbered(ts) = DOMAIN ts
  BY DEF Numbered
<1>2. \A j \in DOMAIN ts : Numbered(ts)[j].IsParam = (ts[j].kind = "param")
  BY DEF Numbered
<1>3. {j \in DOMAIN Numbered(ts) : j < i /\ Numbered(ts)[j].IsParam}
        = {j \in DOMAIN ts : j < i /\ ts[j].kind = "param"}
  BY <1>1, <1>2
<1>4. Numbered(ts)[i].ParamIndex = ParamsBefore(ts, i)
  BY <1>2 DEF Numbered
<1>5. QED
  BY <1>3, <1>4 DEF ParamNum, ParamsBefore

(* So the pattern of a route in the router and its key in the generator's  *)
(* canonicalRouteMapper say the same.                                      *)
LEMMA PatternIsCanonicalKey ==
  ASSUME NEW route
  PROVE  ConvertRoute(route) = CanonicalKey(ParseRoute(route))
<1> DEFINE ts == Selected(route.tokens, {i \in DOMAIN route.tokens : route.tokens[i] # EmptyToken})
<1> HIDE DEF ts
<1>1. ASSUME NEW i \in DOMAIN Numbered(ts)
      PROVE  Pattern(Numbered(ts))[i] = CanonicalKey(Numbered(ts))[i]
  <2>1. i \in DOMAIN ts
    BY DEF Numbered
  <2>2. CASE Numbered(ts)[i].IsParam
    BY <2>1, <2>2, NumberingsAgree DEF Pattern, CanonicalKey
  <2>3. CASE ~Numbered(ts)[i].IsParam
    BY <2>3 DEF Pattern, CanonicalKey
  <2>4. QED
    BY <2>2, <2>3
<1>2. Pattern(Numbered(ts)) = CanonicalKey(Numbered(ts))
  BY <1>1 DEF Pattern, CanonicalKey
<1>3. QED
  BY <1>2 DEF ts, ConvertRoute, ParseRoute

(* ParseRoute numbers the parameters from 0 up, in the order of the route. *)
LEMMA ParsedRoute ==
  ASSUME NEW route \in RouteSet
  PROVE  /\ ParseRoute(route) \in Seq(Parsed)
         /\ \A i \in ParamsAt(ParseRoute(route)) :
              /\ ParseRoute(route)[i].Name \in ParamNames
              /\ ParseRoute(route)[i].ParamIndex = Rank(ParamsAt(ParseRoute(route)), i)
<1> DEFINE all == route.tokens
           I == {i \in DOMAIN all : all[i] # EmptyToken}
           ts == Selected(all, I)
           tkn == Numbered(ts)
<1>1. all \in Seq(Tokens \cup {EmptyToken}) /\ I \in SUBSET DOMAIN all
  BY DEF RouteSet
<1>2. /\ ts \in Seq(Tokens \cup {EmptyToken})
      /\ \A n \in DOMAIN ts : ts[n] # EmptyToken
  <2>1. ts \in Seq(Tokens \cup {EmptyToken}) /\ DOMAIN ts = 1..Cardinality(I)
    BY <1>1, SelectedType
  <2>2. \A n \in 1..Cardinality(I) : Nth(I, n) \in I /\ ts[n] = all[Nth(I, n)]
    BY <1>1, SelectedElements
  <2>3. \A i \in I : all[i] # EmptyToken
    OBVIOUS
  <2> HIDE DEF ts, I, all
  <2>4. QED
    BY <2>1, <2>2, <2>3
<1> HIDE DEF ts
<1>3. \A n \in DOMAIN ts : \/ \E l \in Literals : ts[n] = Static(l)
                          \/ \E p \in ParamNames : ts[n] = Param(p)
  BY <1>2 DEF Tokens
<1>4. DOMAIN tkn = DOMAIN ts
  BY DEF Numbered
<1>5. \A n \in DOMAIN ts : ParamsBefore(ts, n) \in Nat
  <2>1. TAKE n \in DOMAIN ts
  <2>2. {j \in DOMAIN ts : j < n /\ ts[j].kind = "param"} \in SUBSET DOMAIN ts
    OBVIOUS
  <2>3. QED
    BY <1>2, <2>2, Positions DEF ParamsBefore
<1>6. \A n \in DOMAIN ts : tkn[n] \in Parsed
  BY <1>3, <1>5 DEF Numbered, Parsed, Static, Param
<1>7. tkn \in Seq(Parsed)
  BY <1>2, <1>4, <1>6 DEF Numbered
<1>8. ASSUME NEW i \in ParamsAt(tkn)
      PROVE  tkn[i].Name \in ParamNames /\ tkn[i].ParamIndex = Rank(ParamsAt(tkn), i)
  <2>1. i \in DOMAIN ts /\ tkn[i].IsParam
    BY <1>4 DEF ParamsAt
  <2>2. ts[i].kind = "param"
    BY <2>1 DEF Numbered
  <2>3. tkn[i].Name \in ParamNames
    BY <1>3, <2>1, <2>2 DEF Numbered, Static, Param
  <2>4. ParamNum(tkn, i) = tkn[i].ParamIndex
    BY <2>1, NumberingsAgree
  <2>5. {j \in DOMAIN tkn : j < i /\ tkn[j].IsParam} = {j \in ParamsAt(tkn) : j < i}
    BY DEF ParamsAt
  <2>6. QED
    BY <2>3, <2>4, <2>5 DEF ParamNum, Rank
<1>9. ParseRoute(route) = tkn
  BY DEF ParseRoute, ts
<1>10. QED
  BY <1>7, <1>8, <1>9

(* The parameters of a pattern or a key are where the route has them, and  *)
(* no two have the same number.                                            *)
LEMMA PatternOfRoute ==
  ASSUME NEW route \in RouteSet, NEW i \in ParamsAt(ParseRoute(route))
  PROVE  LET p == ConvertRoute(route)
             n == ParseRoute(route)[i].ParamIndex
         IN i \in DOMAIN p /\ p[i] = Wild(n) /\ \A j \in DOMAIN p : p[j] = Wild(n) => j = i
<1> DEFINE tkn == ParseRoute(route)
           p == CanonicalKey(tkn)
           n == tkn[i].ParamIndex
<1>1. /\ tkn \in Seq(Parsed)
      /\ \A j \in ParamsAt(tkn) : tkn[j].ParamIndex = Rank(ParamsAt(tkn), j)
  BY ParsedRoute
<1>2. ParamsAt(tkn) \in SUBSET Nat /\ IsFiniteSet(ParamsAt(tkn))
  <2>1. ParamsAt(tkn) \in SUBSET DOMAIN tkn
    BY DEF ParamsAt
  <2>2. QED
    BY <1>1, <2>1, Positions
<1> HIDE DEF tkn
<1>3. i \in ParamsAt(tkn)
  BY DEF tkn
<1>4. i \in DOMAIN p /\ p[i] = Wild(n)
  BY <1>3 DEF CanonicalKey, ParamsAt
<1>5. ASSUME NEW j \in DOMAIN p, p[j] = Wild(n) PROVE j = i
  <2>1. j \in ParamsAt(tkn) /\ tkn[j].ParamIndex = n
    BY <1>5 DEF CanonicalKey, ParamsAt, Wild, Segment
  <2>2. Rank(ParamsAt(tkn), j) = Rank(ParamsAt(tkn), i)
    BY <1>1, <1>3, <2>1
  <2>3. QED
    BY <1>2, <1>3, <2>1, <2>2, RankDistinguishes
<1>6. p = ConvertRoute(route)
  BY PatternIsCanonicalKey DEF tkn
<1>7. QED
  BY <1>4, <1>5, <1>6 DEF tkn
-----------------------------------------------------------------------------
(* Measures: six numbers, the first that changes deciding.  No sequence of *)
(* them goes down without end.                                             *)
Measures == [1..6 -> Nat]
Lower == LexProductOrdering(OpToRel(<, Nat), Nat, 6)

LEMMA LowerEnds == IsWellFoundedOn(Lower, Measures)
<1>1. IsWellFoundedOn(OpToRel(<, Nat), Nat)
  BY NatLessThanWellFounded
<1>2. QED
  BY <1>1, WFLexProductOrdering DEF Lower, Measures

LEMMA SixMeasure ==
  ASSUME NEW a \in Nat, NEW b \in Nat, NEW c \in Nat, NEW d \in Nat, NEW e \in Nat, NEW f \in Nat
  PROVE  <<a, b, c, d, e, f>> \in Measures
<1>1. \A i \in 1..6 : i = 1 \/ i = 2 \/ i = 3 \/ i = 4 \/ i = 5 \/ i = 6
  OBVIOUS
<1>2. QED
  BY <1>1 DEF Measures

LEMMA LowerAt ==
  ASSUME NEW s \in Measures, NEW t \in Measures, NEW j \in 1..6,
         \A i \in 1..(j - 1) : s[i] = t[i], s[j] < t[j]
  PROVE  <<s, t>> \in Lower
<1>1. s[j] \in Nat /\ t[j] \in Nat
  BY DEF Measures
<1>2. \A x \in Nat, y \in Nat : x < y => <<x, y>> \in OpToRel(<, Nat)
  BY DEF OpToRel
<1>3. <<s[j], t[j]>> \in OpToRel(<, Nat)
  BY <1>1, <1>2
<1>4. <<s, t>> \in [1..6 -> Nat] \X [1..6 -> Nat]
  BY DEF Measures
<1>5. <<s, t>>[1] = s /\ <<s, t>>[2] = t
  OBVIOUS
<1>6. QED
  BY <1>3, <1>4, <1>5 DEF Lower, LexProductOrdering

LEMMA SixLower ==
  ASSUME NEW a1 \in Nat, NEW b1 \in Nat, NEW c1 \in Nat, NEW d1 \in Nat, NEW e1 \in Nat, NEW f1 \in Nat,
         NEW a2 \in Nat, NEW b2 \in Nat, NEW c2 \in Nat, NEW d2 \in Nat, NEW e2 \in Nat, NEW f2 \in Nat,
         \/ a2 < a1
         \/ a2 = a1 /\ b2 < b1
         \/ a2 = a1 /\ b2 = b1 /\ c2 < c1
         \/ a2 = a1 /\ b2 = b1 /\ c2 = c1 /\ d2 < d1
         \/ a2 = a1 /\ b2 = b1 /\ c2 = c1 /\ d2 = d1 /\ e2 < e1
         \/ a2 = a1 /\ b2 = b1 /\ c2 = c1 /\ d2 = d1 /\ e2 = e1 /\ f2 < f1
  PROVE  << <<a2, b2, c2, d2, e2, f2>>, <<a1, b1, c1, d1, e1, f1>> >> \in Lower
<1> DEFINE s == <<a2, b2, c2, d2, e2, f2>>
           t == <<a1, b1, c1, d1, e1, f1>>
<1>1. s \in Measures /\ t \in Measures
  BY SixMeasure
<1>2. /\ s[1] = a2 /\ s[2] = b2 /\ s[3] = c2 /\ s[4] = d2 /\ s[5] = e2 /\ s[6] = f2
      /\ t[1] = a1 /\ t[2] = b1 /\ t[3] = c1 /\ t[4] = d1 /\ t[5] = e1 /\ t[6] = f1
  OBVIOUS
<1> HIDE DEF s, t
<1>3. \E j \in 1..6 : s[j] < t[j] /\ \A i \in 1..(j - 1) : s[i] = t[i]
  <2>1. CASE a2 < a1
    <3>1. \A i \in 1..(1 - 1) : s[i] = t[i]
      BY <1>2, <2>1
    <3>2. 1 \in 1..6 /\ s[1] < t[1]
      BY <1>2, <2>1
    <3>3. QED
      BY <3>1, <3>2
  <2>2. CASE a2 = a1 /\ b2 < b1
    <3>1. \A i \in 1..(2 - 1) : s[i] = t[i]
      BY <1>2, <2>2
    <3>2. 2 \in 1..6 /\ s[2] < t[2]
      BY <1>2, <2>2
    <3>3. QED
      BY <3>1, <3>2
  <2>3. CASE a2 = a1 /\ b2 = b1 /\ c2 < c1
    <3>1. \A i \in 1..(3 - 1) : s[i] = t[i]
      BY <1>2, <2>3
    <3>2. 3 \in 1..6 /\ s[3] < t[3]
      BY <1>2, <2>3
    <3>3. QED
      BY <3>1, <3>2
  <2>4. CASE a2 = a1 /\ b2 = b1 /\ c2 = c1 /\ d2 < d1
    <3>1. \A i \in 1..(4 - 1) : s[i] = t[i]
      BY <1>2, <2>4
    <3>2. 4 \in 1..6 /\ s[4] < t[4]
      BY <1>2, <2>4
    <3>3. QED
      BY <3>1, <3>2
  <2>5. CASE a2 = a1 /\ b2 = b1 /\ c2 = c1 /\ d2 = d1 /\ e2 < e1
    <3>1. \A i \in 1..(5 - 1) : s[i] = t[i]
      BY <1>2, <2>5
    <3>2. 5 \in 1..6 /\ s[5] < t[5]
      BY <1>2, <2>5
    <3>3. QED
      BY <3>1, <3>2
  <2>6. CASE a2 = a1 /\ b2 = b1 /\ c2 = c1 /\ d2 = d1 /\ e2 = e1 /\ f2 < f1
    <3>1. \A i \in 1..(6 - 1) : s[i] = t[i]
      BY <1>2, <2>6
    <3>2. 6 \in 1..6 /\ s[6] < t[6]
      BY <1>2, <2>6
    <3>3. QED
      BY <3>1, <3>2
  <2>7. QED
    BY <2>1, <2>2, <2>3, <2>4, <2>5, <2>6
<1>4. QED
  BY <1>1, <1>3, LowerAt DEF s, t
=============================================================================
