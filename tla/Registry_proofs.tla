--------------------------- MODULE Registry_proofs ---------------------------
(***************************************************************************)
(* Theorems about Routes and Registry, for every set of services,          *)
(* descriptors and path segments.                                          *)
(***************************************************************************)
EXTENDS Registry, Routes_proofs

(* Two patterns with a common prefix number the wildcard after it alike.   *)
LEMMA SamePrefixSameNumber ==
  ASSUME NEW t, NEW u, NEW i, SamePrefix(Pattern(t), Pattern(u), i)
  PROVE  ParamNum(t, i) = ParamNum(u, i)
<1>1. DOMAIN Pattern(t) = DOMAIN t /\ DOMAIN Pattern(u) = DOMAIN u
  BY DEF Pattern
<1>2. ASSUME NEW j \in DOMAIN t, NEW k \in DOMAIN u, Pattern(t)[j] = Pattern(u)[k]
      PROVE  t[j].IsParam <=> u[k].IsParam
  BY <1>2 DEF Pattern, Wild, Segment
<1>3. ASSUME NEW j, j < i
      PROVE  (j \in DOMAIN t /\ t[j].IsParam) <=> (j \in DOMAIN u /\ u[j].IsParam)
  BY <1>1, <1>2, <1>3 DEF SamePrefix
<1>4. {j \in DOMAIN t : j < i /\ t[j].IsParam} = {j \in DOMAIN u : j < i /\ u[j].IsParam}
  BY <1>3
<1>5. QED
  BY <1>4 DEF ParamNum

(* Patterns that ConvertRoute made never disagree about a wildcard.        *)
LEMMA NoConflict ==
  ASSUME NEW t, NEW u
  PROVE  ~WildcardConflict(Pattern(t), Pattern(u))
<1>1. SUFFICES ASSUME NEW i \in DOMAIN Pattern(t) \cap DOMAIN Pattern(u),
                      SamePrefix(Pattern(t), Pattern(u), i),
                      IsWild(Pattern(t)[i]), IsWild(Pattern(u)[i])
               PROVE  Pattern(t)[i] = Pattern(u)[i]
  BY DEF WildcardConflict
<1>2. i \in DOMAIN t /\ i \in DOMAIN u
  BY DEF Pattern
<1>3. Pattern(t)[i] = Wild(ParamNum(t, i)) /\ Pattern(u)[i] = Wild(ParamNum(u, i))
  BY <1>1, <1>2 DEF Pattern, IsWild, Segment
<1>4. QED
  BY <1>1, <1>3, SamePrefixSameNumber

-----------------------------------------------------------------------------
(* The invariant is inductive.                                             *)

LEMMA InitInv == Init => RegistryInv
<1>1. SUFFICES ASSUME Init PROVE RegistryInv
  OBVIOUS
<1>2. TypeOK
  BY <1>1, DescriptorsAssumption DEF Init, TypeOK
<1>3. TreeByLoop
  <2>1. ASSUME NEW s \in Services, NEW i \in DOMAIN methods[s]
        PROVE  ~(i < next[s])
    <3>1. methods[s] \in Seq(MethodSet)
      BY <1>2 DEF TypeOK
    <3>2. i \in Nat \ {0} /\ next[s] = 1
      BY <1>1, <3>1 DEF Init
    <3>3. QED
      BY <3>2
  <2>2. \A s \in Services : next[s] = 1 /\ state[s] = "new" /\ tree = {}
    BY <1>1 DEF Init
  <2>3. QED
    BY <2>1, <2>2 DEF TreeByLoop
<1>4. NoWildcardPanic /\ AllOrPanic
  BY <1>1 DEF Init, NoWildcardPanic, AllOrPanic
<1>5. QED
  BY <1>2, <1>3, <1>4 DEF RegistryInv

(* What is in the tree is what the loop put there.                         *)
LEMMA RefusalByDescriptors ==
  ASSUME TypeOK, TreeByLoop, NEW s \in Services, next[s] \in DOMAIN methods[s]
  PROVE  /\ Refusal(s, next[s]) \in {"no", "route", "duplicate"}
         /\ Refusal(s, next[s]) = "route" => ~methods[s][next[s]].route.rooted
         /\ Refusal(s, next[s]) = "duplicate" =>
              \E t \in Services : \E j \in DOMAIN methods[t] :
                <<s, next[s]>> # <<t, j>> /\ SameRoute(methods[s][next[s]], methods[t][j])
<1> DEFINE m == methods[s][next[s]]
           e == Entry(s, next[s])
<1>1. \A t \in tree : ~WildcardConflict(t.pattern, e.pattern)
  <2>1. ASSUME NEW t \in tree
        PROVE  t.pattern = Pattern(ParseRoute(methods[t.service][t.method].route))
    BY <2>1 DEF TypeOK, Entry, ConvertRoute
  <2>2. e.pattern = Pattern(ParseRoute(m.route))
    BY DEF Entry, ConvertRoute
  <2>3. QED
    BY <2>1, <2>2, NoConflict
<1>2. Refusal(s, next[s]) \in {"no", "route", "duplicate"}
  BY <1>1 DEF Refusal, Rivals
<1>3. Refusal(s, next[s]) = "route" => ~m.route.rooted
  BY <1>1 DEF Refusal, Valid, Rivals
<1>4. ASSUME Refusal(s, next[s]) = "duplicate"
      PROVE  \E t \in Services : \E j \in DOMAIN methods[t] :
               <<s, next[s]>> # <<t, j>> /\ SameRoute(m, methods[t][j])
  <2>1. PICK t \in tree : t.verb = e.verb /\ t.pattern = e.pattern
    BY <1>4 DEF Refusal, Rivals
  <2>2. /\ t.service \in Services
        /\ t.method \in DOMAIN methods[t.service]
        /\ t = Entry(t.service, t.method)
    BY DEF TypeOK
  <2>3. <<s, next[s]>> # <<t.service, t.method>>
    <3>1. t.service = s => t.method < next[s]
      BY DEF TreeByLoop
    <3>2. next[s] \in Nat
      BY DEF TypeOK
    <3>3. QED
      BY <3>1, <3>2
  <2>4. /\ m.verb = methods[t.service][t.method].verb
        /\ ConvertRoute(m.route) = ConvertRoute(methods[t.service][t.method].route)
    BY <2>1, <2>2 DEF Entry
  <2>5. SameRoute(m, methods[t.service][t.method])
    BY <2>4, PatternIsCanonicalKey DEF SameRoute
  <2>6. QED
    BY <2>2, <2>3, <2>5
<1>5. QED
  BY <1>2, <1>3, <1>4

LEMMA RegisterServiceInv ==
  ASSUME RegistryInv, NEW s \in Services, NEW impl \in Impls, RegisterService(s, impl)
  PROVE  RegistryInv'
<1> USE DEF RegistryInv, RegisterService
<1>1. TypeOK'
  BY DEF TypeOK, Entry
<1>2. TreeByLoop'
  BY DEF TypeOK, TreeByLoop, Entry
<1>3. NoWildcardPanic'
  BY DEF NoWildcardPanic
<1>4. AllOrPanic'
  BY DEF TypeOK, AllOrPanic, Entry, SameRoute
<1>5. QED
  BY <1>1, <1>2, <1>3, <1>4

LEMMA HandleInv ==
  ASSUME RegistryInv, NEW s \in Services, Handle(s)
  PROVE  RegistryInv'
<1> USE DEF RegistryInv
<1>1. /\ next[s] \in DOMAIN methods[s]
      /\ state[s] = "registering"
      /\ UNCHANGED <<methods, state>>
      /\ panic' = Refusal(s, next[s])
  BY DEF Handle
<1>2. \A t \in Services : \A i : Entry(t, i)' = Entry(t, i)
  BY <1>1 DEF Entry
<1>3. \/ panic' = "no" /\ tree' = tree \cup {Entry(s, next[s])}
         /\ next' = [next EXCEPT ![s] = @ + 1]
      \/ panic' # "no" /\ UNCHANGED <<tree, next>>
  BY DEF Handle
<1>4. Entry(s, next[s]).service = s /\ Entry(s, next[s]).method = next[s]
  BY DEF Entry
<1>5. next \in [Services -> Nat]
  BY DEF TypeOK
<1>6. next' \in [Services -> Nat] /\ \A t \in Services : next'[t] \in {next[t], next[t] + 1}
  <2>1. CASE next' = next
    BY <1>5, <2>1
  <2>2. CASE next' = [next EXCEPT ![s] = @ + 1]
    BY <1>5, <2>2
  <2>3. QED
    BY <1>3, <2>1, <2>2
<1>7. TypeOK'
  <2>1. panic' \in {"no", "implementation", "route", "wildcard", "duplicate"}
    BY <1>1, RefusalByDescriptors
  <2>2. \A e \in tree' : /\ e.service \in Services
                         /\ e.method \in DOMAIN methods[e.service]
                         /\ e = Entry(e.service, e.method)
    BY <1>1, <1>3, <1>4 DEF TypeOK
  <2>3. QED
    BY <1>1, <1>2, <1>6, <2>1, <2>2 DEF TypeOK
<1>8. TreeByLoop'
  <2>1. ASSUME NEW t \in Services, NEW i \in DOMAIN methods[t], i < next'[t]
        PROVE  Entry(t, i) \in tree'
    <3>1. methods[t] \in Seq(MethodSet) /\ i \in Nat /\ next[t] \in Nat
      BY DEF TypeOK
    <3>2. i < next[t] \/ (t = s /\ i = next[t] /\ panic' = "no")
      BY <1>3, <2>1, <3>1 DEF TypeOK
    <3>3. QED
      BY <1>3, <3>2 DEF TreeByLoop
  <2>2. ASSUME NEW t \in Services, NEW e \in tree', e.service = t
        PROVE  e.method < next'[t]
    <3>1. next[t] \in Nat
      BY DEF TypeOK
    <3>2. CASE e \in tree
      <4>1. e.method < next[t] /\ e.method \in Nat
        BY <2>2, <3>2 DEF TreeByLoop, TypeOK
      <4>2. QED
        BY <1>6, <3>1, <4>1
    <3>3. CASE e \notin tree
      BY <1>3, <1>4, <2>2, <3>1, <3>3 DEF TypeOK
    <3>4. QED
      BY <3>2, <3>3
  <2>3. ASSUME NEW t \in Services
        PROVE  /\ next'[t] > 0
               /\ state[t] = "registered" => next'[t] \notin DOMAIN methods[t]
    <3>1. next'[t] > 0
      BY <1>5, <1>6 DEF TreeByLoop
    <3>2. state[t] = "registered" => t # s
      BY <1>1
    <3>3. t # s => next'[t] = next[t]
      BY <1>3, <1>5
    <3>4. QED
      BY <3>1, <3>2, <3>3 DEF TreeByLoop
  <2>4. QED
    BY <1>1, <1>2, <2>1, <2>2, <2>3 DEF TreeByLoop
<1>9. NoWildcardPanic'
  BY <1>1, RefusalByDescriptors DEF NoWildcardPanic
<1>10. AllOrPanic'
  <2>1. \A t \in Services : state[t] = "registered" =>
          \A i \in DOMAIN methods[t] : Entry(t, i) \in tree'
    BY <1>3 DEF AllOrPanic
  <2>2. panic' = "duplicate" =>
          \E q, t \in Services : \E i \in DOMAIN methods[q], j \in DOMAIN methods[t] :
            <<q, i>> # <<t, j>> /\ SameRoute(methods[q][i], methods[t][j])
    BY <1>1, RefusalByDescriptors
  <2>3. panic' = "route" =>
          \E t \in Services : \E i \in DOMAIN methods[t] : ~methods[t][i].route.rooted
    BY <1>1, RefusalByDescriptors
  <2>4. QED
    BY <1>1, <1>2, <2>1, <2>2, <2>3 DEF AllOrPanic, SameRoute
<1>11. QED
  BY <1>7, <1>8, <1>9, <1>10

LEMMA ReturnInv ==
  ASSUME RegistryInv, NEW s \in Services, Return(s)
  PROVE  RegistryInv'
<1> USE DEF RegistryInv, Return
<1>1. TypeOK'
  BY DEF TypeOK, Entry
<1>2. TreeByLoop'
  BY DEF TypeOK, TreeByLoop, Entry
<1>3. NoWildcardPanic'
  BY DEF NoWildcardPanic
<1>4. AllOrPanic'
  <2>1. \A t \in Services : \A i : Entry(t, i)' = Entry(t, i)
    BY DEF Entry
  <2>2. ASSUME NEW i \in DOMAIN methods[s]
        PROVE  Entry(s, i) \in tree
    <3>1. methods[s] \in Seq(MethodSet) /\ next[s] \in Nat
      BY DEF TypeOK
    <3>2. next[s] > Len(methods[s])
      BY <3>1 DEF TreeByLoop
    <3>3. i < next[s]
      BY <3>1, <3>2
    <3>4. QED
      BY <3>3 DEF TreeByLoop
  <2>3. \A t \in Services : state'[t] = "registered" =>
          \A i \in DOMAIN methods[t] : Entry(t, i) \in tree
    BY <2>2 DEF AllOrPanic, TypeOK
  <2>4. QED
    BY <2>1, <2>3 DEF AllOrPanic, SameRoute
<1>5. QED
  BY <1>1, <1>2, <1>3, <1>4

LEMMA NextInv == RegistryInv /\ [Next]_vars => RegistryInv'
<1>1. SUFFICES ASSUME RegistryInv, [Next]_vars PROVE RegistryInv'
  OBVIOUS
<1>2. CASE \E s \in Services : \E impl \in Impls : RegisterService(s, impl)
  BY <1>1, <1>2, RegisterServiceInv
<1>3. CASE \E s \in Services : Handle(s)
  BY <1>1, <1>3, HandleInv
<1>4. CASE \E s \in Services : Return(s)
  BY <1>1, <1>4, ReturnInv
<1>5. CASE UNCHANGED vars
  BY <1>1, <1>5 DEF vars, RegistryInv, TypeOK, TreeByLoop, NoWildcardPanic, AllOrPanic,
                    Entry, SameRoute
<1>6. QED
  BY <1>1, <1>2, <1>3, <1>4, <1>5 DEF Next, Over

(* Everything below holds of every registration.                           *)
THEOREM RegistryInvariant == Spec => []RegistryInv
<1>1. QED
  BY InitInv, NextInv, PTL DEF Spec

(* The state of a registration has its type, and the tree holds nothing    *)
(* but methods of the services, under the pattern of their routes.         *)
THEOREM RegistryTypeCorrect == Spec => []TypeOK
<1>1. RegistryInv => TypeOK
  BY DEF RegistryInv
<1>2. QED
  BY <1>1, RegistryInvariant, PTL

(* However the services name the parameters of their routes, gin never     *)
(* refuses a wildcard.                                                     *)
THEOREM WildcardsNeverClash == Spec => []NoWildcardPanic
<1>1. RegistryInv => NoWildcardPanic
  BY DEF RegistryInv
<1>2. QED
  BY <1>1, RegistryInvariant, PTL

(* Every decoder reads its parameters from the segments where its route    *)
(* has them: the pattern gin was given has the wildcard of a ParamIndex at *)
(* the parameter's position, and nowhere else.                             *)
LEMMA EntriesBind == TypeOK => ParametersReachTheirFields
<1>1. SUFFICES ASSUME TypeOK,
                      NEW e \in tree,
                      NEW i \in ParamsAt(ParseRoute(methods[e.service][e.method].route))
               PROVE  LET tkn == ParseRoute(methods[e.service][e.method].route) IN
                      /\ \E j \in DOMAIN e.pattern : e.pattern[j] = Wild(tkn[i].ParamIndex)
                      /\ BoundPosition(e.pattern, tkn[i].ParamIndex) = i
  BY DEF ParametersReachTheirFields, ParamsAt
<1> DEFINE route == methods[e.service][e.method].route
           n == ParseRoute(route)[i].ParamIndex
           p == e.pattern
<1>2. route \in RouteSet
  <2>1. e.service \in Services /\ e.method \in DOMAIN methods[e.service]
    BY <1>1 DEF TypeOK
  <2>2. methods[e.service] \in Seq(MethodSet)
    BY <1>1, <2>1 DEF TypeOK
  <2>3. methods[e.service][e.method] \in MethodSet
    BY <2>1, <2>2
  <2>4. QED
    BY <2>3 DEF MethodSet
<1>3. p = ConvertRoute(route)
  <2>1. e = Entry(e.service, e.method)
    BY <1>1 DEF TypeOK
  <2>2. Entry(e.service, e.method).pattern = ConvertRoute(route)
    BY DEF Entry
  <2>3. QED
    BY <2>1, <2>2
<1>4. i \in DOMAIN p /\ p[i] = Wild(n) /\ \A j \in DOMAIN p : p[j] = Wild(n) => j = i
  BY <1>1, <1>2, <1>3, PatternOfRoute
<1>5. DOMAIN p = 1..Len(ParseRoute(route)) /\ Len(ParseRoute(route)) \in Nat
  <2>1. ParseRoute(route) \in Seq(Parsed)
    BY <1>2, ParsedRoute
  <2>2. DOMAIN p = DOMAIN ParseRoute(route)
    BY <1>3 DEF ConvertRoute, Pattern
  <2>3. QED
    BY <2>1, <2>2
<1>6. \A j \in 1..(i - 1) : p[j] # Wild(n)
  <2>1. \A j \in 1..(i - 1) : j \in DOMAIN p /\ j # i
    BY <1>4, <1>5
  <2>2. QED
    BY <1>4, <2>1
<1>7. BoundPosition(p, n) = i
  BY <1>4, <1>6 DEF BoundPosition
<1>8. QED
  BY <1>4, <1>7

(* For routes of any length and any names: the segment a decoder reads     *)
(* with PathParam(ParamIndex) is the one where its route has the parameter.*)
THEOREM DecodersReadTheirSegments == Spec => []ParametersReachTheirFields
<1>1. QED
  BY EntriesBind, RegistryTypeCorrect, PTL

(* A registered service is in the router as a whole, and a panic is the    *)
(* fault of a route or of a duplicate.                                     *)
THEOREM RegisteredOrPanicked == Spec => []AllOrPanic
<1>1. RegistryInv => AllOrPanic
  BY DEF RegistryInv
<1>2. QED
  BY <1>1, RegistryInvariant, PTL
-----------------------------------------------------------------------------
(* No two entries of the tree have one verb and one pattern.               *)
EntriesApart == \A e, f \in tree : e.verb = f.verb /\ e.pattern = f.pattern => e = f

LEMMA ApartNext == TypeOK /\ EntriesApart /\ [Next]_vars => EntriesApart'
<1>1. SUFFICES ASSUME TypeOK, EntriesApart, [Next]_vars PROVE EntriesApart'
  OBVIOUS
<1>2. ASSUME tree' = tree PROVE EntriesApart'
  BY <1>1, <1>2 DEF EntriesApart
<1>3. ASSUME NEW s \in Services, Handle(s) PROVE EntriesApart'
  <2> DEFINE new == Entry(s, next[s])
  <2>1. CASE tree' = tree
    BY <1>2, <2>1
  <2>2. CASE Refusal(s, next[s]) = "no" /\ tree' = tree \cup {new}
    <3>1. \A e \in tree : ~(e.verb = new.verb /\ e.pattern = new.pattern)
      <4>1. ~\E e \in Rivals(new) : e.pattern = new.pattern
        BY <2>2 DEF Refusal
      <4>2. QED
        BY <4>1 DEF Rivals
    <3> HIDE DEF new
    <3>2. QED
      BY <1>1, <2>2, <3>1 DEF EntriesApart
  <2>3. QED
    BY <1>3, <2>1, <2>2 DEF Handle
<1>4. QED
  BY <1>1, <1>2, <1>3 DEF Next, RegisterService, Return, Over, vars

(* Two methods the loops have been through do not have the same verb and   *)
(* the same route up to the names of parameters, in whichever services.    *)
RoutesApart ==
  \A s, t \in Services : \A i \in DOMAIN methods[s], j \in DOMAIN methods[t] :
    i < next[s] /\ j < next[t] /\ SameRoute(methods[s][i], methods[t][j]) => s = t /\ i = j

(* RoutesApart: every request has one method at most that is registered    *)
(* for its verb and the shape of its path's route; and what the generator  *)
(* keeps under one path and verb is one method's (Apart in                 *)
(* Generator_proofs), because the key of canonicalRouteMapper is the       *)
(* pattern gin is given.                                                   *)
THEOREM RegisteredRoutesApart == Spec => []RoutesApart
<1>1. ASSUME RegistryInv, EntriesApart,
             NEW s \in Services, NEW t \in Services,
             NEW i \in DOMAIN methods[s], NEW j \in DOMAIN methods[t],
             i < next[s], j < next[t], SameRoute(methods[s][i], methods[t][j])
      PROVE  s = t /\ i = j
  <2>1. Entry(s, i) \in tree /\ Entry(t, j) \in tree
    BY <1>1 DEF RegistryInv, TreeByLoop
  <2>2. Entry(s, i).verb = Entry(t, j).verb /\ Entry(s, i).pattern = Entry(t, j).pattern
    BY <1>1, PatternIsCanonicalKey DEF SameRoute, Entry
  <2>3. Entry(s, i) = Entry(t, j)
    BY <1>1, <2>1, <2>2 DEF EntriesApart
  <2>4. /\ Entry(s, i).service = s /\ Entry(s, i).method = i
        /\ Entry(t, j).service = t /\ Entry(t, j).method = j
    BY DEF Entry
  <2>5. QED
    BY <2>3, <2>4
<1>2. RegistryInv /\ EntriesApart => RoutesApart
  BY <1>1 DEF RoutesApart
<1>3. Init => EntriesApart
  BY DEF Init, EntriesApart
<1>4. RegistryInv /\ EntriesApart /\ [Next]_vars => EntriesApart'
  BY ApartNext DEF RegistryInv
<1>5. QED
  BY <1>2, <1>3, <1>4, RegistryInvariant, PTL DEF Spec
=============================================================================
