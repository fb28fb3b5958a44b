------------------------------ MODULE Registry ------------------------------
(***************************************************************************)
(* Registry.RegisterService: the methods of each service are put one after *)
(* the other into the router's tree, and any problem is a panic that ends  *)
(* the program.  gin's tree is external: of it the module keeps which      *)
(* pattern belongs to which method, when addRoute panics, and which        *)
(* segment of a path a wildcard binds.                                     *)
(***************************************************************************)
EXTENDS Routes

CONSTANTS Services,      \* the ServiceDescs
          Verbs,         \* HTTP methods
          Descriptors    \* the possible methods of the services, see methods

(* A MethodDesc.                                                           *)
MethodSet == [verb : Verbs, route : RouteSet]

ASSUME DescriptorsAssumption == Descriptors \subseteq [Services -> Seq(MethodSet)]

VARIABLES methods,    \* methods[s]: the MethodDescs of s
          state,      \* state[s]: "new", "registering" or "registered"
          next,       \* next[s]: the method RegisterService is at
          tree,       \* the router's entries
          panic       \* why the program panicked, "no" if it did not

vars == <<methods, state, next, tree, panic>>

(* What RegisterService is given as implementation: nil, a value of the    *)
(* service's HandlerType, or one of another type.                          *)
Impls == {"none", "good", "wrong"}

(* Mutant: the handler keeps the loop variable, and with it the last       *)
(* method.                                                                 *)
Entry_LoopVariable(s, i) == [verb |-> methods[s][i].verb,
                             pattern |-> ConvertRoute(methods[s][i].route),
                             service |-> s, method |-> Len(methods[s])]

Entry(s, i) == [verb |-> methods[s][i].verb,
                pattern |-> ConvertRoute(methods[s][i].route),
                service |-> s, method |-> i]

(* Two patterns take the same way down the tree as far as position i.      *)
SamePrefix(p, q, i) ==
  \A j \in DOMAIN p \cup DOMAIN q :
    j < i => j \in DOMAIN p \cap DOMAIN q /\ p[j] = q[j]

IsWild(segment) == segment[1] = ":"

(* addRoute: a wildcard where the tree has one of another name.            *)
WildcardConflict(p, q) ==
  \E i \in DOMAIN p \cap DOMAIN q :
    SamePrefix(p, q, i) /\ IsWild(p[i]) /\ IsWild(q[i]) /\ p[i] # q[i]

Rivals(e) == {t \in tree : t.verb = e.verb}

(* Why one turn of the loop panics: in ConvertRoute, or in router.Handle.  *)
Refusal(s, i) ==
  LET e == Entry(s, i) IN
  IF ~Valid(methods[s][i].route) THEN "route"
  ELSE IF \E t \in Rivals(e) : WildcardConflict(t.pattern, e.pattern) THEN "wildcard"
  ELSE IF \E t \in Rivals(e) : t.pattern = e.pattern THEN "duplicate"
  ELSE "no"

Init ==
  /\ methods \in Descriptors
  /\ state = [s \in Services |-> "new"]
  /\ next = [s \in Services |-> 1]
  /\ tree = {}
  /\ panic = "no"

(* The implementation is checked against HandlerType unless it is nil.     *)
RegisterService(s, impl) ==
  /\ panic = "no"
  /\ state[s] = "new"
  /\ \A t \in Services : state[t] # "registering"
  /\ IF impl = "wrong"
       THEN panic' = "implementation" /\ UNCHANGED state
       ELSE state' = [state EXCEPT ![s] = "registering"] /\ UNCHANGED panic
  /\ UNCHANGED <<methods, next, tree>>

(* Mutant: a route that cannot be converted is skipped.                    *)
Handle_Skips(s) ==
  /\ panic = "no"
  /\ state[s] = "registering"
  /\ next[s] \in DOMAIN methods[s]
  /\ IF Refusal(s, next[s]) = "no" THEN tree' = tree \cup {Entry(s, next[s])}
                                   ELSE UNCHANGED tree
  /\ next' = [next EXCEPT ![s] = @ + 1]
  /\ UNCHANGED <<methods, state, panic>>

(* One turn of the loop over the methods.                                  *)
Handle(s) ==
  /\ panic = "no"
  /\ state[s] = "registering"
  /\ next[s] \in DOMAIN methods[s]
  /\ panic' = Refusal(s, next[s])
  /\ IF panic' = "no"
       THEN /\ tree' = tree \cup {Entry(s, next[s])}
            /\ next' = [next EXCEPT ![s] = @ + 1]
       ELSE UNCHANGED <<tree, next>>
  /\ UNCHANGED <<methods, state>>

Return(s) ==
  /\ panic = "no"
  /\ state[s] = "registering"
  /\ next[s] \notin DOMAIN methods[s]
  /\ state' = [state EXCEPT ![s] = "registered"]
  /\ UNCHANGED <<methods, next, tree, panic>>

Over == /\ panic # "no" \/ \A s \in Services : state[s] = "registered"
        /\ UNCHANGED vars

Next ==
  \/ \E s \in Services : (\E impl \in Impls : RegisterService(s, impl)) \/ Handle(s) \/ Return(s)
  \/ Over

Spec == Init /\ [][Next]_vars

-----------------------------------------------------------------------------
(* Properties.                                                             *)

TypeOK ==
  /\ methods \in [Services -> Seq(MethodSet)]
  /\ state \in [Services -> {"new", "registering", "registered"}]
  /\ next \in [Services -> Nat]
  /\ \A e \in tree : /\ e.service \in Services
                     /\ e.method \in DOMAIN methods[e.service]
                     /\ e = Entry(e.service, e.method)
  /\ panic \in {"no", "implementation", "route", "wildcard", "duplicate"}

(* What RegisterService has been through is in the tree, and nothing else. *)
TreeByLoop ==
  \A s \in Services :
    /\ \A i \in DOMAIN methods[s] : i < next[s] => Entry(s, i) \in tree
    /\ \A e \in tree : e.service = s => e.method < next[s]
    /\ next[s] > 0
    /\ state[s] = "registered" => next[s] \notin DOMAIN methods[s]

(* Numbering the parameters is what lets services that name the parameters *)
(* of overlapping routes differently share one router: gin never refuses a *)
(* wildcard of theirs (ConvertRoute, ginapi_handler.go:184-192).           *)
NoWildcardPanic == panic # "wildcard"

(* The segment a generated decoder reads with PathParam(ParamIndex) is the *)
(* one where its route has the parameter: the generator and the router     *)
(* number the parameters of a route alike.                                 *)
ParametersReachTheirFields ==
  \A e \in tree :
    LET tkn == ParseRoute(methods[e.service][e.method].route) IN
    \A i \in DOMAIN tkn : tkn[i].IsParam =>
      /\ \E j \in DOMAIN e.pattern : e.pattern[j] = Wild(tkn[i].ParamIndex)
      /\ BoundPosition(e.pattern, tkn[i].ParamIndex) = i

(* A registered service has every one of its methods in the tree; if the   *)
(* program gave up it is over an error of the descriptors, and over a      *)
(* duplicate only if two methods have the same verb and the same route up  *)
(* to the names of its parameters.                                         *)
SameRoute(m, n) ==
  m.verb = n.verb /\ CanonicalKey(ParseRoute(m.route)) = CanonicalKey(ParseRoute(n.route))

AllOrPanic ==
  /\ \A s \in Services : state[s] = "registered" =>
       \A i \in DOMAIN methods[s] : Entry(s, i) \in tree
  /\ panic = "duplicate" =>
       \E s, t \in Services : \E i \in DOMAIN methods[s], j \in DOMAIN methods[t] :
         <<s, i>> # <<t, j>> /\ SameRoute(methods[s][i], methods[t][j])
  /\ panic = "route" =>
       \E s \in Services : \E i \in DOMAIN methods[s] : ~methods[s][i].route.rooted

(* The inductive invariant of the safety proofs.                           *)
RegistryInv == TypeOK /\ TreeByLoop /\ NoWildcardPanic /\ AllOrPanic
=============================================================================
