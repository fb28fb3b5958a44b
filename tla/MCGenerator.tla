----------------------------- MODULE MCGenerator -----------------------------
(* Two files.  f1 has a service of two methods, f2 one of one method or    *)
(* none and a forced message; the methods are drawn from a list in which   *)
(* routes meet under different names, inputs under different filters, and  *)
(* every way a method can be refused occurs.                               *)
EXTENDS Generator, TLC

CONSTANTS f1, f2, In, Part, Out, Void

AllFields ==
  (In :> {[name |-> "x", type |-> Scalar, inOneOf |-> FALSE],
          [name |-> "y", type |-> Scalar, inOneOf |-> TRUE],
          [name |-> "part", type |-> Part, inOneOf |-> FALSE]})
  @@ (Part :> {[name |-> "in", type |-> In, inOneOf |-> FALSE],
               [name |-> "out", type |-> Out, inOneOf |-> TRUE],
               [name |-> "void", type |-> Void, inOneOf |-> FALSE]})
  @@ (Out :> {[name |-> "out", type |-> Out, inOneOf |-> FALSE]})
  @@ (Void :> {})

Snake == [p \in ParamNames |-> IF p = "a.b" THEN "a_b" ELSE p]
Bindings == {In} \X {"x", "y", "a.b"}

Rooted(ts) == [rooted |-> TRUE, tokens |-> ts]
Thing == Rooted(<<EmptyToken, Static("v1")>>)
ThingOf(p) == Rooted(<<Static("v1"), Param(p)>>)
ThingsOf(p, q) == Rooted(<<Static("v1"), Param(p), Param(q)>>)
Rpc(verb, route) ==
  [operations |-> 1, verb |-> verb, route |-> route, query |-> <<>>, valid |-> TRUE,
   input |-> In, output |-> Out]

Good == {Rpc("GET", ThingOf("x")), Rpc("GET", ThingOf("a.b")), Rpc("PUT", ThingOf("y")),
         Rpc("PATCH", ThingOf("x")),
         Rpc("PUT", ThingsOf("x", "a.b")), Rpc("GET", ThingsOf("y", "x")),
         [Rpc("GET", Thing) EXCEPT !.query = <<"x", "y">>],
         [Rpc("POST", Thing) EXCEPT !.output = Void],
         [Rpc("GET", Thing) EXCEPT !.operations = 0]}
Refused == {[Rpc("GET", Thing) EXCEPT !.operations = 2],
            [Rpc("GET", Thing) EXCEPT !.route.rooted = FALSE],
            [Rpc("GET", Thing) EXCEPT !.verb = "OTHER"],
            [Rpc("GET", Thing) EXCEPT !.valid = FALSE],
            [Rpc("GET", Thing) EXCEPT !.query = <<"a.b">>],
            Rpc("GET", ThingOf("part"))}

OneService(ms) == <<[methods |-> ms, valid |-> TRUE]>>
SmallPrograms ==
  {(f1 :> [services |-> OneService(<<a, b>>), forced |-> {}])
   @@ (f2 :> [services |-> s, forced |-> {Part}]) :
     a \in Good, b \in Good \cup Refused,
     s \in {OneService(<<c>>) : c \in Good} \cup {<<>>}
             \cup {<<[methods |-> <<>>, valid |-> FALSE]>>}}
=============================================================================
