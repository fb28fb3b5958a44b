----------------------------- MODULE MCRegistry -----------------------------
(* Two services, of two methods and of one, over every route of at most   *)
(* two tokens, empty ones among them, and one that is not rooted.          *)
EXTENDS Registry, TLC

CONSTANTS s1, s2

Split == Tokens \cup {EmptyToken}
TokenLists == {<<>>} \cup {<<t>> : t \in Split} \cup {<<t, u>> : t, u \in Split}
SmallRoutes == [rooted : {TRUE}, tokens : TokenLists]
                 \cup {[rooted |-> FALSE, tokens |-> <<Static("a")>>]}
Method(v, r) == [verb |-> v, route |-> r]

SmallDescriptors ==
  {(s1 :> <<Method("GET", a), Method("GET", b)>>) @@ (s2 :> <<Method(v, c)>>) :
     a \in SmallRoutes, b \in SmallRoutes, c \in SmallRoutes, v \in Verbs}
=============================================================================
