---------------------------- MODULE MCGinHandler ----------------------------
(* GinHandler with the symmetry of its contexts: they are interchangeable, *)
(* requests are not (Intercepted, Detached).                               *)
EXTENDS GinHandler, TLC

ContextSymmetry == Permutations(Contexts)
=============================================================================
