----------------------------- MODULE Selections -----------------------------
(***************************************************************************)
(* The loops that copy some of the elements of a slice, in their order, as *)
(* ParseRoute does with the tokens that are not empty.  SequencesExt and   *)
(* Sequences say it with an operator for the test, or by recursion, which  *)
(* no prover can reason about; here the selection is a set of positions.   *)
(***************************************************************************)
EXTENDS Naturals, Sequences, FiniteSets

(* The n-th of the positions I: n - 1 of them are before it.  NthOf is a   *)
(* function so that TLC evaluates I once.                                  *)
Nth(I, n) ==
  LET NthOf[J \in SUBSET Nat] == CHOOSE i \in J : Cardinality({j \in J : j < i}) = n - 1
  IN NthOf[I]

(* The elements of s at the positions I.                                   *)
Selected(s, I) == [n \in 1..Cardinality(I) |-> s[Nth(I, n)]]
=============================================================================
