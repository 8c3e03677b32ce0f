-------------------------------- MODULE Lists --------------------------------
(* Lists of the code and what it does with them, in a form that the provers   *)
(* can reason about: by counting places, without recursion.                   *)
EXTENDS Naturals, Sequences, FiniteSets

(* The place of index i among the indices I, from 1. *)
Place(I, i) == Cardinality({j \in I : j <= i})

(* [x for x in s if ...]: what list s has at the indices I, in the same order. *)
Keep(s, I) == [k \in 1..Cardinality(I) |-> s[CHOOSE i \in I : Place(I, i) = k]]
=============================================================================
