------------------------------ MODULE Ordering ------------------------------
(***************************************************************************)
(* Sequences by position, for modules that are proved about: an element of *)
(* an ordered set comes at the place its predecessors leave it.  SortSeq   *)
(* and SelectSeq have no definition the proof system can expand.           *)
(***************************************************************************)
EXTENDS Naturals, FiniteSets, Sequences

(* The elements of S in the strict total order that is the relation R.     *)
Listed(S, R) ==
  [i \in 1..Cardinality(S) |->
     CHOOSE x \in S : Cardinality({y \in S : <<y, x>> \in R}) = i - 1]
(* The same for an operator: Python's sorted.                              *)
InOrder(S, Before(_, _)) == Listed(S, {p \in S \X S : Before(p[1], p[2])})

(* The elements of s at the places I, and those that pass the test, in the *)
(* order they have in s.                                                   *)
AtPlaces(s, I) ==
  LET places == InOrder(I, <) IN [k \in DOMAIN places |-> s[places[k]]]
Keep(s, Test(_)) == AtPlaces(s, {i \in DOMAIN s : Test(s[i])})
CountWhere(s, Test(_)) == Cardinality({i \in DOMAIN s : Test(s[i])})
=============================================================================
