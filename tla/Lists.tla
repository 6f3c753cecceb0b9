------------------------------- MODULE Lists -------------------------------
(***************************************************************************)
(* The loops that copy what they keep of a list, in its order: what         *)
(* SelectSeq computes by recursion, said by the places that are kept, so    *)
(* that theorems about its users can be proved.                             *)
(***************************************************************************)
EXTENDS Integers, SequencesExt

(* The members of a finite set of numbers, in increasing order. *)
Ascending(K) ==
  CHOOSE p \in [1..Cardinality(K) -> K] :
    \A i, j \in 1..Cardinality(K) : i < j => p[i] < p[j]

(* What s has at the places K. *)
Kept(s, K) == [i \in 1..Cardinality(K) |-> s[Ascending(K)[i]]]
=============================================================================
