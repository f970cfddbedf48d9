---------------------------- MODULE Subsequence ----------------------------
(***************************************************************************)
(* What VecDeque::retain leaves of a queue, by the positions it keeps.     *)
(* SelectSeq describes the same by a test on the elements; the positions   *)
(* are what the proofs about the order of a queue speak of.                *)
(***************************************************************************)
EXTENDS Integers, Sequences, FiniteSets

(* How many members of I come no later than i.                             *)
Rank(I, i) == Cardinality({k \in I : k <= i})

(* The j-th smallest member of I.                                          *)
Nth(I, j) == CHOOSE i \in I : Rank(I, i) = j

(* The elements of s at the positions in I, in the order they have in s.   *)
Pick(s, I) == [j \in 1..Cardinality(I) |-> s[Nth(I, j)]]

============================================================================
