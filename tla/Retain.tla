------------------------------- MODULE Retain -------------------------------
(***************************************************************************)
(* What is left of a deque when entries are taken from its middle, as      *)
(* VecDeque's remove and retain do: the others, in their order.  Stated by *)
(* counting, so that it can be proved about.                               *)
(***************************************************************************)
EXTENDS Naturals, Sequences, FiniteSets

(* How many members of S there are up to n, and the i-th member of S. *)
Rank(S, n) == Cardinality({m \in S : m <= n})
Nth(S, i)  == CHOOSE n \in S : Rank(S, n) = i

(* The entries of s outside D. *)
Kept(s, D) ==
  [i \in 1..Cardinality(DOMAIN s \ D) |-> s[Nth(DOMAIN s \ D, i)]]
=============================================================================
