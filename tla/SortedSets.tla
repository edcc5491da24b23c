----------------------------- MODULE SortedSets -----------------------------
(***************************************************************************)
(* The numbers of a set in ascending order.  The code filters ranges and   *)
(* vectors front to back; here what passes a filter is a set of places,    *)
(* and this is the vector it is collected into.  The definition counts, so *)
(* that it can be reasoned about: the k-th number is the one with k - 1    *)
(* numbers below it.                                                       *)
(***************************************************************************)
EXTENDS Integers, FiniteSets

\* How many numbers of S are below n.
Rank(S, n) == Cardinality({m \in S : m < n})

Ascending(S) == [k \in 1 .. Cardinality(S) |-> CHOOSE n \in S : Rank(S, n) = k - 1]

=============================================================================
