---------------------------- MODULE Collections ----------------------------
(***************************************************************************)
(* Operators on sequences, sets and functions which the models share. They *)
(* take values, not operators, so that the proofs can reason about them.   *)
(***************************************************************************)
EXTENDS Integers, FiniteSets, FiniteSetsExt

\* The elements of s at the indices of S, in their order.
Picked(s, S) ==
    [n \in 1 .. Cardinality(S) |-> s[CHOOSE i \in S : Cardinality({j \in S : j <= i}) = n]]

\* The numbers of S in ascending order.
Ascending(S) == Picked([i \in S |-> i], S)

\* The sum of f over S.
SumOver(f, S) == MapThenSumSet(LAMBDA x : f[x], S)
=============================================================================
