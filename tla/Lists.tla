------------------------------- MODULE Lists -------------------------------
(***************************************************************************)
(* What Vec::retain and a filter that is collected do to a list.  The      *)
(* entries that stay are given by their positions, so that what the result *)
(* holds follows from counting positions and needs no recursion.           *)
(***************************************************************************)
EXTENDS Naturals, Sequences, FiniteSets

\* The place of position k among the positions in T.
Rank(T, k) == Cardinality({j \in T : j <= k})

\* The entries of s at the positions in T, in their order.
Keep(s, T) ==
    [n \in 1..Cardinality(T) |-> s[CHOOSE k \in T : Rank(T, k) = n]]
=============================================================================
