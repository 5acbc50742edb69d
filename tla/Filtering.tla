----------------------------- MODULE Filtering ------------------------------
(***************************************************************************)
(* Lists with entries left out, the rest in their old order: Vec::retain   *)
(* in the pallet, Array.filter in the UI, str.replace in the proxy.  The   *)
(* entries are given by their positions, so that what a filter returns can *)
(* be reasoned about without its loop.                                     *)
(***************************************************************************)
EXTENDS Integers, Sequences, FiniteSets

\* How many positions of S there are up to i.
RankIn(S, i) == Cardinality({j \in S : j <= i})

\* The entries at the positions in S: the k-th is the one at the position
\* with k positions of S up to it.
EntriesAt(list, S) ==
    [k \in 1..Cardinality(S) |-> list[CHOOSE i \in S : RankIn(S, i) = k]]

=============================================================================
