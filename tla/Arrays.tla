--------------------------------- MODULE Arrays ---------------------------------
(***************************************************************************)
(* What the code does to arrays with filter and sort.  SelectSeq and       *)
(* SortSeq are defined recursively, which is beyond what can be proved     *)
(* here; these are defined by the positions of what is kept.               *)
(***************************************************************************)
EXTENDS Naturals, Sequences, FiniteSets

\* The numbers of a finite set, in increasing order.
Ascending(S) ==
    [k \in 1..Cardinality(S) |-> CHOOSE n \in S : Cardinality({m \in S : m < n}) = k - 1]

\* The entries of s at the positions in K.
Entries(s, K) == [k \in 1..Cardinality(K) |-> s[Ascending(K)[k]]]

\* s.filter(...)
Filter(s, Test(_)) == Entries(s, {i \in DOMAIN s : Test(s[i])})
=============================================================================
