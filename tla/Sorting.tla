------------------------------ MODULE Sorting ------------------------------
(***************************************************************************)
(* Sorting integers by a library (sort.Slice, sorted), of which only the   *)
(* result is used: what stands where, and not how it got there.            *)
(***************************************************************************)
EXTENDS Integers, Sequences, FiniteSets, Functions

\* At position p is the value that fewer than p of the values are below, and at least
\* p are not above: the values in ascending order, each as often as it occurs.
SortInts(values) ==
    [p \in DOMAIN values |->
        CHOOSE v \in Range(values) :
            /\ Cardinality({i \in DOMAIN values : values[i] < v}) < p
            /\ Cardinality({i \in DOMAIN values : values[i] <= v}) >= p]
=============================================================================
