---------------------------- MODULE MCProbePool ----------------------------
(* ProbePool on a small instance: a pool of two, two concurrent callers.    *)
EXTENDS ProbePool, TLC

Symmetry == Permutations(Entry) \cup Permutations(Client)
=============================================================================
