----------------------------- MODULE MCPrequal -----------------------------
(* Prequal on a small instance: a pool of two and two servers.             *)
EXTENDS Prequal, TLC

Symmetry == Permutations(Entry) \cup Permutations(Probe) \cup Permutations(Client)
               \cup Permutations(Server)
=============================================================================
