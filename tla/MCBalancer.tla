----------------------------- MODULE MCBalancer -----------------------------
(* The balancer with two handlers, a good and a malformed server.          *)
EXTENDS Balancer, TLC

Symmetry == Permutations(Handler)
=============================================================================
