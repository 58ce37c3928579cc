---------------------------- MODULE MCPolicies ----------------------------
(* The other policies on a small instance.                                 *)
EXTENDS Policies, TLC

Symmetry == Permutations(Client)
=============================================================================
