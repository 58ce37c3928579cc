---------------------------- MODULE MCPoolSlice ----------------------------
(* PoolSlice on a small instance: up to three entries, with every tie.     *)
EXTENDS PoolSlice
=============================================================================
