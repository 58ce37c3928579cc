--------------------------- MODULE MCHealthCheck ---------------------------
(* Health probing of two servers with up to two probes in flight.          *)
EXTENDS HealthCheck
=============================================================================
