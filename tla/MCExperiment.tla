---------------------------- MODULE MCExperiment ----------------------------
(* Experiment on a small instance.                                         *)
EXTENDS Experiment

CONSTANTS b1, b2

MCBackends == <<b1, b2>>
MCProbeRates == <<4, 1>>
=============================================================================
