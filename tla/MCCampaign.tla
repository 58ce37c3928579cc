----------------------------- MODULE MCCampaign -----------------------------
(* Campaign on two hosts with three backends, one phase, and a script that *)
(* is started twice.                                                       *)
EXTENDS Campaign

MCHosts == <<1, 2>>
MCPlans == {<<1, 2>>, <<2>>}
=============================================================================
