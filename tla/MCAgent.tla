------------------------------ MODULE MCAgent ------------------------------
(* Agent with two configurations and one updater.                          *)
EXTENDS Agent

CONSTANTS c1, c2, u1

TwoConfigs == {c1, c2}
OneUpdater == {u1}
=============================================================================
