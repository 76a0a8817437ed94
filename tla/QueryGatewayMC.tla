---------------------------- MODULE QueryGatewayMC ----------------------------
(* A small instance of QueryGateway for TLC: clients share nothing, so one *)
(* with several executions shows what there is to see.                     *)
EXTENDS QueryGateway

CONSTANT c1

OneClient == {c1}
=============================================================================
