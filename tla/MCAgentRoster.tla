---------------------------- MODULE MCAgentRoster ----------------------------
(* Three ranks: a demotion can follow a demotion.                          *)
EXTENDS AgentRoster

MCCaps == <<1, 2, 3>>
MCTwo == <<1, 2>>
=============================================================================
