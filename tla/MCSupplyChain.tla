---------------------------- MODULE MCSupplyChain ----------------------------
(* The capacities of the instances are small enough for a store, the       *)
(* owner's hands and the harvester to be full.                             *)
EXTENDS SupplyChain
=============================================================================
