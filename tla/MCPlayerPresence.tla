--------------------------- MODULE MCPlayerPresence ---------------------------
(* Two players on a line of three tiles: a turret at one end, a closed     *)
(* building in the middle, open ground out of the turret's reach.          *)
EXTENDS PlayerPresence

MCTiles == 0..2
MCCover == {1}
MCGuardTiles == {0}

(* A smaller board for the liveness run: in reach and under cover. *)
MCTwoTiles == 0..1
=============================================================================
