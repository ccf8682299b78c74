-------------------------------- MODULE MCBombs --------------------------------
(* Three spots: two neighbours, and one on another planet that has the     *)
(* coordinates of the first.                                               *)
EXTENDS Bombs, TLC

CONSTANTS here, near, far, p1, turret

MCTile == (here :> 0) @@ (near :> 1) @@ (far :> 0)
MCPlanet == (here :> 0) @@ (near :> 0) @@ (far :> 1)
MCStart == (p1 :> here) @@ (turret :> near)
MCReach == (here :> {here, near}) @@ (near :> {here, near}) @@ (far :> {far})
=============================================================================
