------------------------------ MODULE MCNpcBases ------------------------------
(* Two tiers of one base each; three spots on one planet.                  *)
EXTENDS NpcBases, TLC

CONSTANTS a, b, c, earth, outpost, fortress

MCSpotPlanet == [s \in {a, b, c} |-> earth]
MCSpawnCount == (outpost :> 1) @@ (fortress :> 1)

(* The places are alike. *)
MCSymmetry == Permutations({a, b, c})
=============================================================================
