------------------------------ MODULE MCAlliances ------------------------------
(***************************************************************************)
(* Instance of Alliances for TLC: the players are alike.                   *)
(***************************************************************************)
EXTENDS Alliances, TLC

PlayerSymmetry == Permutations(Players)
=============================================================================
