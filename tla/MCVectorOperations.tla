------------------------- MODULE MCVectorOperations -------------------------
(* Instances of VectorOperations for TLC: a player with two origin buildings
   (one of them neutral) and one carrier, and an NPC base. *)
EXTENDS VectorOperations, TLC

CONSTANTS o1, o2, p1, n1, b1, b2, nb, a1, na

MCOwner == [x \in Buildings \cup Agents |-> IF x \in {nb, na} THEN n1 ELSE p1]

MCEndless == {Unset}

OpSymmetry == Permutations(Ops)
=============================================================================
