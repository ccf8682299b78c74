-------------------------------- MODULE Tallies --------------------------------
(***************************************************************************)
(* What the numbers of a table come to.  The sum is the size of a set, one *)
(* pair for every unit of every entry, so that the theorems on finite sets *)
(* reason about it.                                                        *)
(***************************************************************************)
EXTENDS Integers, FiniteSets

Units(f, S) == UNION {{x} \X (1..f[x]) : x \in S}

Tally(f, S) == Cardinality(Units(f, S))
=============================================================================
