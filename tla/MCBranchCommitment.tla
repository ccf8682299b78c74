------------------------- MODULE MCBranchCommitment -------------------------
(* Two Branches; one has a technology, which its building needs.  Two sites *)
(* and an agent on one planet, a site on another.                          *)
EXTENDS BranchCommitment, TLC

CONSTANTS s1, s2, s3, earth, mars, bio, cyber, medic, taps

MCPlanetOf == (s1 :> earth) @@ (s2 :> earth) @@ (s3 :> mars)
MCTreeOf == taps :> cyber
MCStation == medic :> earth
MCUnlock == (bio :> None) @@ (cyber :> taps)
=============================================================================
