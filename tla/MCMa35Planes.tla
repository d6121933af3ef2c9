---------------------------- MODULE MCMa35Planes ----------------------------
(* Ma35Planes on a screen of four cursor widths, with the cursor partly on  *)
(* it at either side, and off it.                                           *)
EXTENDS Ma35Planes, TLC

MCCoords == {-1, 7, 8}
Symmetry == Permutations(FBs)
=============================================================================
