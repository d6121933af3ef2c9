---------------------------- MODULE MCVsDisplay ----------------------------
(* VsDisplay on a small instance; framebuffers are interchangeable. *)
EXTENDS VsDisplay

Symmetry == Permutations(FBs)
=============================================================================
