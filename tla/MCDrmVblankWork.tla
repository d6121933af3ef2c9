-------------------------- MODULE MCDrmVblankWork --------------------------
(* A small instance of DrmVblankWork. *)
EXTENDS DrmVblankWork, TLC

(* Threads are interchangeable. *)
Symm == Permutations(Threads)
=============================================================================
