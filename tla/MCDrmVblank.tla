---------------------------- MODULE MCDrmVblank ----------------------------
(* DrmVblank on a small instance: two user tasks. *)
EXTENDS DrmVblank
=============================================================================
