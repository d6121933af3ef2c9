---------------------------- MODULE MCDrmSched ----------------------------
(* A small instance of DrmSched. *)
EXTENDS DrmSched, TLC

MCCredits == [n \in 1..MaxJobs |-> IF n = 2 THEN CreditLimit + 1 ELSE 1]

(* Entities are alike. *)
Symm == Permutations(Entities)
=============================================================================
