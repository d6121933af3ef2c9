---------------------------- MODULE MCMa35UsbPhy ----------------------------
(* Ma35UsbPhy with the two host controllers of the OTG port. *)
EXTENDS Ma35UsbPhy, TLC

Symmetry == Permutations(Hosts)
=============================================================================
