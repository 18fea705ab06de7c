--------------------------- MODULE MCProvisioning ---------------------------
(* Provisioning and cleanup on small instances.                             *)
EXTENDS Provisioning, TLC

(* Requests and VM ids are interchangeable (safety runs only).              *)
Symmetry == Permutations(Request) \cup Permutations(Vm)
=============================================================================
