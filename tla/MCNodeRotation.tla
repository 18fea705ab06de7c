--------------------------- MODULE MCNodeRotation ---------------------------
(* NodeRotation on small instances.  The ids and the generations are chosen *)
(* from with CHOOSE, so no symmetry is declared.                            *)
EXTENDS NodeRotation, TLC

(* The smallest set of ids that CreateRequest never runs out of: the        *)
(* members of a set at its largest and one request a plan refers to.        *)
Ids == 1 .. MaxCount + 3
=============================================================================
