------------------------- MODULE MCAssignmentOverlap -------------------------
(* Instances of AssignmentOverlap for TLC. *)
EXTENDS AssignmentOverlap, TLC
=============================================================================
