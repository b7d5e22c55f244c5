---------------------------- MODULE MCAssignment ----------------------------
(* Instances of Assignment for TLC. *)
EXTENDS Assignment, TLC

Interchangeable == Permutations(Sessions)
=============================================================================
