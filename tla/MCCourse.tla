------------------------------ MODULE MCCourse ------------------------------
(* Instances of Course for TLC. *)
EXTENDS Course, TLC

Symmetry == Permutations(Sessions) \cup Permutations(Steps)
                \cup Permutations(Rows) \cup Permutations(Runs)
=============================================================================
