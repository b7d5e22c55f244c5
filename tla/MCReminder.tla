----------------------------- MODULE MCReminder -----------------------------
(* Instances of Reminder, with the assignment it is about, for TLC. *)
EXTENDS Reminder, TLC

CONSTANTS x1, x2, i1, i2

Symmetry == Permutations(Sessions) \cup Permutations(Required)
=============================================================================
