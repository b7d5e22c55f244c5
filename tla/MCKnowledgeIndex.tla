-------------------------- MODULE MCKnowledgeIndex --------------------------
(* Instances of KnowledgeIndex for TLC. *)
EXTENDS KnowledgeIndex, TLC

Symmetry == Permutations(Requests) \cup Permutations(Models)
=============================================================================
