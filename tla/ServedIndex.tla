---------------------------- MODULE ServedIndex ----------------------------
(***************************************************************************)
(* What indexing promises to retrieval, without claims, leases or runs:    *)
(* each version of an article has no index, or one complete index built by *)
(* one embedding model.  An index is only ever replaced, in one step, by   *)
(* another complete one, and only versions that were published get one.    *)
(* KnowledgeIndex.tla is shown to implement this module.                   *)
(***************************************************************************)
CONSTANTS Versions,  \* version numbers of the article
          Models,    \* embedding models the deployment has used
          NoModel    \* no index

VARIABLES published, \* versions that have been the published text
          index      \* index[v]: the model of the index served for v

vars == <<published, index>>

Init ==
    /\ published = {}
    /\ index = [v \in Versions |-> NoModel]

Publish(v) ==
    /\ published' = published \cup {v}
    /\ UNCHANGED index

Rebuild(v, m) ==
    /\ v \in published
    /\ index' = [index EXCEPT ![v] = m]
    /\ UNCHANGED published

Next == \E v \in Versions : Publish(v) \/ \E m \in Models : Rebuild(v, m)

Spec == Init /\ [][Next]_vars
=============================================================================
