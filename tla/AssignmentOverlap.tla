-------------------------- MODULE AssignmentOverlap --------------------------
(***************************************************************************)
(* Assignment with a history variable that tells the requests that nothing *)
(* overtook from the others.  A unit of work is overtaken when another one *)
(* commits, between its first read and its own commit, a change of what it *)
(* decides from; READ COMMITTED does not notice, and the request goes on   *)
(* with what it read.                                                      *)
(***************************************************************************)
EXTENDS Assignment

VARIABLE fresh  \* history: what the session decides from has not changed since it read it

overlapVars == <<vars, fresh>>

\* A session that is idle, or between the two units of work of
\* complete_content_block, has read nothing yet.
Unread == {"idle", "complete"}

DoneSteps == {s \in Steps : progress[s] # Gone => progress[s].st = "completed"}

\* Every request decides from the assignment; one on a step from the row of
\* that step, and from which steps are done.
SameFor(x) ==
    /\ assignment' = assignment
    /\ req'[x].kind # "cancel" => /\ progress'[req'[x].step] = progress[req'[x].step]
                                  /\ DoneSteps' = DoneSteps

OverlapInit == Init /\ fresh = [x \in Sessions |-> TRUE]

OverlapNext ==
    /\ Next
    /\ fresh' = [x \in Sessions |-> pc'[x] \in Unread \/ (fresh[x] /\ SameFor(x))]

OverlapSpec == OverlapInit /\ [][OverlapNext]_overlapVars

FairOverlapSpec == OverlapSpec /\ Fairness

-----------------------------------------------------------------------------
(* Properties.                                                             *)

\* The same requests, served one by one.
Alone == INSTANCE OneByOne

Overtaken(x) == Commit(x) /\ ~fresh[x]

\* Only a commit of a request that another one overtook can do what the
\* request would not have done alone: reopen a completed step, move the cursor
\* of one under way back, cancel a completed assignment, leave a finished one
\* open, give two attempts one number.  No other mixture of statements, lost
\* connections and rolled back units of work can.
UndisturbedIsAtomic ==
    [][\/ \E x \in Sessions : Overtaken(x)
       \/ Alone!Next
       \/ UNCHANGED Alone!vars]_overlapVars

\* No unit of work that commits was overtaken.
NoneOvertaken == [][\A x \in Sessions : ~Overtaken(x)]_overlapVars
=============================================================================
