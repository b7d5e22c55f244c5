--------------------------- MODULE Acknowledgement ---------------------------
(***************************************************************************)
(* One acknowledgement assignment: documents an employee has to open and   *)
(* confirm (app/services/assignment.py: list_acknowledgement_items,        *)
(* get_acknowledgement_document, acknowledge_item, cancel_assignment).     *)
(*                                                                         *)
(* A request is one READ COMMITTED transaction.  It remembers the          *)
(* assignment as it first read it, decides from that, and locks the rows   *)
(* it writes until it ends.  A session is one database connection.         *)
(***************************************************************************)
EXTENDS Naturals, FiniteSets

CONSTANTS Items,      \* the documents of the assignment
          Required,   \* items with is_required
          Sessions,   \* connections serving requests
          Free        \* nothing: the row is not written, no item

Open == {"pending", "in_progress"}
Closed == {"completed", "cancelled"}

ASSUME AcknowledgementAssumption ==
    /\ Required \subseteq Items
    /\ Free \notin Items \cup Open \cup Closed

VARIABLES
    status,     \* assignments.status, committed
    acked,      \* items with acknowledged_at, committed
    pc, kind, item,     \* the request of each session and where it is
    seen,       \* the assignment status in its memory
    seenItem,   \* item.acknowledged_at is set in its memory
    wrote,      \* the status it wrote and has not committed
    wroteItem,  \* the item it wrote and has not committed
    alone       \* history: no other request committed since it began

rowVars == <<status, acked>>
memoryVars == <<kind, item, seen, seenItem>>
lockVars == <<wrote, wroteItem>>
ackVars == <<rowVars, pc, memoryVars, lockVars, alone>>

Points == {"idle", "readItem", "mark", "ackItem", "tally", "close",
           "cancel", "commit"}

AckTypeOK ==
    /\ status \in Open \cup Closed
    /\ acked \subseteq Items
    /\ pc \in [Sessions -> Points]
    /\ kind \in [Sessions -> {"none", "open", "acknowledge", "cancel"}]
    /\ item \in [Sessions -> Items \cup {Free}]
    /\ seen \in [Sessions -> Open \cup Closed \cup {Free}]
    /\ seenItem \in [Sessions -> BOOLEAN]
    /\ wrote \in [Sessions -> Open \cup Closed \cup {Free}]
    /\ wroteItem \in [Sessions -> Items \cup {Free}]
    /\ alone \in [Sessions -> BOOLEAN]

AckInit ==
    /\ status = "pending"
    /\ acked = {}
    /\ pc = [x \in Sessions |-> "idle"]
    /\ kind = [x \in Sessions |-> "none"]
    /\ item = [x \in Sessions |-> Free]
    /\ seen = [x \in Sessions |-> Free]
    /\ seenItem = [x \in Sessions |-> FALSE]
    /\ wrote = [x \in Sessions |-> Free]
    /\ wroteItem = [x \in Sessions |-> Free]
    /\ alone = [x \in Sessions |-> FALSE]

Goto(x, point) == pc' = [pc EXCEPT ![x] = point]

StatusFree(x) == \A y \in Sessions \ {x} : wrote[y] = Free
ItemFree(x, i) == \A y \in Sessions \ {x} : wroteItem[y] # i

\* The session forgets what it read and releases its locks.
End(x) ==
    /\ Goto(x, "idle")
    /\ kind' = [kind EXCEPT ![x] = "none"]
    /\ item' = [item EXCEPT ![x] = Free]
    /\ seen' = [seen EXCEPT ![x] = Free]
    /\ seenItem' = [seenItem EXCEPT ![x] = FALSE]
    /\ wrote' = [wrote EXCEPT ![x] = Free]
    /\ wroteItem' = [wroteItem EXCEPT ![x] = Free]

Commit(x) ==
    /\ pc[x] = "commit"
    /\ status' = IF wrote[x] = Free THEN status ELSE wrote[x]
    /\ acked' = acked \cup ({wroteItem[x]} \ {Free})
    /\ End(x)
    /\ alone' = [y \in Sessions |-> alone[y] /\ y # x /\ wrote[x] = Free /\ wroteItem[x] = Free]

\* A failed statement, a refused request, a deadlock that PostgreSQL breaks, a
\* lost client: whatever was written is gone.
RollBack(x) ==
    /\ pc[x] # "idle"
    /\ End(x)
    /\ alone' = [alone EXCEPT ![x] = FALSE]
    /\ UNCHANGED rowVars

-----------------------------------------------------------------------------
(* Requests.                                                               *)

\* The assignment is read, once; a refused request ends here.
Begin(x, what, i, point) ==
    /\ pc[x] = "idle"
    /\ seen' = [seen EXCEPT ![x] = status]
    /\ kind' = [kind EXCEPT ![x] = what]
    /\ item' = [item EXCEPT ![x] = i]
    /\ alone' = [alone EXCEPT ![x] = TRUE]
    /\ Goto(x, point)
    /\ UNCHANGED <<rowVars, lockVars, seenItem>>

\* The recipient opens the list or a document; nothing to write unless pending.
OpenDocument(x) == status = "pending" /\ Begin(x, "open", Free, "mark")

Acknowledge(x, i) == status \in Open /\ Begin(x, "acknowledge", i, "readItem")

MutantCancel(x) == status # "cancelled" /\ Begin(x, "cancel", Free, "cancel")
Cancel(x) == status \in Open /\ Begin(x, "cancel", Free, "cancel")

\* What a request read is forgotten at its last use.
ReadItem(x) ==
    /\ pc[x] = "readItem"
    /\ seenItem' = [seenItem EXCEPT ![x] = item[x] \in acked]
    /\ Goto(x, "mark")
    /\ UNCHANGED <<rowVars, lockVars, kind, item, seen, alone>>

Write(x, new) ==
    /\ StatusFree(x)
    /\ wrote' = [wrote EXCEPT ![x] = new]
    /\ seen' = [seen EXCEPT ![x] = Free]
    /\ UNCHANGED <<rowVars, wroteItem, item, seenItem, alone>>

\* _mark_in_progress
MarkInProgress(x) ==
    /\ pc[x] = "mark"
    /\ Goto(x, IF kind[x] = "open" THEN "commit" ELSE "ackItem")
    /\ kind' = [kind EXCEPT ![x] = "none"]
    /\ \/ seen[x] = "pending" /\ Write(x, "in_progress")
       \/ /\ seen[x] # "pending"
          /\ seen' = [seen EXCEPT ![x] = Free]
          /\ UNCHANGED <<rowVars, lockVars, item, seenItem, alone>>

AckItem(x) ==
    /\ pc[x] = "ackItem"
    /\ Goto(x, "tally")
    /\ \/ /\ ~seenItem[x]
          /\ ItemFree(x, item[x])
          /\ wroteItem' = [wroteItem EXCEPT ![x] = item[x]]
       \/ seenItem[x] /\ UNCHANGED wroteItem
    /\ item' = [item EXCEPT ![x] = Free]
    /\ seenItem' = [seenItem EXCEPT ![x] = FALSE]
    /\ UNCHANGED <<rowVars, wrote, kind, seen, alone>>

MutantTallied(x) == acked
\* The items as the transaction lists them: committed, or its own.
Tallied(x) == acked \cup {wroteItem[x]}

MutantTally(x) ==
    /\ pc[x] = "tally"
    /\ Goto(x, IF Required \cap Tallied(x) # {} THEN "close" ELSE "commit")
    /\ UNCHANGED <<rowVars, lockVars, memoryVars, alone>>
Tally(x) ==
    /\ pc[x] = "tally"
    /\ Goto(x, IF Required \subseteq Tallied(x) THEN "close" ELSE "commit")
    /\ UNCHANGED <<rowVars, lockVars, memoryVars, alone>>

Close(x) ==
    /\ pc[x] = "close"
    /\ Write(x, "completed")
    /\ Goto(x, "commit")
    /\ UNCHANGED kind

MarkCancelled(x) ==
    /\ pc[x] = "cancel"
    /\ Write(x, "cancelled")
    /\ Goto(x, "commit")
    /\ kind' = [kind EXCEPT ![x] = "none"]

AckStep(x) ==
    \/ OpenDocument(x)
    \/ \E i \in Items : Acknowledge(x, i)
    \/ Cancel(x)
    \/ ReadItem(x)
    \/ MarkInProgress(x)
    \/ AckItem(x)
    \/ Tally(x)
    \/ Close(x)
    \/ MarkCancelled(x)
    \/ Commit(x)
    \/ RollBack(x)

AckNext == \E x \in Sessions : AckStep(x)

AckSpec == AckInit /\ [][AckNext]_ackVars

-----------------------------------------------------------------------------
(* Properties.                                                             *)

\* x is about to write a row that y has written and not committed.
WaitsForRow(x, y) ==
    /\ x # y
    /\ \/ /\ pc[x] \in {"close", "cancel"} \/ (pc[x] = "mark" /\ seen[x] = "pending")
          /\ wrote[y] # Free
       \/ /\ pc[x] = "ackItem" /\ ~seenItem[x]
          /\ wroteItem[y] = item[x]

\* Although every request decides from what it read first, an assignment is
\* completed only when each required document was acknowledged, and its
\* acknowledgement is stored.
CompletedMeansAcknowledged == status = "completed" => Required \subseteq acked

\* The request that ends in this step had company: another one committed
\* between its first read and its end.
Overlapped == \E x \in Sessions : pc[x] # "idle" /\ pc'[x] = "idle" /\ ~alone[x]

\* A completed or cancelled assignment can be reopened, completed or cancelled
\* once more, but only by a request that was already running when some other
\* one committed; to every request that comes later, closed is final.
LateChangeOverlapped ==
    [][(status \in Closed /\ status' # status) => Overlapped]_ackVars

\* The assignment is completed with the last required acknowledgement, unless
\* its request overlapped another: then it may have counted too few.
LastAcknowledgementCloses ==
    [][(acked' # acked /\ Required \subseteq acked')
           => (status' = "completed" \/ Overlapped)]_ackVars
=============================================================================
