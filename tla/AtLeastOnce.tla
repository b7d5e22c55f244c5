---------------------------- MODULE AtLeastOnce ----------------------------
(***************************************************************************)
(* What the durable Telegram outbox promises its producers, without rows,  *)
(* leases, owner tokens or workers: a submitted message is attempted a     *)
(* bounded number of times, one attempt puts at most one copy of it in the *)
(* chat, a copy may still land late (after a newer attempt was opened, or  *)
(* after the message was settled), a message is reported "sent" only when  *)
(* its newest attempt really reached the chat, and a settled message opens *)
(* no further attempt.  Outbound.tla is shown to implement this module.    *)
(***************************************************************************)
EXTENDS Naturals

CONSTANTS Messages,     \* the sources messages are enqueued for
          MaxAttempts   \* OUTBOUND_MAX_ATTEMPTS

VARIABLES fate,         \* fate[m]: unsubmitted, open, sent or failed
          issued,       \* issued[m]: how many attempts have been opened
          copies        \* copies[m][a]: copies attempt a put in the chat

vars == <<fate, issued, copies>>

Attempts == 1..MaxAttempts

Init ==
    /\ fate = [m \in Messages |-> "unsubmitted"]
    /\ issued = [m \in Messages |-> 0]
    /\ copies = [m \in Messages |-> [a \in Attempts |-> 0]]

Submit(m) ==
    /\ fate[m] = "unsubmitted"
    /\ fate' = [fate EXCEPT ![m] = "open"]
    /\ UNCHANGED <<issued, copies>>

\* Attempts are opened one at a time for a message, for several at once, and
\* in the same step messages whose attempts are used up may be given up.
OpenAttempts(ms, lost) ==
    /\ ms \cap lost = {}
    /\ \A m \in ms : fate[m] = "open" /\ issued[m] < MaxAttempts
    /\ \A m \in lost : fate[m] = "open" /\ issued[m] = MaxAttempts
    /\ issued' = [m \in Messages |-> IF m \in ms THEN issued[m] + 1 ELSE issued[m]]
    /\ fate' = [m \in Messages |-> IF m \in lost THEN "failed" ELSE fate[m]]
    /\ UNCHANGED copies

\* A copy lands: any opened attempt that has put none in the chat so far.
Land(m, a) ==
    /\ a <= issued[m]
    /\ copies[m][a] = 0
    /\ copies' = [copies EXCEPT ![m][a] = 1]
    /\ UNCHANGED <<fate, issued>>

Confirm(m) ==
    /\ fate[m] = "open"
    /\ issued[m] \in Attempts
    /\ copies[m][issued[m]] = 1
    /\ fate' = [fate EXCEPT ![m] = "sent"]
    /\ UNCHANGED <<issued, copies>>

GiveUp(m) ==
    /\ fate[m] = "open"
    /\ issued[m] \in Attempts
    /\ fate' = [fate EXCEPT ![m] = "failed"]
    /\ UNCHANGED <<issued, copies>>

Next ==
    \/ \E m \in Messages : Submit(m) \/ Confirm(m) \/ GiveUp(m)
    \/ \E m \in Messages, a \in Attempts : Land(m, a)
    \/ \E ms, lost \in SUBSET Messages : OpenAttempts(ms, lost)

Spec == Init /\ [][Next]_vars
=============================================================================
