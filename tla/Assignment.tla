----------------------------- MODULE Assignment -----------------------------
(***************************************************************************)
(* One program assignment and its progress rows, worked on by concurrent   *)
(* API requests: complete a step (app/services/progress.py), start a step, *)
(* advance or read its content blocks (app/services/learning_progress.py), *)
(* cancel the assignment (app/services/assignment.py).                     *)
(*                                                                         *)
(* Every request is one UnitOfWork: a READ COMMITTED transaction that      *)
(* reads, decides in memory from what it read, writes, and commits or      *)
(* rolls back.  A row that was read is not locked and is not read again; a *)
(* row that was written stays locked until the transaction ends.  A        *)
(* session here is one database connection, which serves one request at a  *)
(* time and any number of them one after the other.                        *)
(***************************************************************************)
EXTENDS Naturals, FiniteSets

CONSTANTS NumSteps,     \* steps 1..NumSteps of the program, in scan order
          Required,     \* steps with is_required
          Quizzes,      \* structured quizzes; the others have content blocks
          Blocks,       \* content_block_count of a content step
          MaxTries,     \* bound: quiz submissions considered
          Sessions,     \* connections serving requests
          Kinds,        \* the requests considered
          Clients,      \* who posts completions
          Free,         \* the session has not written the row
          Gone          \* the progress row is deleted

Steps == 1..NumSteps

AssignmentStatus == {"pending", "in_progress", "completed", "cancelled"}
ProgressStatus == {"not_started", "in_progress", "completed"}
AllKinds == {"complete", "start", "advance", "read", "cancel"}
Scores == {"fail", "pass"}

\* A completion comes from the bot (X-Telegram-Delivery), from the web client,
\* or from a client of the API that sends no payload.
AllClients == {"telegram", "web", "bare"}

\* A progress row: status, payload.block_index, payload.attempt_count and the
\* verdict of the last attempt.  Nothing in the program writes "skipped".
Row == [st : ProgressStatus, at : Nat, tries : Nat, last : Scores \cup {"none"}]

Request == [kind : AllKinds, step : Steps, at : Nat, score : Scores, via : AllClients]

ASSUME AssignmentAssumption ==
    /\ NumSteps \in Nat \ {0}
    /\ Required \subseteq Steps
    /\ Quizzes \subseteq Steps
    /\ Blocks \in Nat \ {0}
    /\ MaxTries \in Nat
    /\ Kinds \subseteq AllKinds
    /\ Clients \subseteq AllClients
    /\ Free \notin AssignmentStatus \cup Row \cup Request \cup {Gone}
    /\ Gone \notin Row

VARIABLES
    assignment, \* assignments.status, committed
    progress,   \* progress rows, committed
    outbound,   \* outbound[s][n]: the quiz_result message of attempt n
    pc,         \* where each session's request is
    req,        \* the request it serves
    seenA,      \* the assignment status in its memory
    seenP,      \* the progress row in its memory
    heldA,      \* the assignment status it wrote and has not committed
    heldP,      \* the progress rows it wrote and has not committed
    earned      \* history: steps that were completed at some commit

dbVars == <<assignment, progress, outbound, earned>>
sessionVars == <<pc, req, seenA, seenP, heldA, heldP>>
vars == <<dbVars, sessionVars>>

Points == {"idle", "readAssignment", "readProgress", "complete", "writeProgress",
           "openAssignment", "openStarted", "tally", "closeAssignment", "startStep", "rollback",
           "advance", "discard", "markCancelled", "commit"}

TypeOK ==
    /\ assignment \in AssignmentStatus
    /\ progress \in [Steps -> Row \cup {Gone}]
    /\ outbound \in [Steps -> [1..MaxTries -> Scores \cup {"none"}]]
    /\ pc \in [Sessions -> Points]
    /\ req \in [Sessions -> Request \cup {Free}]
    /\ seenA \in [Sessions -> AssignmentStatus \cup {Free}]
    /\ seenP \in [Sessions -> Row \cup {Free}]
    /\ heldA \in [Sessions -> AssignmentStatus \cup {Free}]
    /\ heldP \in [Sessions -> [Steps -> Row \cup {Gone, Free}]]
    /\ earned \subseteq Steps

\* create_many: an open assignment with one not_started row per step.
Init ==
    /\ assignment = "pending"
    /\ progress = [s \in Steps |->
           [st |-> "not_started", at |-> 0, tries |-> 0, last |-> "none"]]
    /\ outbound = [s \in Steps |-> [n \in 1..MaxTries |-> "none"]]
    /\ pc = [x \in Sessions |-> "idle"]
    /\ req = [x \in Sessions |-> Free]
    /\ seenA = [x \in Sessions |-> Free]
    /\ seenP = [x \in Sessions |-> Free]
    /\ heldA = [x \in Sessions |-> Free]
    /\ heldP = [x \in Sessions |-> [s \in Steps |-> Free]]
    /\ earned = {}

-----------------------------------------------------------------------------
(* The end of a unit of work, and row locks.                               *)

MutantEndKeepsLocks(x) ==
    /\ pc' = [pc EXCEPT ![x] = "idle"]
    /\ req' = [req EXCEPT ![x] = Free]
    /\ seenA' = [seenA EXCEPT ![x] = Free]
    /\ seenP' = [seenP EXCEPT ![x] = Free]
    /\ UNCHANGED <<heldA, heldP>>

\* The session is closed: memory forgotten, locks released, and what was
\* written is gone unless this step commits it.
End(x) ==
    /\ pc' = [pc EXCEPT ![x] = "idle"]
    /\ req' = [req EXCEPT ![x] = Free]
    /\ seenA' = [seenA EXCEPT ![x] = Free]
    /\ seenP' = [seenP EXCEPT ![x] = Free]
    /\ heldA' = [heldA EXCEPT ![x] = Free]
    /\ heldP' = [heldP EXCEPT ![x] = [s \in Steps |-> Free]]

\* A check refused the request, nothing had to be written, or a statement failed.
RollBack(x) == End(x) /\ UNCHANGED dbVars

Goto(x, point) == pc' = [pc EXCEPT ![x] = point]

AssignmentFree(x) == \A y \in Sessions \ {x} : heldA[y] = Free
ProgressFree(x, s) == \A y \in Sessions \ {x} : heldP[y][s] = Free

\* The quiz_result message of an attempt made in the bot is inserted with the
\* row; one made in the web client shows its result itself.
Announced(x, s) ==
    /\ req[x].kind = "complete"
    /\ req[x].via = "telegram"
    /\ s \in Quizzes
    /\ heldP[x][s] \notin {Free, Gone}

Commit(x) ==
    /\ pc[x] = "commit"
    /\ assignment' = IF heldA[x] = Free THEN assignment ELSE heldA[x]
    /\ progress' = [s \in Steps |-> IF heldP[x][s] = Free THEN progress[s] ELSE heldP[x][s]]
    /\ outbound' = [s \in Steps |-> IF Announced(x, s)
                                    THEN [outbound[s] EXCEPT ![heldP[x][s].tries] =
                                              IF @ = "none" THEN heldP[x][s].last ELSE @]
                                    ELSE outbound[s]]
    /\ earned' = earned \cup {s \in Steps : heldP[x][s] \notin {Free, Gone}
                                              /\ heldP[x][s].st = "completed"}
    /\ End(x)

\* The client, the connection or the API process goes away.
Lose(x) == pc[x] # "idle" /\ RollBack(x)

-----------------------------------------------------------------------------
(* complete_step.                                                          *)

\* The assignment is read first.
Complete(x, s, score, via) ==
    /\ pc[x] = "idle"
    /\ assignment # "cancelled"
    /\ req' = [req EXCEPT ![x] = [kind |-> "complete", step |-> s, at |-> 0,
                                  score |-> score, via |-> via]]
    /\ seenA' = [seenA EXCEPT ![x] = assignment]
    /\ Goto(x, "readProgress")
    /\ UNCHANGED <<seenP, heldA, heldP, dbVars>>

\* complete_content_block goes on with complete_step in a second unit of work.
CompleteAfterRead(x) ==
    /\ pc[x] = "complete"
    /\ \/ assignment = "cancelled" /\ RollBack(x)
       \/ /\ assignment # "cancelled"
          /\ seenA' = [seenA EXCEPT ![x] = assignment]
          /\ Goto(x, "readProgress")
          /\ UNCHANGED <<req, seenP, heldA, heldP, dbVars>>

Completable(x, row) ==
    /\ row # Gone
    /\ row.st # "completed"
    /\ seenA[x] # "completed"
    /\ row.tries < MaxTries     \* bound

MutantReadProgressLocksAssignment(x) ==
    /\ pc[x] = "readProgress"
    /\ LET row == progress[req[x].step] IN
        \/ ~Completable(x, row) /\ RollBack(x)
        \/ /\ Completable(x, row)
           /\ AssignmentFree(x)
           /\ heldA' = [heldA EXCEPT ![x] = "in_progress"]
           /\ seenP' = [seenP EXCEPT ![x] = row]
           /\ Goto(x, "writeProgress")
           /\ UNCHANGED <<req, seenA, heldP, dbVars>>

ReadProgress(x) ==
    /\ pc[x] = "readProgress"
    /\ LET row == progress[req[x].step] IN
        \/ ~Completable(x, row) /\ RollBack(x)
        \/ /\ Completable(x, row)
           /\ seenP' = [seenP EXCEPT ![x] = row]
           /\ Goto(x, "writeProgress")
           /\ UNCHANGED <<req, seenA, heldA, heldP, dbVars>>

\* apply_quiz_attempt counts from the row in memory; only the columns that
\* differ from it are written, so a failed attempt on a row seen in_progress
\* leaves the status as it now is.
QuizRow(x, s) ==
    [st |-> IF req[x].score = "pass" THEN "completed"
            ELSE IF seenP[x].st = "in_progress" THEN progress[s].st ELSE "in_progress",
     at |-> seenP[x].at,
     tries |-> seenP[x].tries + 1,
     last |-> req[x].score]

\* The payload of the request replaces the stored one, and with it goes the
\* block_index; what complete_content_block passes on is written if it differs
\* from the row in memory, and no payload leaves the stored one alone.
ContentRow(x, s) ==
    [progress[s] EXCEPT !.st = "completed",
                        !.at = CASE req[x].kind = "complete" /\ req[x].via # "bare" -> 0
                                 [] req[x].kind = "read" /\ seenP[x].at # Blocks - 1 -> Blocks - 1
                                 [] OTHER -> @]

MutantQuizResultAccepted(s, row) == TRUE

\* enqueue_in_uow: the source "<progress>:a<attempt>" is new, or the same text.
QuizResultAccepted(s, row) == outbound[s][row.tries] \in {"none", row.last}

MutantOpensOnComplete(x) == seenA[x] = "pending" /\ req[x].kind = "complete"

\* An assignment seen pending is set in_progress, whatever it is by now.
Opens(x) == seenA[x] = "pending"

\* UPDATE progress: waits for the row; a row deleted meanwhile matches nothing
\* (StaleDataError).
WriteProgress(x) ==
    /\ pc[x] = "writeProgress"
    /\ LET s == req[x].step
           row == IF s \in Quizzes THEN QuizRow(x, s) ELSE ContentRow(x, s)
       IN
        /\ ProgressFree(x, s)
        /\ IF \/ progress[s] = Gone
              \/ s \in Quizzes /\ req[x].via = "telegram" /\ ~QuizResultAccepted(s, row)
           THEN RollBack(x)
           ELSE /\ heldP' = [heldP EXCEPT ![x][s] = row]
                /\ Goto(x, IF Opens(x) THEN "openAssignment" ELSE "tally")
                /\ UNCHANGED <<req, seenA, seenP, heldA, dbVars>>

\* UPDATE assignments: waits for the row.
WriteAssignment(x, s) ==
    /\ AssignmentFree(x)
    /\ heldA' = [heldA EXCEPT ![x] = s]
    /\ seenA' = [seenA EXCEPT ![x] = s]
    /\ UNCHANGED <<req, seenP, heldP, dbVars>>

OpenAssignment(x) ==
    /\ pc[x] = "openAssignment"
    /\ WriteAssignment(x, "in_progress")
    /\ Goto(x, "tally")

MutantDone(x, s) == progress[s] # Gone => progress[s].st = "completed"

\* list_by_assignment_id: what others committed, and the session's own row.
Done(x, s) ==
    LET row == IF heldP[x][s] = Free THEN progress[s] ELSE heldP[x][s] IN
    row # Gone => row.st = "completed"

MutantAllRequiredDone(x) == \E s \in Required : Done(x, s)

AllRequiredDone(x) ==
    IF Required = {} THEN \A s \in Steps : Done(x, s) ELSE \A s \in Required : Done(x, s)

Tally(x) ==
    /\ pc[x] = "tally"
    /\ Goto(x, IF AllRequiredDone(x) THEN "closeAssignment" ELSE "commit")
    /\ UNCHANGED <<req, seenA, seenP, heldA, heldP, dbVars>>

CloseAssignment(x) ==
    /\ pc[x] = "closeAssignment"
    /\ WriteAssignment(x, "completed")
    /\ Goto(x, "commit")

-----------------------------------------------------------------------------
(* start_or_resume, advance_block and complete_content_block.              *)

\* _load_mutable reads the progress row first ...
Learn(x, kind, s, at) ==
    /\ pc[x] = "idle"
    /\ kind = "start" \/ s \notin Quizzes
    /\ progress[s] # Gone
    /\ progress[s].st # "completed"
    /\ req' = [req EXCEPT ![x] = [kind |-> kind, step |-> s, at |-> at,
                                  score |-> "pass", via |-> "web"]]
    /\ seenP' = [seenP EXCEPT ![x] = progress[s]]
    /\ Goto(x, "readAssignment")
    /\ UNCHANGED <<seenA, heldA, heldP, dbVars>>

IsFinal(at) == at >= Blocks - 1

\* What a request on a step already started does next, from the row in memory.
Resume(x) ==
    LET at == seenP[x].at IN
    IF req[x].kind = "advance" /\ req[x].at = at /\ ~IsFinal(at) THEN "advance"
    ELSE IF req[x].kind = "read" /\ req[x].at = at /\ IsFinal(at) THEN "rollback"
    ELSE "commit"

\* ... and then the assignment.
ReadAssignment(x) ==
    /\ pc[x] = "readAssignment"
    /\ \/ assignment \in {"cancelled", "completed"} /\ RollBack(x)
       \/ /\ assignment \notin {"cancelled", "completed"}
          /\ seenA' = [seenA EXCEPT ![x] = assignment]
          /\ Goto(x, IF seenP[x].st = "not_started" THEN "startStep" ELSE Resume(x))
          /\ UNCHANGED <<req, seenP, heldA, heldP, dbVars>>

StartedRow(x) == [seenP[x] EXCEPT !.st = "in_progress", !.at = 0]

\* Reading the only block of a step just started goes on to complete_step, and
\* leaves the unit of work that started it without a commit.
AfterStart(x) ==
    IF req[x].kind = "read" /\ req[x].at = 0 /\ IsFinal(0) THEN "rollback" ELSE "commit"

\* _ensure_started.
StartStep(x) ==
    /\ pc[x] = "startStep"
    /\ LET s == req[x].step IN
        /\ ProgressFree(x, s)
        /\ IF progress[s] = Gone
           THEN RollBack(x)
           ELSE /\ heldP' = [heldP EXCEPT ![x][s] = StartedRow(x)]
                /\ Goto(x, IF Opens(x) THEN "openStarted" ELSE AfterStart(x))
                /\ UNCHANGED <<req, seenA, seenP, heldA, dbVars>>

OpenStarted(x) ==
    /\ pc[x] = "openStarted"
    /\ WriteAssignment(x, "in_progress")
    /\ Goto(x, AfterStart(x))

\* The unit of work ends without a commit and complete_step begins another.
LeaveRead(x) ==
    /\ pc[x] = "rollback"
    /\ heldA' = [heldA EXCEPT ![x] = Free]
    /\ heldP' = [heldP EXCEPT ![x] = [s \in Steps |-> Free]]
    /\ seenA' = [seenA EXCEPT ![x] = Free]
    /\ seenP' = [seenP EXCEPT ![x] = Free]
    /\ Goto(x, "complete")
    /\ UNCHANGED <<req, dbVars>>

\* The payload written is the one in memory with the next block_index.
Advance(x) ==
    /\ pc[x] = "advance"
    /\ LET s == req[x].step IN
        /\ ProgressFree(x, s)
        /\ IF progress[s] = Gone
           THEN RollBack(x)
           ELSE /\ heldP' = [heldP EXCEPT ![x][s] = [seenP[x] EXCEPT !.st = progress[s].st,
                                                                   !.at = @ + 1]]
                /\ Goto(x, "commit")
                /\ UNCHANGED <<req, seenA, seenP, heldA, dbVars>>

-----------------------------------------------------------------------------
(* cancel_assignment.                                                      *)

MutantCancelSkipsDiscard(x) ==
    /\ pc[x] = "idle"
    /\ assignment \notin {"cancelled", "completed"}
    /\ req' = [req EXCEPT ![x] = [kind |-> "cancel", step |-> 1, at |-> 0,
                                  score |-> "pass", via |-> "web"]]
    /\ seenA' = [seenA EXCEPT ![x] = assignment]
    /\ Goto(x, "markCancelled")
    /\ UNCHANGED <<seenP, heldA, heldP, dbVars>>

Cancel(x) ==
    /\ pc[x] = "idle"
    /\ assignment \notin {"cancelled", "completed"}
    /\ req' = [req EXCEPT ![x] = [kind |-> "cancel", step |-> 1, at |-> 0,
                                  score |-> "pass", via |-> "web"]]
    /\ seenA' = [seenA EXCEPT ![x] = assignment]
    /\ Goto(x, "discard")
    /\ UNCHANGED <<seenP, heldA, heldP, dbVars>>

MutantUndiscardedSkipsLocked(x) ==
    {s \in Steps : heldP[x][s] = Free /\ progress[s] # Gone /\ ProgressFree(x, s)}

\* The rows the DELETE has still to reach, in scan order.
Undiscarded(x) == {s \in Steps : heldP[x][s] = Free /\ progress[s] # Gone}

\* DELETE FROM progress WHERE assignment_id = ...: row after row, waiting for
\* each, keeping those it has.
Discard(x) ==
    /\ pc[x] = "discard"
    /\ \/ /\ Undiscarded(x) = {}
          /\ Goto(x, "markCancelled")
          /\ UNCHANGED heldP
       \/ \E s \in Undiscarded(x) :
            /\ \A r \in Undiscarded(x) : s <= r
            /\ ProgressFree(x, s)
            /\ heldP' = [heldP EXCEPT ![x][s] = Gone]
            /\ UNCHANGED pc
    /\ UNCHANGED <<req, seenA, seenP, heldA, dbVars>>

MarkCancelled(x) ==
    /\ pc[x] = "markCancelled"
    /\ WriteAssignment(x, "cancelled")
    /\ Goto(x, "commit")

-----------------------------------------------------------------------------
\* A structured quiz is refused without answers; a start names no block.
Arrive(x) ==
    \/ \E s \in Quizzes, score \in Scores, via \in Clients \ {"bare"} :
            "complete" \in Kinds /\ Complete(x, s, score, via)
    \/ \E s \in Steps \ Quizzes, via \in Clients :
            "complete" \in Kinds /\ Complete(x, s, "pass", via)
    \/ \E kind \in Kinds \cap {"start", "advance", "read"}, s \in Steps, at \in 0..(Blocks - 1) :
            (kind = "start" => at = 0) /\ Learn(x, kind, s, at)
    \/ "cancel" \in Kinds /\ Cancel(x)

Completing(x) ==
    \/ CompleteAfterRead(x)
    \/ ReadProgress(x)
    \/ WriteProgress(x)
    \/ OpenAssignment(x)
    \/ Tally(x)
    \/ CloseAssignment(x)

Learning(x) ==
    ReadAssignment(x) \/ StartStep(x) \/ OpenStarted(x) \/ LeaveRead(x) \/ Advance(x)

Cancelling(x) == Discard(x) \/ MarkCancelled(x)

Proceed(x) == Completing(x) \/ Learning(x) \/ Cancelling(x) \/ Commit(x)

Next == \E x \in Sessions : Arrive(x) \/ Proceed(x) \/ Lose(x)

Spec == Init /\ [][Next]_vars

\* A request under way goes on, and PostgreSQL's lock queues are first come,
\* first served: a request that can take a row again and again gets it.
Fairness == \A x \in Sessions : SF_vars(Proceed(x))

FairSpec == Spec /\ Fairness

-----------------------------------------------------------------------------
(* Properties.                                                             *)

\* A cancelled assignment keeps no progress rows and an assignment that is not
\* cancelled keeps them all, although the requests that write those rows saw
\* the assignment open before cancel_assignment ran.
CancelledIsClean ==
    \A s \in Steps : assignment = "cancelled" <=> progress[s] = Gone

\* No completion or start that saw the assignment open reopens it once the
\* cancellation committed: its UPDATE of the deleted row fails first.
CancelledIsFinal == [][assignment = "cancelled" => assignment' = "cancelled"]_vars

\* A completed assignment was earned: every required step (every step, when
\* none is required) had been completed, even though each request sees only
\* its own row and what the others had committed.
CompletedWasEarned ==
    assignment = "completed" =>
        (IF Required = {} THEN Steps ELSE Required) \subseteq earned

\* Work on a step shows on the assignment: no row has left not_started while
\* the assignment is still pending, whichever request lost a race.
WorkShowsOnAssignment ==
    \A s \in Steps :
        progress[s] # Gone /\ progress[s].st # "not_started" => assignment # "pending"

AttemptInWebClient(s) ==
    \E x \in Sessions :
        /\ pc[x] = "commit" /\ pc'[x] = "idle"
        /\ req[x].kind = "complete" /\ req[x].step = s /\ req[x].via = "web"

\* An attempt made in the bot is told the verdict it stores: whoever changes a
\* quiz row with attempts, the message of the attempt number in it carries its
\* verdict, although concurrent attempts compute one number from a stale count.
\* Only an attempt made in the web client stores a verdict without a message.
ResultToldIsStored ==
    [][\A s \in Quizzes :
           progress'[s] \notin {progress[s], Gone} /\ progress'[s].tries > 0 =>
               \/ outbound'[s][progress'[s].tries] = progress'[s].last
               \/ AttemptInWebClient(s)]_vars

\* Sessions never wait for each other in a cycle: every request locks progress
\* rows before the assignment, and cancel_assignment locks them in one order.
WaitsFor(x, y) ==
    /\ x # y
    /\ \/ /\ pc[x] \in {"openAssignment", "openStarted", "closeAssignment", "markCancelled"}
          /\ heldA[y] # Free
       \/ /\ pc[x] \in {"writeProgress", "startStep", "advance"}
          /\ heldP[y][req[x].step] # Free
       \/ /\ pc[x] = "discard"
          /\ \E s \in Undiscarded(x) :
                (\A r \in Undiscarded(x) : s <= r) /\ heldP[y][s] # Free

NoWaitCycle ==
    \A X \in (SUBSET Sessions) \ {{}} : \E x \in X : \A y \in X : ~WaitsFor(x, y)

\* Every request is answered, whatever it has to wait for.
EveryRequestAnswered == \A x \in Sessions : pc[x] # "idle" ~> pc[x] = "idle"

\* What "Completed assignment cannot be cancelled" says.
CompletedStaysCompleted ==
    [][assignment = "completed" => assignment' # "cancelled"]_vars

\* What "Stale or double-click callbacks are no-ops" says: the commit of an
\* advance from a block that the cursor has already left, of a step its request
\* found started, does not move the cursor.
StaleAdvanceIsNoOp ==
    [][\A x \in Sessions :
           LET s == req[x].step IN
           /\ pc[x] = "commit" /\ pc'[x] = "idle"
           /\ req[x].kind = "advance" /\ seenP[x].st = "in_progress"
           /\ progress[s] # Gone /\ progress[s].at > req[x].at
           /\ progress'[s] # Gone
           => progress'[s].at = progress[s].at]_vars

\* What the flow "employee completes -> assignment completed" says: with no
\* request under way, an assignment with all required steps done is closed.
FinishedIsClosed ==
    (\A x \in Sessions : pc[x] = "idle") /\ Required # {}
        /\ (\A s \in Required : progress[s] # Gone /\ progress[s].st = "completed")
            => assignment = "completed"
=============================================================================
