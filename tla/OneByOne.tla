------------------------------ MODULE OneByOne ------------------------------
(***************************************************************************)
(* One program assignment whose requests are served one by one: each reads *)
(* the assignment and its progress rows and changes them in one step, as   *)
(* if nobody else were there.  AssignmentOverlap.tla says which commits of *)
(* the concurrent requests of Assignment.tla are steps of this module.     *)
(***************************************************************************)
EXTENDS Naturals

CONSTANTS Steps,     \* the steps of the program
          Required,  \* steps with is_required
          Quizzes,   \* structured quizzes; the others have content blocks
          Blocks,    \* content blocks of a step
          MaxTries,  \* bound: quiz submissions considered
          Gone       \* the progress row is deleted

VARIABLES assignment, \* assignments.status
          progress,   \* progress rows
          outbound    \* the quiz_result message of each attempt

vars == <<assignment, progress, outbound>>

Init ==
    /\ assignment = "pending"
    /\ progress = [s \in Steps |->
           [st |-> "not_started", at |-> 0, tries |-> 0, last |-> "none"]]
    /\ outbound = [s \in Steps |-> [n \in 1..MaxTries |-> "none"]]

Open == assignment \in {"pending", "in_progress"}

\* Its row exists and is not completed.
ToDo(s) == progress[s] # Gone /\ progress[s].st # "completed"

Finished(rows) ==
    \A s \in (IF Required = {} THEN Steps ELSE Required) :
        rows[s] # Gone => rows[s].st = "completed"

\* complete_step: the row is written, and the assignment with it.
Complete(s, row) ==
    /\ Open
    /\ progress' = [progress EXCEPT ![s] = row]
    /\ assignment' = IF Finished(progress') THEN "completed" ELSE "in_progress"

\* A content step is confirmed, with a payload that takes the place of the
\* stored one or with none, or read to its last block.
CompleteContent(s) ==
    /\ s \notin Quizzes
    /\ ToDo(s)
    /\ \E at \in {0, progress[s].at, Blocks - 1} :
            Complete(s, [progress[s] EXCEPT !.st = "completed", !.at = at])
    /\ UNCHANGED outbound

\* The message of an attempt made in the bot: one text for one attempt number.
Tell(s, n, score) ==
    /\ outbound[s][n] \in {"none", score}
    /\ outbound' = [outbound EXCEPT ![s][n] = score]

\* A quiz is submitted in the bot or in the web client.
Attempt(s, score, via) ==
    LET n == progress[s].tries + 1 IN
    /\ s \in Quizzes
    /\ ToDo(s)
    /\ n \in 1..MaxTries
    /\ Complete(s, [progress[s] EXCEPT !.st = IF score = "pass" THEN "completed" ELSE "in_progress",
                                       !.tries = n,
                                       !.last = score])
    /\ \/ via = "telegram" /\ Tell(s, n, score)
       \/ via = "web" /\ UNCHANGED outbound

\* _ensure_started.
Start(s) ==
    /\ Open
    /\ ToDo(s)
    /\ progress[s].st = "not_started"
    /\ progress' = [progress EXCEPT ![s] = [@ EXCEPT !.st = "in_progress", !.at = 0]]
    /\ assignment' = "in_progress"
    /\ UNCHANGED outbound

\* advance_block: one block further, and never past the last.
Advance(s) ==
    /\ s \notin Quizzes
    /\ Open
    /\ ToDo(s)
    /\ progress[s].st = "in_progress"
    /\ progress[s].at < Blocks - 1
    /\ progress' = [progress EXCEPT ![s].at = @ + 1]
    /\ UNCHANGED <<assignment, outbound>>

\* cancel_assignment.
Cancel ==
    /\ Open
    /\ progress' = [s \in Steps |-> Gone]
    /\ assignment' = "cancelled"
    /\ UNCHANGED outbound

Next ==
    \/ \E s \in Steps : CompleteContent(s) \/ Start(s) \/ Advance(s)
    \/ \E s \in Steps, score \in {"fail", "pass"}, via \in {"telegram", "web"} :
            Attempt(s, score, via)
    \/ Cancel

Spec == Init /\ [][Next]_vars
=============================================================================
