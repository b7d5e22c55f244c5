-------------------------- MODULE AssignmentProofs --------------------------
(***************************************************************************)
(* Machine-checked proofs about Assignment, for every number of steps and  *)
(* blocks, every set of required steps and quizzes, and every set of       *)
(* concurrent sessions.                                                    *)
(***************************************************************************)
EXTENDS Assignment, TLAPS

\* The steps that must be completed before the assignment may be.
Needed == IF Required = {} THEN Steps ELSE Required

Reading == {"readAssignment", "startStep", "advance", "complete", "readProgress",
            "writeProgress"}

\* A session that serves nobody remembers and holds nothing.
IdleShape(x) ==
    pc[x] = "idle" => /\ seenA[x] = Free /\ seenP[x] = Free /\ heldA[x] = Free
                      /\ \A s \in Steps : heldP[x][s] = Free

\* Where a request of each kind can be.
RequestShape(x) ==
    /\ pc[x] # "idle" => req[x] \in Request
    /\ pc[x] # "idle" /\ req[x].kind \in {"advance", "read"} => req[x].step \notin Quizzes
    /\ pc[x] # "idle" /\ req[x].kind = "complete" /\ req[x].step \in Quizzes
            => req[x].via # "bare"
    /\ pc[x] \in {"discard", "markCancelled"} => req[x].kind = "cancel"
    /\ pc[x] # "idle" /\ req[x].kind = "cancel" => pc[x] \in {"discard", "markCancelled", "commit"}
    /\ pc[x] \in {"readAssignment", "startStep", "openStarted"} =>
            req[x].kind \in {"start", "advance", "read"}
    /\ pc[x] = "advance" => req[x].kind = "advance"
    /\ pc[x] \in {"complete", "rollback"} => req[x].kind = "read"
    /\ pc[x] \in {"readProgress", "writeProgress", "openAssignment"} =>
            req[x].kind \in {"complete", "read"}

\* What a session remembers is something the database has moved on from: the
\* assignment never returns to pending, a row never to not_started.
MemoryFacts(x) ==
    /\ seenA[x] \notin {Free, "pending"} /\ heldA[x] = Free => assignment # "pending"
    /\ seenP[x] # Free /\ seenP[x].st = "not_started" => seenP[x].tries = 0
    /\ seenP[x] # Free /\ seenP[x].st # "not_started" =>
            /\ assignment # "pending"
            /\ progress[req[x].step] # Gone => progress[req[x].step].st # "not_started"
    /\ pc[x] \in {"startStep", "advance", "writeProgress", "readProgress"} => seenA[x] # Free
    /\ pc[x] \in {"readAssignment", "startStep", "advance", "writeProgress"} => seenP[x] # Free
    /\ pc[x] = "startStep" => seenP[x].st = "not_started"
    /\ pc[x] = "advance" => seenP[x].st # "not_started"
    /\ pc[x] = "writeProgress" => seenP[x].tries < MaxTries

\* The steps a session has completed and not committed.
FinishedBy(x) == {s \in Steps : heldP[x][s] \notin {Free, Gone} /\ heldP[x][s].st = "completed"}

\* A learner's request writes its own row first, and the assignment only while
\* it holds that row.
LearnerFacts(x) ==
    pc[x] # "idle" /\ req[x].kind # "cancel" =>
        /\ pc[x] \in Reading => heldA[x] = Free /\ \A s \in Steps : heldP[x][s] = Free
        /\ \A s \in Steps : heldP[x][s] # Free =>
                /\ s = req[x].step
                /\ heldP[x][s] \in Row
                /\ heldP[x][s].st # "not_started"
                /\ progress[s] # Gone
                /\ heldA[x] = Free /\ pc[x] \notin {"openAssignment", "openStarted"}
                        => assignment # "pending"
                /\ req[x].kind = "complete" /\ s \in Quizzes =>
                        /\ heldP[x][s].tries \in 1..MaxTries
                        /\ req[x].via = "telegram" =>
                                outbound[s][heldP[x][s].tries] \in {"none", heldP[x][s].last}
                /\ req[x].kind = "start" => heldP[x][s].tries = 0
        /\ heldA[x] # Free => /\ heldA[x] \in {"in_progress", "completed"}
                              /\ heldP[x][req[x].step] # Free
                              /\ pc[x] \in {"tally", "closeAssignment", "commit", "rollback"}
        /\ pc[x] \in {"openAssignment", "openStarted", "tally", "closeAssignment"} =>
                heldP[x][req[x].step] # Free
        /\ pc[x] = "closeAssignment" \/ heldA[x] = "completed" =>
                Needed \subseteq earned \cup FinishedBy(x)

\* A cancellation takes the rows in order, all of them before the assignment.
CancelFacts(x) ==
    pc[x] # "idle" /\ req[x].kind = "cancel" =>
        /\ \A s \in Steps : heldP[x][s] # Free => heldP[x][s] = Gone /\ progress[s] # Gone
        /\ heldA[x] = IF pc[x] = "commit" THEN "cancelled" ELSE Free
        /\ pc[x] \in {"markCancelled", "commit"} =>
                \A s \in Steps : heldP[x][s] = Gone \/ progress[s] = Gone
        /\ \A r, s \in Steps :
                heldP[x][s] # Free /\ r < s => heldP[x][r] # Free \/ progress[r] = Gone

Local(x) ==
    /\ IdleShape(x)
    /\ RequestShape(x)
    /\ MemoryFacts(x)
    /\ LearnerFacts(x)
    /\ CancelFacts(x)

\* A row lock has one holder.
LocksExclusive ==
    \A x, y \in Sessions : x # y =>
        /\ heldA[x] = Free \/ heldA[y] = Free
        /\ \A s \in Steps : heldP[x][s] = Free \/ heldP[y][s] = Free

\* What is committed.
StoredFacts ==
    /\ \A s \in Steps : progress[s] # Gone /\ progress[s].st = "completed" => s \in earned
    /\ \A s \in Steps : progress[s] # Gone /\ progress[s].st = "not_started"
                            => progress[s].tries = 0

IInv ==
    /\ TypeOK
    /\ LocksExclusive
    /\ StoredFacts
    /\ CancelledIsClean
    /\ CompletedWasEarned
    /\ WorkShowsOnAssignment
    /\ \A x \in Sessions : Local(x)

\* A session that has not written a row is told apart from every row it may write.
LEMMA FreeIsNeither ==
    /\ Free \notin {"pending", "in_progress", "completed", "cancelled"}
    /\ Free # Gone
    /\ Free \notin Row /\ Gone \notin Row /\ Free \notin Request
BY AssignmentAssumption DEF AssignmentStatus

-----------------------------------------------------------------------------
(* A step of one session.                                                  *)

OthersStill(x) ==
    \A y \in Sessions \ {x} :
        /\ pc'[y] = pc[y] /\ req'[y] = req[y]
        /\ seenA'[y] = seenA[y] /\ seenP'[y] = seenP[y]
        /\ heldA'[y] = heldA[y] /\ heldP'[y] = heldP[y]

\* What the database may do under a session: leave the rows it holds alone,
\* and move the others on.
MovesOnUnder(y) ==
    /\ assignment' = "pending" => assignment = "pending"
    /\ earned \subseteq earned'
    /\ \A s \in Steps :
        /\ heldP[y][s] # Free => progress'[s] = progress[s] /\ outbound'[s] = outbound[s]
        /\ progress'[s] # Gone =>
                /\ progress[s] # Gone
                /\ progress[s].st # "not_started" => progress'[s].st # "not_started"

\* What is known of a session stays true while others commit.
LEMMA OtherLocal ==
    ASSUME NEW y \in Sessions, Local(y), MovesOnUnder(y), req[y] \in Request \cup {Free},
           pc'[y] = pc[y], req'[y] = req[y], seenA'[y] = seenA[y],
           seenP'[y] = seenP[y], heldA'[y] = heldA[y], heldP'[y] = heldP[y]
    PROVE  Local(y)'
<1> USE DEF MovesOnUnder
<1>1. IdleShape(y)' /\ RequestShape(y)'
  BY DEF Local, IdleShape, RequestShape
<1>2. MemoryFacts(y)'
  <2>1. seenP[y] # Free => pc[y] # "idle" /\ req[y].step \in Steps
    BY DEF Local, IdleShape, RequestShape, Request
  <2> QED BY <2>1 DEF Local, MemoryFacts
<1>3. LearnerFacts(y)'
  BY DEF Local, LearnerFacts, FinishedBy
<1>4. CancelFacts(y)'
  BY DEF Local, CancelFacts
<1> QED BY <1>1, <1>2, <1>3, <1>4 DEF Local

\* A session that keeps its locks, gives them up, or takes a row nobody else
\* holds leaves every lock with one holder.
LEMMA LocksKept ==
    ASSUME LocksExclusive, NEW x \in Sessions, OthersStill(x),
           heldA'[x] \in {Free, heldA[x]} \/ AssignmentFree(x),
           \A s \in Steps : heldP'[x][s] \in {Free, heldP[x][s]} \/ ProgressFree(x, s)
    PROVE  LocksExclusive'
<1> SUFFICES ASSUME NEW y \in Sessions, NEW z \in Sessions, y # z
             PROVE  /\ heldA'[y] = Free \/ heldA'[z] = Free
                    /\ \A s \in Steps : heldP'[y][s] = Free \/ heldP'[z][s] = Free
  BY DEF LocksExclusive
<1>1. heldA'[y] = Free \/ heldA'[z] = Free
  BY DEF LocksExclusive, OthersStill, AssignmentFree
<1>2. \A s \in Steps : heldP'[y][s] = Free \/ heldP'[z][s] = Free
  BY DEF LocksExclusive, OthersStill, ProgressFree
<1> QED BY <1>1, <1>2

\* A step that commits nothing: it is enough to look at the session that moves.
LEMMA LocalStep ==
    ASSUME IInv, NEW x \in Sessions, UNCHANGED dbVars, OthersStill(x),
           TypeOK', LocksExclusive', Local(x)'
    PROVE  IInv'
<1>1. ASSUME NEW y \in Sessions PROVE Local(y)'
  <2>1. CASE y = x
    BY <2>1
  <2>2. CASE y # x
    <3>1. MovesOnUnder(y)
      BY DEF MovesOnUnder, dbVars
    <3> QED BY <2>2, <3>1, OtherLocal DEF IInv, TypeOK, OthersStill
  <2> QED BY <2>1, <2>2
<1>2. StoredFacts' /\ CancelledIsClean' /\ CompletedWasEarned'
  BY DEF IInv, StoredFacts, CancelledIsClean, CompletedWasEarned, dbVars
<1>3. WorkShowsOnAssignment'
  BY DEF IInv, WorkShowsOnAssignment, dbVars
<1> QED BY <1>1, <1>2, <1>3 DEF IInv

\* The end of a unit of work forgets memory and locks.
LEMMA EndLocal ==
    ASSUME IInv, NEW x \in Sessions, End(x)
    PROVE  /\ OthersStill(x)
           /\ Local(x)'
           /\ LocksExclusive'
           /\ pc'[x] = "idle" /\ pc' \in [Sessions -> Points]
           /\ req' \in [Sessions -> Request \cup {Free}]
           /\ seenA' \in [Sessions -> AssignmentStatus \cup {Free}]
           /\ seenP' \in [Sessions -> Row \cup {Free}]
           /\ heldA' \in [Sessions -> AssignmentStatus \cup {Free}]
           /\ heldP' \in [Sessions -> [Steps -> Row \cup {Gone, Free}]]
<1>1. /\ pc' \in [Sessions -> Points]
      /\ req' \in [Sessions -> Request \cup {Free}]
      /\ seenA' \in [Sessions -> AssignmentStatus \cup {Free}]
      /\ seenP' \in [Sessions -> Row \cup {Free}]
      /\ heldA' \in [Sessions -> AssignmentStatus \cup {Free}]
  BY DEF IInv, TypeOK, End, Points
<1>2. heldP' \in [Sessions -> [Steps -> Row \cup {Gone, Free}]]
  BY DEF IInv, TypeOK, End
<1>3. OthersStill(x)
  BY DEF IInv, TypeOK, End, OthersStill
<1>4. /\ pc'[x] = "idle" /\ seenA'[x] = Free /\ seenP'[x] = Free /\ heldA'[x] = Free
      /\ \A s \in Steps : heldP'[x][s] = Free
  BY DEF IInv, TypeOK, End
<1>5. LocksExclusive'
  BY <1>3, <1>4, LocksKept DEF IInv
<1>6. Local(x)'
  BY <1>4 DEF Local, IdleShape, RequestShape, MemoryFacts, LearnerFacts, CancelFacts
<1> QED BY <1>1, <1>2, <1>3, <1>4, <1>5, <1>6

\* A request that is refused, fails or is lost leaves no trace.
LEMMA RollBackStep ==
    ASSUME IInv, NEW x \in Sessions, RollBack(x)
    PROVE  IInv'
<1>1. TypeOK'
  BY EndLocal DEF IInv, TypeOK, RollBack, dbVars
<1> QED BY <1>1, EndLocal, LocalStep DEF RollBack

-----------------------------------------------------------------------------
(* Completing a step.                                                      *)

\* A request to complete a step has read the assignment.
LEMMA CompleteStep ==
    ASSUME IInv, NEW x \in Sessions, NEW s \in Steps, NEW score \in Scores,
           NEW via \in AllClients, s \in Quizzes => via # "bare", Complete(x, s, score, via)
    PROVE  IInv'
<1> USE DEF IInv, TypeOK, Complete, Goto, dbVars
<1>1. TypeOK'
  BY DEF Points, Request, AllKinds
<1>2. OthersStill(x)
  BY DEF OthersStill
<1>3. LocksExclusive'
  BY <1>2, LocksKept
<1>4. /\ pc[x] = "idle" /\ pc'[x] = "readProgress" /\ req'[x] \in Request
      /\ req'[x].kind = "complete" /\ req'[x].step = s /\ req'[x].via = via
      /\ seenA'[x] = assignment
  BY DEF Request, AllKinds
<1>5. /\ seenP'[x] = Free /\ heldA'[x] = Free /\ \A r \in Steps : heldP'[x][r] = Free
  BY <1>4 DEF Local, IdleShape
<1>6. Local(x)'
  <2>1. IdleShape(x)' /\ RequestShape(x)' /\ CancelFacts(x)'
    BY <1>4 DEF IdleShape, RequestShape, CancelFacts
  <2>2. MemoryFacts(x)'
    BY <1>4, <1>5, AssignmentAssumption DEF MemoryFacts
  <2>3. LearnerFacts(x)'
    BY <1>4, <1>5, FreeIsNeither DEF LearnerFacts
  <2> QED BY <2>1, <2>2, <2>3 DEF Local
<1> QED BY <1>1, <1>2, <1>3, <1>6, LocalStep

\* complete_content_block enters complete_step holding nothing.
LEMMA CompleteAfterReadStep ==
    ASSUME IInv, NEW x \in Sessions, CompleteAfterRead(x)
    PROVE  IInv'
<1>1. CASE assignment = "cancelled" /\ RollBack(x)
  BY <1>1, RollBackStep
<1>2. CASE assignment # "cancelled" /\ ~RollBack(x)
  <2>a. /\ pc[x] = "complete" /\ assignment # "cancelled"
        /\ pc' = [pc EXCEPT ![x] = "readProgress"]
        /\ seenA' = [seenA EXCEPT ![x] = assignment]
        /\ UNCHANGED <<req, seenP, heldA, heldP, dbVars>>
    BY <1>2 DEF CompleteAfterRead, Goto
  <2> USE <2>a DEF IInv, TypeOK, dbVars
  <2>1. TypeOK'
    BY <2>a DEF Points
  <2>2. OthersStill(x)
    BY DEF OthersStill
  <2>3. LocksExclusive'
    BY <2>2, LocksKept
  <2>4. /\ pc[x] = "complete" /\ pc'[x] = "readProgress" /\ req'[x] = req[x]
        /\ req[x] \in Request /\ req[x].kind = "read" /\ req[x].step \notin Quizzes
        /\ seenA'[x] = assignment /\ seenP'[x] = seenP[x]
    BY DEF Local, RequestShape
  <2>5. /\ heldA'[x] = Free /\ \A r \in Steps : heldP'[x][r] = Free
        /\ heldA[x] = Free
    BY <2>4 DEF Local, LearnerFacts, Reading
  <2>6. IdleShape(x)' /\ RequestShape(x)' /\ CancelFacts(x)'
    BY <2>4 DEF IdleShape, RequestShape, CancelFacts
  <2>7. MemoryFacts(x)'
    BY <2>4, <2>5, AssignmentAssumption DEF Local, MemoryFacts
  <2>8. LearnerFacts(x)'
    BY <2>4, <2>5, FreeIsNeither DEF LearnerFacts
  <2> QED BY <2>1, <2>2, <2>3, <2>6, <2>7, <2>8, LocalStep DEF Local
<1> QED BY <1>1, <1>2, RollBackStep DEF CompleteAfterRead

\* What a step is completed from is a row that others may have moved on since.
LEMMA ReadProgressStep ==
    ASSUME IInv, NEW x \in Sessions, ReadProgress(x)
    PROVE  IInv'
<1>1. CASE RollBack(x)
  BY <1>1, RollBackStep
<1>2. CASE ~RollBack(x)
  <2> USE <1>2 DEF IInv, TypeOK, ReadProgress, Goto, dbVars
  <2>1. /\ pc[x] = "readProgress" /\ pc'[x] = "writeProgress" /\ req'[x] = req[x]
        /\ req[x] \in Request /\ req[x].kind \in {"complete", "read"} /\ req[x].step \in Steps
        /\ seenA'[x] = seenA[x] /\ seenA[x] # Free
    BY DEF Local, RequestShape, MemoryFacts, Request
  <2>2. /\ Completable(x, progress[req[x].step])
        /\ seenP' = [seenP EXCEPT ![x] = progress[req[x].step]]
        /\ seenP'[x] = progress[req[x].step]
        /\ progress[req[x].step] # Gone /\ progress[req[x].step] \in Row
        /\ progress[req[x].step].tries < MaxTries
    BY <2>1 DEF Completable
  <2>3. TypeOK'
    BY <2>2 DEF Points
  <2>4. OthersStill(x)
    BY DEF OthersStill
  <2>5. LocksExclusive'
    BY <2>4, LocksKept
  <2>6. /\ heldA'[x] = Free /\ heldA[x] = Free /\ \A r \in Steps : heldP'[x][r] = Free
    BY <2>1 DEF Local, LearnerFacts, Reading
  <2>7. IdleShape(x)' /\ RequestShape(x)' /\ CancelFacts(x)'
    BY <2>1 DEF Local, IdleShape, RequestShape, CancelFacts
  <2>8. MemoryFacts(x)'
    BY <2>1, <2>2, <2>6, AssignmentAssumption
    DEF Local, MemoryFacts, StoredFacts, WorkShowsOnAssignment
  <2>9. LearnerFacts(x)'
    BY <2>1, <2>6, FreeIsNeither DEF LearnerFacts
  <2> QED BY <2>3, <2>4, <2>5, <2>7, <2>8, <2>9, LocalStep DEF Local
<1> QED BY <1>1, <1>2

\* The row complete_step writes is a row, says that work was done, and carries
\* the attempt after the one in memory.
LEMMA WrittenRow ==
    ASSUME IInv, NEW x \in Sessions, pc[x] = "writeProgress", progress[req[x].step] # Gone
    PROVE  LET s == req[x].step
               row == IF s \in Quizzes THEN QuizRow(x, s) ELSE ContentRow(x, s)
           IN  /\ row \in Row
               /\ row.st # "not_started"
               /\ s \in Quizzes => /\ req[x].kind = "complete"
                                   /\ row.tries \in 1..MaxTries
<1> USE DEF IInv, TypeOK
<1>1. /\ req[x] \in Request /\ req[x].kind \in {"complete", "read"} /\ req[x].step \in Steps
      /\ req[x].step \in Quizzes => req[x].kind = "complete"
      /\ req[x].score \in {"pass", "fail"}
  BY DEF Local, RequestShape, Request, Scores
<1>2. /\ seenP[x] # Free /\ seenP[x] \in Row /\ seenP[x].tries < MaxTries
      /\ seenP[x].st # "not_started" => progress[req[x].step].st # "not_started"
      /\ progress[req[x].step] \in Row
  BY <1>1 DEF Local, MemoryFacts
<1>3. CASE req[x].step \in Quizzes
  <2>1. /\ seenP[x].at \in Nat /\ seenP[x].tries + 1 \in Nat /\ progress[req[x].step].st \in ProgressStatus
        /\ seenP[x].tries + 1 \in 1..MaxTries
    BY <1>2, AssignmentAssumption DEF Row
  <2>2. QuizRow(x, req[x].step) \in Row
    BY <1>1, <2>1 DEF QuizRow, Row, ProgressStatus, Scores
  <2>3. QuizRow(x, req[x].step).st # "not_started"
    BY <1>2 DEF QuizRow
  <2>4. QuizRow(x, req[x].step).tries = seenP[x].tries + 1
    BY DEF QuizRow
  <2> QED BY <1>1, <1>3, <2>1, <2>2, <2>3, <2>4
<1>4. CASE req[x].step \notin Quizzes
  <2>1. Blocks - 1 \in Nat
    BY AssignmentAssumption
  <2>2. ContentRow(x, req[x].step) \in Row /\ ContentRow(x, req[x].step).st = "completed"
    BY <1>2, <2>1 DEF ContentRow, Row, ProgressStatus
  <2> QED BY <1>4, <2>2
<1> QED BY <1>3, <1>4

\* Only a row that still exists is written, and its message does not clash.
LEMMA WriteProgressStep ==
    ASSUME IInv, NEW x \in Sessions, WriteProgress(x)
    PROVE  IInv'
<1>1. CASE RollBack(x)
  BY <1>1, RollBackStep
<1>2. CASE ~RollBack(x)
  <2> DEFINE s == req[x].step
             row == IF s \in Quizzes THEN QuizRow(x, s) ELSE ContentRow(x, s)
  <2>1. /\ pc[x] = "writeProgress" /\ ProgressFree(x, s) /\ progress[s] # Gone
        /\ s \in Quizzes /\ req[x].via = "telegram" => QuizResultAccepted(s, row)
        /\ heldP' = [heldP EXCEPT ![x][s] = row]
        /\ pc' = [pc EXCEPT ![x] = IF Opens(x) THEN "openAssignment" ELSE "tally"]
        /\ UNCHANGED <<req, seenA, seenP, heldA, dbVars>>
    BY <1>2 DEF WriteProgress, Goto
  <2>2. /\ row \in Row /\ row.st # "not_started"
        /\ s \in Quizzes => req[x].kind = "complete" /\ row.tries \in 1..MaxTries
    BY <2>1, WrittenRow
  <2>3. s \in Quizzes /\ req[x].via = "telegram" => outbound[s][row.tries] \in {"none", row.last}
    BY <2>1 DEF QuizResultAccepted
  <2> HIDE DEF row
  <2> USE <2>1 DEF IInv, TypeOK, dbVars
  <2>4. /\ req[x] \in Request /\ req[x].kind \in {"complete", "read"} /\ s \in Steps
        /\ seenA[x] # Free /\ heldA[x] = Free /\ \A r \in Steps : heldP[x][r] = Free
    BY DEF Local, RequestShape, MemoryFacts, LearnerFacts, Reading, Request
  <2> HIDE DEF s
  <2>5. /\ heldP'[x][s] = row /\ heldP' \in [Sessions -> [Steps -> Row \cup {Gone, Free}]]
        /\ \A r \in Steps \ {s} : heldP'[x][r] = Free
        /\ pc'[x] \in {"openAssignment", "tally"} /\ (~Opens(x) => pc'[x] = "tally")
        /\ (pc'[x] = "openAssignment" <=> Opens(x))
        /\ req'[x] = req[x] /\ seenA'[x] = seenA[x] /\ seenP'[x] = seenP[x] /\ heldA'[x] = Free
    BY <2>2, <2>4
  <2>6. TypeOK'
    BY <2>5 DEF Points
  <2>7. OthersStill(x)
    BY DEF OthersStill
  <2>8. LocksExclusive'
    BY <2>4, <2>5, <2>7, LocksKept
  <2>9. IdleShape(x)' /\ RequestShape(x)' /\ CancelFacts(x)'
    BY <2>4, <2>5 DEF Local, IdleShape, RequestShape, CancelFacts
  <2>10. MemoryFacts(x)'
    BY <2>5 DEF Local, MemoryFacts
  <2>11. ~Opens(x) => assignment # "pending"
    BY <2>4 DEF Local, MemoryFacts, Opens
  <2>12. LearnerFacts(x)'
    BY <2>2, <2>3, <2>4, <2>5, <2>11, FreeIsNeither DEF LearnerFacts, Reading, s
  <2> QED BY <2>6, <2>7, <2>8, <2>9, <2>10, <2>12, LocalStep DEF Local
<1> QED BY <1>1, <1>2

\* The assignment is opened by a session that holds the row it worked on.
LEMMA OpenAssignmentStep ==
    ASSUME IInv, NEW x \in Sessions, OpenAssignment(x)
    PROVE  IInv'
<1> USE DEF IInv, TypeOK, OpenAssignment, WriteAssignment, Goto, dbVars
<1>1. TypeOK'
  BY DEF Points, AssignmentStatus
<1>2. OthersStill(x)
  BY DEF OthersStill
<1>3. LocksExclusive'
  BY <1>2, LocksKept
<1>4. /\ pc[x] = "openAssignment" /\ pc'[x] = "tally" /\ req'[x] = req[x]
      /\ req[x].kind \in {"complete", "read"}
      /\ seenA'[x] = "in_progress" /\ heldA'[x] = "in_progress"
      /\ seenP'[x] = seenP[x] /\ heldP'[x] = heldP[x]
  BY DEF Local, RequestShape
<1>5. IdleShape(x)' /\ RequestShape(x)' /\ CancelFacts(x)'
  BY <1>4 DEF Local, IdleShape, RequestShape, CancelFacts
<1>6. MemoryFacts(x)'
  BY <1>4, FreeIsNeither DEF Local, MemoryFacts
<1>7. LearnerFacts(x)'
  <2>1. LearnerFacts(x) /\ pc[x] # "idle" /\ req[x].kind # "cancel"
    BY <1>4 DEF Local
  <2>2. dbVars' = dbVars
    OBVIOUS
  <2> HIDE DEF IInv, TypeOK, OpenAssignment, WriteAssignment
  <2> QED BY <1>4, <2>1, <2>2, FreeIsNeither DEF LearnerFacts, Reading
<1> QED BY <1>1, <1>2, <1>3, <1>5, <1>6, <1>7, LocalStep DEF Local

\* The tally counts a step as done only if it was completed at a commit or is
\* completed by this session: no row of the assignment is gone while the
\* session holds one of them.
LEMMA DoneIsEarned ==
    ASSUME IInv, NEW x \in Sessions, pc[x] = "tally", AllRequiredDone(x)
    PROVE  Needed \subseteq earned \cup FinishedBy(x)
<1> USE DEF IInv, TypeOK
<1>1. /\ req[x] \in Request /\ req[x].kind # "cancel" /\ req[x].step \in Steps
      /\ heldP[x][req[x].step] # Free
  BY DEF Local, RequestShape, LearnerFacts, Request
<1>2. progress[req[x].step] # Gone
  BY <1>1 DEF Local, LearnerFacts
<1>3. \A s \in Steps : progress[s] # Gone
  BY <1>1, <1>2 DEF CancelledIsClean
<1>4. ASSUME NEW s \in Steps, Done(x, s) PROVE s \in earned \cup FinishedBy(x)
  <2>1. CASE heldP[x][s] = Free
    BY <1>3, <1>4, <2>1 DEF Done, StoredFacts
  <2>2. CASE heldP[x][s] # Free
    <3>1. heldP[x][s] \in Row
      BY <1>1, <2>2 DEF Local, LearnerFacts
    <3>2. heldP[x][s] # Gone /\ heldP[x][s].st = "completed"
      BY <1>4, <2>2, <3>1, FreeIsNeither DEF Done
    <3> QED BY <2>2, <3>2 DEF FinishedBy
  <2> QED BY <2>1, <2>2
<1>5. \A s \in Needed : s \in Steps /\ Done(x, s)
  BY AssignmentAssumption DEF AllRequiredDone, Needed
<1> QED BY <1>4, <1>5

\* Counting the rows changes nothing but what the request does next.
LEMMA TallyStep ==
    ASSUME IInv, NEW x \in Sessions, Tally(x)
    PROVE  IInv'
<1> USE DEF IInv, TypeOK, Tally, Goto, dbVars
<1>1. TypeOK'
  BY DEF Points
<1>2. OthersStill(x)
  BY DEF OthersStill
<1>3. LocksExclusive'
  BY <1>2, LocksKept
<1>4. /\ pc[x] = "tally" /\ pc'[x] \in {"closeAssignment", "commit"} /\ req'[x] = req[x]
      /\ pc'[x] = "closeAssignment" => AllRequiredDone(x)
      /\ req[x].kind # "cancel"
      /\ seenA'[x] = seenA[x] /\ heldA'[x] = heldA[x]
      /\ seenP'[x] = seenP[x] /\ heldP'[x] = heldP[x]
  BY DEF Local, RequestShape
<1>5. IdleShape(x)' /\ RequestShape(x)' /\ CancelFacts(x)'
  BY <1>4 DEF Local, IdleShape, RequestShape, CancelFacts
<1>6. MemoryFacts(x)'
  BY <1>4 DEF Local, MemoryFacts
<1>7. pc'[x] = "closeAssignment" => Needed \subseteq earned \cup FinishedBy(x)
  BY <1>4, DoneIsEarned
<1>8. LearnerFacts(x)'
  BY <1>4, <1>7 DEF Local, LearnerFacts, Reading, FinishedBy
<1> QED BY <1>1, <1>2, <1>3, <1>5, <1>6, <1>8, LocalStep DEF Local

\* The assignment is completed by a session that counted every needed step.
LEMMA CloseAssignmentStep ==
    ASSUME IInv, NEW x \in Sessions, CloseAssignment(x)
    PROVE  IInv'
<1> USE DEF IInv, TypeOK, CloseAssignment, WriteAssignment, Goto, dbVars
<1>1. TypeOK'
  BY DEF Points, AssignmentStatus
<1>2. OthersStill(x)
  BY DEF OthersStill
<1>3. LocksExclusive'
  BY <1>2, LocksKept
<1>4. /\ pc[x] = "closeAssignment" /\ pc'[x] = "commit" /\ req'[x] = req[x]
      /\ req[x].kind # "cancel"
      /\ seenA'[x] = "completed" /\ heldA'[x] = "completed"
      /\ seenP'[x] = seenP[x] /\ heldP'[x] = heldP[x]
  BY DEF Local, RequestShape
<1>5. IdleShape(x)' /\ RequestShape(x)' /\ CancelFacts(x)'
  BY <1>4 DEF Local, IdleShape, RequestShape, CancelFacts
<1>6. MemoryFacts(x)'
  BY <1>4, FreeIsNeither DEF Local, MemoryFacts
<1>7. LearnerFacts(x)'
  BY <1>4, FreeIsNeither DEF Local, LearnerFacts, Reading, FinishedBy
<1> QED BY <1>1, <1>2, <1>3, <1>5, <1>6, <1>7, LocalStep DEF Local

-----------------------------------------------------------------------------
(* Starting a step, advancing and reading its blocks.                      *)

\* What _load_mutable remembers is a committed row.
LEMMA LearnStep ==
    ASSUME IInv, NEW x \in Sessions, NEW kind \in {"start", "advance", "read"},
           NEW s \in Steps, NEW at \in 0..(Blocks - 1), Learn(x, kind, s, at)
    PROVE  IInv'
<1> USE DEF IInv, TypeOK, Learn, Goto, dbVars
<1>1. /\ pc[x] = "idle" /\ pc'[x] = "readAssignment" /\ req'[x] \in Request
      /\ req'[x].kind = kind /\ req'[x].step = s
      /\ req' = [req EXCEPT ![x] = req'[x]]
      /\ seenP'[x] = progress[s] /\ progress[s] # Gone /\ progress[s] \in Row
      /\ kind # "start" => s \notin Quizzes
  BY DEF Request, AllKinds, AllClients, Scores
<1>2. TypeOK'
  BY <1>1 DEF Points
<1>3. OthersStill(x)
  BY DEF OthersStill
<1>4. LocksExclusive'
  BY <1>3, LocksKept
<1>5. /\ seenA'[x] = Free /\ heldA'[x] = Free /\ \A r \in Steps : heldP'[x][r] = Free
  BY <1>1 DEF Local, IdleShape
<1>6. IdleShape(x)' /\ RequestShape(x)' /\ CancelFacts(x)'
  BY <1>1 DEF IdleShape, RequestShape, CancelFacts
<1>7. MemoryFacts(x)'
  BY <1>1, <1>5, FreeIsNeither DEF MemoryFacts, StoredFacts, WorkShowsOnAssignment
<1>8. LearnerFacts(x)'
  BY <1>1, <1>5, FreeIsNeither DEF LearnerFacts
<1> QED BY <1>2, <1>3, <1>4, <1>6, <1>7, <1>8, LocalStep DEF Local

\* A learner's request goes on only when the assignment it reads is open.
LEMMA ReadAssignmentStep ==
    ASSUME IInv, NEW x \in Sessions, ReadAssignment(x)
    PROVE  IInv'
<1>1. CASE RollBack(x)
  BY <1>1, RollBackStep
<1>2. CASE ~RollBack(x)
  <2>a. /\ pc[x] = "readAssignment" /\ assignment \notin {"cancelled", "completed"}
        /\ pc' = [pc EXCEPT ![x] = IF seenP[x].st = "not_started" THEN "startStep"
                                   ELSE Resume(x)]
        /\ seenA' = [seenA EXCEPT ![x] = assignment]
        /\ UNCHANGED <<req, seenP, heldA, heldP, dbVars>>
    BY <1>2 DEF ReadAssignment, Goto
  <2> USE <2>a DEF IInv, TypeOK, dbVars
  <2>1. /\ pc[x] = "readAssignment" /\ req'[x] = req[x] /\ req[x] \in Request
        /\ req[x].kind \in {"start", "advance", "read"}
        /\ seenA'[x] = assignment /\ seenP'[x] = seenP[x] /\ seenP[x] # Free
    BY DEF Local, RequestShape, MemoryFacts
  <2>2. /\ pc'[x] \in {"startStep", "advance", "rollback", "commit"}
        /\ pc'[x] = "startStep" <=> seenP[x].st = "not_started"
        /\ pc'[x] = "advance" => req[x].kind = "advance"
        /\ pc'[x] = "rollback" => req[x].kind = "read"
    BY DEF Resume
  <2>3. TypeOK'
    <3>1. pc' \in [Sessions -> Points]
      BY <2>2 DEF Points
    <3>2. seenA' \in [Sessions -> AssignmentStatus \cup {Free}]
      OBVIOUS
    <3> QED BY <3>1, <3>2
  <2>4. OthersStill(x)
    BY DEF OthersStill
  <2>5. LocksExclusive'
    BY <2>4, LocksKept
  <2>6. /\ heldA'[x] = Free /\ heldA[x] = Free /\ \A r \in Steps : heldP'[x][r] = Free
    BY <2>1 DEF Local, LearnerFacts, Reading
  <2>7. IdleShape(x)' /\ RequestShape(x)' /\ CancelFacts(x)'
    BY <2>1, <2>2 DEF Local, IdleShape, RequestShape, CancelFacts
  <2>8. MemoryFacts(x)'
    BY <2>1, <2>2, <2>6, AssignmentAssumption DEF Local, MemoryFacts
  <2>9. LearnerFacts(x)'
    BY <2>1, <2>2, <2>6, FreeIsNeither DEF LearnerFacts
  <2> QED BY <2>3, <2>4, <2>5, <2>7, <2>8, <2>9, LocalStep DEF Local
<1> QED BY <1>1, <1>2

\* _ensure_started writes a row that it saw untouched.
LEMMA StartStepStep ==
    ASSUME IInv, NEW x \in Sessions, StartStep(x)
    PROVE  IInv'
<1>1. CASE RollBack(x)
  BY <1>1, RollBackStep
<1>2. CASE ~RollBack(x)
  <2> DEFINE s == req[x].step
             row == StartedRow(x)
  <2>1. /\ pc[x] = "startStep" /\ ProgressFree(x, s) /\ progress[s] # Gone
        /\ heldP' = [heldP EXCEPT ![x][s] = row]
        /\ pc' = [pc EXCEPT ![x] = IF Opens(x) THEN "openStarted" ELSE AfterStart(x)]
        /\ UNCHANGED <<req, seenA, seenP, heldA, dbVars>>
    BY <1>2 DEF StartStep, Goto
  <2> HIDE DEF row
  <2> USE <2>1 DEF IInv, TypeOK, dbVars
  <2>2. /\ req[x] \in Request /\ req[x].kind \in {"start", "advance", "read"} /\ s \in Steps
        /\ seenA[x] # Free /\ heldA[x] = Free /\ \A r \in Steps : heldP[x][r] = Free
    BY DEF Local, RequestShape, MemoryFacts, LearnerFacts, Reading, Request
  <2> HIDE DEF s
  <2>3. /\ seenP[x] \in Row /\ seenP[x].tries = 0
    BY DEF Local, MemoryFacts
  <2>4. row \in Row /\ row.st = "in_progress" /\ row.tries = 0
    BY <2>3 DEF row, StartedRow, Row, ProgressStatus
  <2>5. /\ heldP'[x][s] = row /\ heldP' \in [Sessions -> [Steps -> Row \cup {Gone, Free}]]
        /\ \A r \in Steps \ {s} : heldP'[x][r] = Free
        /\ pc'[x] \in {"openStarted", "rollback", "commit"}
        /\ (pc'[x] = "openStarted" <=> Opens(x))
        /\ (pc'[x] = "rollback" => req[x].kind = "read")
        /\ req'[x] = req[x] /\ seenA'[x] = seenA[x] /\ seenP'[x] = seenP[x] /\ heldA'[x] = Free
    BY <2>2, <2>4 DEF AfterStart
  <2>6. TypeOK'
    BY <2>5 DEF Points
  <2>7. OthersStill(x)
    BY DEF OthersStill
  <2>8. LocksExclusive'
    BY <2>2, <2>5, <2>7, LocksKept
  <2>9. IdleShape(x)' /\ RequestShape(x)' /\ CancelFacts(x)'
    BY <2>2, <2>5 DEF Local, IdleShape, RequestShape, CancelFacts
  <2>10. MemoryFacts(x)'
    BY <2>5 DEF Local, MemoryFacts
  <2>11. ~Opens(x) => assignment # "pending"
    BY <2>2 DEF Local, MemoryFacts, Opens
  <2>12. LearnerFacts(x)'
    BY <2>2, <2>4, <2>5, <2>11, FreeIsNeither DEF LearnerFacts, Reading, s
  <2> QED BY <2>6, <2>7, <2>8, <2>9, <2>10, <2>12, LocalStep DEF Local
<1> QED BY <1>1, <1>2

\* The assignment is opened by a session that holds the row it started.
LEMMA OpenStartedStep ==
    ASSUME IInv, NEW x \in Sessions, OpenStarted(x)
    PROVE  IInv'
<1> USE DEF IInv, TypeOK, OpenStarted, WriteAssignment, Goto, dbVars
<1>1. /\ pc[x] = "openStarted" /\ pc'[x] \in {"rollback", "commit"} /\ req'[x] = req[x]
      /\ req[x].kind \in {"start", "advance", "read"}
      /\ pc'[x] = "rollback" => req[x].kind = "read"
      /\ seenA'[x] = "in_progress" /\ heldA'[x] = "in_progress"
      /\ seenP'[x] = seenP[x] /\ heldP'[x] = heldP[x]
  BY DEF Local, RequestShape, AfterStart
<1>2. TypeOK'
  BY <1>1 DEF Points, AssignmentStatus
<1>3. OthersStill(x)
  BY DEF OthersStill
<1>4. LocksExclusive'
  BY <1>3, LocksKept
<1>5. IdleShape(x)' /\ RequestShape(x)' /\ CancelFacts(x)'
  BY <1>1 DEF Local, IdleShape, RequestShape, CancelFacts
<1>6. MemoryFacts(x)'
  BY <1>1, FreeIsNeither DEF Local, MemoryFacts
<1>7. LearnerFacts(x)'
  BY <1>1, FreeIsNeither DEF Local, LearnerFacts, Reading, FinishedBy
<1> QED BY <1>2, <1>3, <1>4, <1>5, <1>6, <1>7, LocalStep DEF Local

\* Leaving the unit of work that started the step gives its locks up.
LEMMA LeaveReadStep ==
    ASSUME IInv, NEW x \in Sessions, LeaveRead(x)
    PROVE  IInv'
<1> USE DEF IInv, TypeOK, LeaveRead, Goto, dbVars
<1>1. /\ pc[x] = "rollback" /\ pc'[x] = "complete" /\ req'[x] = req[x]
      /\ req[x] \in Request /\ req[x].kind = "read" /\ req[x].step \notin Quizzes
      /\ seenA'[x] = Free /\ seenP'[x] = Free /\ heldA'[x] = Free
      /\ \A r \in Steps : heldP'[x][r] = Free
  BY DEF Local, RequestShape
<1>2. TypeOK'
  <2>1. /\ pc' \in [Sessions -> Points] /\ seenA' \in [Sessions -> AssignmentStatus \cup {Free}]
        /\ seenP' \in [Sessions -> Row \cup {Free}]
        /\ heldA' \in [Sessions -> AssignmentStatus \cup {Free}]
    BY DEF Points
  <2>2. heldP' \in [Sessions -> [Steps -> Row \cup {Gone, Free}]]
    OBVIOUS
  <2> QED BY <2>1, <2>2
<1>3. OthersStill(x)
  BY DEF OthersStill
<1>4. LocksExclusive'
  BY <1>1, <1>3, LocksKept
<1>5. IdleShape(x)' /\ RequestShape(x)' /\ CancelFacts(x)'
  BY <1>1 DEF IdleShape, RequestShape, CancelFacts
<1>6. MemoryFacts(x)'
  BY <1>1 DEF MemoryFacts
<1>7. LearnerFacts(x)'
  BY <1>1, FreeIsNeither DEF LearnerFacts
<1> QED BY <1>2, <1>3, <1>4, <1>5, <1>6, <1>7, LocalStep DEF Local

\* The cursor is written on a row that others may have moved, never unstarted.
LEMMA AdvanceStep ==
    ASSUME IInv, NEW x \in Sessions, Advance(x)
    PROVE  IInv'
<1>1. CASE RollBack(x)
  BY <1>1, RollBackStep
<1>2. CASE ~RollBack(x)
  <2> DEFINE s == req[x].step
             row == [seenP[x] EXCEPT !.st = progress[s].st, !.at = @ + 1]
  <2>1. /\ pc[x] = "advance" /\ ProgressFree(x, s) /\ progress[s] # Gone
        /\ heldP' = [heldP EXCEPT ![x][s] = row]
        /\ pc' = [pc EXCEPT ![x] = "commit"]
        /\ UNCHANGED <<req, seenA, seenP, heldA, dbVars>>
    BY <1>2 DEF Advance, Goto
  <2> HIDE DEF row
  <2> USE <2>1 DEF IInv, TypeOK, dbVars
  <2>2. /\ req[x] \in Request /\ req[x].kind = "advance" /\ s \in Steps
        /\ heldA[x] = Free /\ \A r \in Steps : heldP[x][r] = Free
        /\ seenP[x] \in Row /\ progress[s] \in Row
        /\ assignment # "pending" /\ progress[s].st # "not_started"
    BY DEF Local, RequestShape, MemoryFacts, LearnerFacts, Reading, Request
  <2> HIDE DEF s
  <2>3. row \in Row /\ row.st # "not_started"
    <3>1. progress[s].st \in ProgressStatus /\ seenP[x].at + 1 \in Nat
      BY <2>2 DEF Row
    <3>2. row.st = progress[s].st
      BY <2>2 DEF row, Row
    <3>3. row \in Row
      BY <2>2, <3>1 DEF row, Row
    <3> QED BY <2>2, <3>2, <3>3
  <2>4. /\ heldP'[x][s] = row /\ heldP' \in [Sessions -> [Steps -> Row \cup {Gone, Free}]]
        /\ \A r \in Steps \ {s} : heldP'[x][r] = Free
        /\ pc'[x] = "commit"
        /\ req'[x] = req[x] /\ seenA'[x] = seenA[x] /\ seenP'[x] = seenP[x] /\ heldA'[x] = Free
    BY <2>2, <2>3
  <2>5. TypeOK'
    BY <2>4 DEF Points
  <2>6. OthersStill(x)
    BY DEF OthersStill
  <2>7. LocksExclusive'
    BY <2>2, <2>4, <2>6, LocksKept
  <2>8. IdleShape(x)' /\ RequestShape(x)' /\ CancelFacts(x)'
    BY <2>2, <2>4 DEF Local, IdleShape, RequestShape, CancelFacts
  <2>9. MemoryFacts(x)'
    BY <2>4 DEF Local, MemoryFacts
  <2>10. LearnerFacts(x)'
    BY <2>2, <2>3, <2>4, FreeIsNeither DEF LearnerFacts, Reading, s
  <2> QED BY <2>5, <2>6, <2>7, <2>8, <2>9, <2>10, LocalStep DEF Local
<1> QED BY <1>1, <1>2

-----------------------------------------------------------------------------
(* Cancelling.                                                             *)

\* A cancellation begins with nothing deleted.
LEMMA CancelStep ==
    ASSUME IInv, NEW x \in Sessions, Cancel(x)
    PROVE  IInv'
<1> USE DEF IInv, TypeOK, Cancel, Goto, dbVars
<1>1. /\ pc[x] = "idle" /\ pc'[x] = "discard" /\ req'[x] \in Request /\ req'[x].kind = "cancel"
      /\ req' = [req EXCEPT ![x] = req'[x]]
      /\ seenA'[x] = assignment
  BY AssignmentAssumption DEF Request, AllKinds, AllClients, Scores, Steps
<1>2. TypeOK'
  BY <1>1 DEF Points
<1>3. OthersStill(x)
  BY DEF OthersStill
<1>4. LocksExclusive'
  BY <1>3, LocksKept
<1>5. /\ seenP'[x] = Free /\ heldA'[x] = Free /\ \A r \in Steps : heldP'[x][r] = Free
  BY <1>1 DEF Local, IdleShape
<1>6. IdleShape(x)' /\ RequestShape(x)' /\ LearnerFacts(x)'
  BY <1>1 DEF IdleShape, RequestShape, LearnerFacts
<1>7. MemoryFacts(x)'
  BY <1>1, <1>5 DEF MemoryFacts
<1>8. CancelFacts(x)'
  BY <1>1, <1>5 DEF CancelFacts
<1> QED BY <1>2, <1>3, <1>4, <1>6, <1>7, <1>8, LocalStep DEF Local

\* The rows deleted so far are the first ones there were.
LEMMA DiscardStep ==
    ASSUME IInv, NEW x \in Sessions, Discard(x)
    PROVE  IInv'
<1> USE DEF IInv, TypeOK, dbVars
<1>1. /\ pc[x] = "discard" /\ req[x] \in Request /\ req[x].kind = "cancel" /\ heldA[x] = Free
      /\ UNCHANGED <<req, seenA, seenP, heldA, dbVars>>
  BY DEF Discard, Local, RequestShape, CancelFacts
<1> DEFINE Deletes(s) == /\ \A r \in Undiscarded(x) : s <= r
                         /\ ProgressFree(x, s)
                         /\ heldP' = [heldP EXCEPT ![x][s] = Gone]
                         /\ UNCHANGED pc
<1>2. CASE Undiscarded(x) = {} /\ Goto(x, "markCancelled") /\ UNCHANGED heldP
  <2> USE <1>1, <1>2 DEF Goto
  <2>1. TypeOK' /\ pc'[x] = "markCancelled"
    BY DEF Points
  <2>2. OthersStill(x)
    BY DEF OthersStill
  <2>3. LocksExclusive'
    BY <2>2, LocksKept
  <2>4. IdleShape(x)' /\ RequestShape(x)' /\ LearnerFacts(x)'
    BY <2>1 DEF IdleShape, RequestShape, LearnerFacts
  <2>5. MemoryFacts(x)'
    BY <2>1 DEF Local, MemoryFacts
  <2>6. \A s \in Steps : heldP[x][s] = Gone \/ progress[s] = Gone
    BY DEF Local, CancelFacts, Undiscarded
  <2>7. CancelFacts(x)'
    BY <2>1, <2>6 DEF Local, CancelFacts
  <2> QED BY <2>1, <2>2, <2>3, <2>4, <2>5, <2>7, LocalStep DEF Local
<1>3. ASSUME NEW s \in Undiscarded(x), Deletes(s) PROVE IInv'
  <2> USE <1>1, <1>3
  <2>1. /\ s \in Steps /\ progress[s] # Gone
        /\ \A r \in Steps : r < s => heldP[x][r] # Free \/ progress[r] = Gone
    <3>1. s \in Steps /\ progress[s] # Gone
      BY DEF Undiscarded
    <3>2. ASSUME NEW r \in Steps, r < s PROVE heldP[x][r] # Free \/ progress[r] = Gone
      <4>1. r \in Undiscarded(x) => s <= r
        OBVIOUS
      <4>2. ~(s <= r)
        BY <3>1, <3>2 DEF Steps
      <4> QED BY <4>1, <4>2 DEF Undiscarded
    <3> QED BY <3>1, <3>2
  <2>2. /\ heldP'[x][s] = Gone /\ \A r \in Steps \ {s} : heldP'[x][r] = heldP[x][r]
        /\ heldP' \in [Sessions -> [Steps -> Row \cup {Gone, Free}]]
        /\ \A y \in Sessions \ {x} : heldP'[y] = heldP[y]
    BY <2>1
  <2>3. TypeOK'
    BY <2>2
  <2>4. OthersStill(x)
    BY <2>2 DEF OthersStill
  <2>5. LocksExclusive'
    BY <2>2, <2>4, LocksKept
  <2>6. IdleShape(x)' /\ RequestShape(x)' /\ LearnerFacts(x)'
    BY DEF Local, IdleShape, RequestShape, LearnerFacts
  <2>7. MemoryFacts(x)'
    BY DEF Local, MemoryFacts
  <2>8. \A q \in Steps : heldP'[x][q] # Free => heldP'[x][q] = Gone /\ progress[q] # Gone
    BY <2>1, <2>2 DEF Local, CancelFacts
  <2>9. \A r, q \in Steps :
            heldP'[x][q] # Free /\ r < q => heldP'[x][r] # Free \/ progress[r] = Gone
    BY <2>1, <2>2, FreeIsNeither DEF Local, CancelFacts
  <2>10. CancelFacts(x)'
    BY <2>8, <2>9 DEF CancelFacts
  <2> QED BY <2>3, <2>4, <2>5, <2>6, <2>7, <2>10, LocalStep DEF Local
<1> QED BY <1>2, <1>3 DEF Discard

\* The assignment is marked once every row is deleted.
LEMMA MarkCancelledStep ==
    ASSUME IInv, NEW x \in Sessions, MarkCancelled(x)
    PROVE  IInv'
<1> USE DEF IInv, TypeOK, MarkCancelled, WriteAssignment, Goto, dbVars
<1>1. /\ pc[x] = "markCancelled" /\ pc'[x] = "commit" /\ req'[x] = req[x]
      /\ req[x] \in Request /\ req[x].kind = "cancel"
      /\ seenA'[x] = "cancelled" /\ heldA'[x] = "cancelled"
      /\ seenP'[x] = seenP[x] /\ heldP'[x] = heldP[x]
  BY DEF Local, RequestShape
<1>2. TypeOK'
  BY <1>1 DEF Points, AssignmentStatus
<1>3. OthersStill(x)
  BY DEF OthersStill
<1>4. LocksExclusive'
  BY <1>3, LocksKept
<1>5. IdleShape(x)' /\ RequestShape(x)' /\ LearnerFacts(x)'
  BY <1>1 DEF IdleShape, RequestShape, LearnerFacts
<1>6. MemoryFacts(x)'
  BY <1>1, FreeIsNeither DEF Local, MemoryFacts
<1>7. CancelFacts(x)'
  BY <1>1 DEF Local, CancelFacts
<1> QED BY <1>2, <1>3, <1>4, <1>5, <1>6, <1>7, LocalStep DEF Local

-----------------------------------------------------------------------------
(* Committing.                                                             *)

\* What a learner's request commits: its own row, if it wrote one, and then
\* perhaps the assignment, which was not cancelled.
LEMMA LearnerCommits ==
    ASSUME IInv, NEW x \in Sessions, Commit(x), req[x].kind # "cancel"
    PROVE  /\ assignment' # assignment => assignment # "cancelled" /\ heldA[x] # Free
           /\ assignment' = IF heldA[x] = Free THEN assignment ELSE heldA[x]
           /\ heldA[x] # Free => heldA[x] \in {"in_progress", "completed"}
           /\ \A s \in Steps : heldP[x][s] # Free =>
                /\ s = req[x].step
                /\ heldP[x][s] \in Row /\ heldP[x][s].st # "not_started"
                /\ progress[s] # Gone /\ progress'[s] = heldP[x][s]
                /\ assignment' # "pending" /\ assignment' # "cancelled"
           /\ \A s \in Steps : heldP[x][s] = Free => progress'[s] = progress[s]
<1> USE DEF IInv, TypeOK, Commit
<1>1. pc[x] = "commit" /\ req[x] \in Request /\ req[x].step \in Steps
  BY DEF Local, RequestShape, Request
<1>2. heldA[x] # Free => heldA[x] \in {"in_progress", "completed"} /\ heldP[x][req[x].step] # Free
  BY <1>1 DEF Local, LearnerFacts
<1>3. \A s \in Steps : heldP[x][s] # Free =>
            /\ s = req[x].step
            /\ heldP[x][s] \in Row /\ heldP[x][s].st # "not_started"
            /\ progress[s] # Gone
            /\ heldA[x] = Free => assignment # "pending"
  BY <1>1 DEF Local, LearnerFacts
<1>4. \A s \in Steps : progress'[s] = IF heldP[x][s] = Free THEN progress[s] ELSE heldP[x][s]
  OBVIOUS
<1>5. heldA[x] # Free => assignment # "cancelled"
  BY <1>1, <1>2, <1>3 DEF CancelledIsClean
<1>6. \A s \in Steps : heldP[x][s] # Free => assignment # "cancelled"
  BY <1>3 DEF CancelledIsClean
<1> QED BY <1>2, <1>3, <1>4, <1>5, <1>6

\* What a cancellation commits: the assignment, with no row left.
LEMMA CancelCommits ==
    ASSUME IInv, NEW x \in Sessions, Commit(x), req[x].kind = "cancel"
    PROVE  /\ assignment' = "cancelled"
           /\ \A s \in Steps : progress'[s] = Gone /\ outbound'[s] = outbound[s]
           /\ \A s \in Steps : heldP[x][s] = Gone \/ progress[s] = Gone
           /\ earned' = earned
<1> USE DEF IInv, TypeOK, Commit
<1>1. /\ pc[x] = "commit" /\ heldA[x] = "cancelled"
      /\ \A s \in Steps : heldP[x][s] # Free => heldP[x][s] = Gone
      /\ \A s \in Steps : heldP[x][s] = Gone \/ progress[s] = Gone
  BY DEF Local, CancelFacts
<1>2. assignment' = "cancelled"
  BY <1>1, FreeIsNeither
<1>3. \A s \in Steps : progress'[s] = Gone
  BY <1>1, FreeIsNeither
<1>4. \A s \in Steps : outbound'[s] = outbound[s]
  BY <1>1 DEF Announced
<1>5. earned' = earned
  BY <1>1
<1> QED BY <1>1, <1>2, <1>3, <1>4, <1>5

\* What one session commits, another can live with: it holds none of the rows.
LEMMA CommitMovesOn ==
    ASSUME IInv, NEW x \in Sessions, Commit(x), NEW y \in Sessions, y # x
    PROVE  MovesOnUnder(y)
<1> USE DEF IInv, TypeOK
<1>1. \A s \in Steps : heldP[y][s] # Free => heldP[x][s] = Free
  BY DEF LocksExclusive
<1>2. earned \subseteq earned'
  BY DEF Commit
<1>3. CASE req[x].kind = "cancel"
  <2>1. ASSUME NEW s \in Steps, heldP[y][s] # Free PROVE progress[s] # Gone
    <3>1. Local(y) /\ pc[y] # "idle"
      BY <2>1 DEF Local, IdleShape
    <3> HIDE DEF IInv, TypeOK
    <3>2. CASE req[y].kind = "cancel"
      BY <2>1, <3>1, <3>2 DEF Local, CancelFacts
    <3>3. CASE req[y].kind # "cancel"
      BY <2>1, <3>1, <3>3 DEF Local, LearnerFacts
    <3> QED BY <3>2, <3>3
  <2>2. \A s \in Steps : heldP[y][s] = Free
    BY <1>1, <1>3, <2>1, CancelCommits, FreeIsNeither
  <2> QED BY <1>2, <1>3, <2>2, CancelCommits DEF MovesOnUnder
<1>4. CASE req[x].kind # "cancel"
  <2>1. assignment' = "pending" => assignment = "pending"
    BY <1>4, LearnerCommits
  <2>2. ASSUME NEW s \in Steps, heldP[y][s] # Free
        PROVE  progress'[s] = progress[s] /\ outbound'[s] = outbound[s]
    BY <1>1, <1>4, <2>2, LearnerCommits DEF Commit, Announced
  <2>3. ASSUME NEW s \in Steps, progress'[s] # Gone
        PROVE  /\ progress[s] # Gone
               /\ progress[s].st # "not_started" => progress'[s].st # "not_started"
    BY <1>4, <2>3, LearnerCommits
  <2> QED BY <1>2, <2>1, <2>2, <2>3 DEF MovesOnUnder
<1> QED BY <1>3, <1>4

\* The rows and the messages stay what they are.
LEMMA CommitTypeOK ==
    ASSUME IInv, NEW x \in Sessions, Commit(x)
    PROVE  TypeOK'
<1> USE DEF IInv, TypeOK
<1>1. assignment' \in AssignmentStatus /\ earned' \subseteq Steps
  BY DEF Commit
<1>2. progress' \in [Steps -> Row \cup {Gone}]
  BY DEF Commit
<1>3. outbound' \in [Steps -> [1..MaxTries -> Scores \cup {"none"}]]
  <2>1. ASSUME NEW s \in Steps, Announced(x, s) PROVE heldP[x][s].last \in Scores \cup {"none"}
    BY <2>1 DEF Announced, Row
  <2>2. ASSUME NEW s \in Steps PROVE outbound'[s] \in [1..MaxTries -> Scores \cup {"none"}]
    <3>1. /\ outbound[s] \in [1..MaxTries -> Scores \cup {"none"}]
          /\ outbound'[s] = IF Announced(x, s)
                            THEN [outbound[s] EXCEPT ![heldP[x][s].tries] =
                                      IF @ = "none" THEN heldP[x][s].last ELSE @]
                            ELSE outbound[s]
      BY DEF Commit
    <3> HIDE DEF IInv, TypeOK
    <3>2. CASE Announced(x, s)
      BY <2>1, <3>1, <3>2
    <3>3. CASE ~Announced(x, s)
      BY <3>1, <3>3
    <3> QED BY <3>2, <3>3
  <2> QED BY <2>2 DEF Commit
<1> QED BY <1>1, <1>2, <1>3, EndLocal DEF Commit

\* A commit that changes a quiz row with attempts is that of a submission: of
\* one made in the bot, with its message, or of one made in the web client.
LEMMA CommitTellsResult ==
    ASSUME IInv, NEW x \in Sessions, Commit(x), NEW s \in Quizzes,
           progress'[s] \notin {progress[s], Gone}, progress'[s].tries > 0
    PROVE  /\ req[x].kind = "complete" /\ req[x].step = s
           /\ req[x].via = "web" \/ outbound'[s][progress'[s].tries] = progress'[s].last
<1> USE DEF IInv, TypeOK
<1>1. s \in Steps
  BY AssignmentAssumption
<1>2. req[x].kind # "cancel"
  BY <1>1, CancelCommits
<1>3. heldP[x][s] # Free
  BY <1>1, <1>2, LearnerCommits
<1>4. pc[x] = "commit" /\ s = req[x].step /\ progress'[s] = heldP[x][s] /\ heldP[x][s] \in Row
  BY <1>1, <1>2, <1>3, LearnerCommits DEF Commit
<1>5. /\ req[x] \in Request /\ req[x].kind = "complete"
      /\ req[x].via \in {"telegram", "web"}
  BY <1>1, <1>2, <1>3, <1>4
  DEF Local, RequestShape, LearnerFacts, Request, AllKinds, AllClients
<1>6. CASE req[x].via = "telegram"
  <2>1. /\ heldP[x][s].tries \in 1..MaxTries
        /\ outbound[s][heldP[x][s].tries] \in {"none", heldP[x][s].last}
    BY <1>1, <1>3, <1>4, <1>5, <1>6 DEF Local, LearnerFacts
  <2>2. Announced(x, s)
    BY <1>3, <1>4, <1>5, <1>6, FreeIsNeither DEF Announced
  <2>3. outbound'[s][heldP[x][s].tries] = heldP[x][s].last
    BY <1>1, <2>1, <2>2 DEF Commit
  <2> QED BY <1>4, <1>5, <2>3
<1> QED BY <1>4, <1>5, <1>6

\* A commit changes what others read, and nothing they rely on.
LEMMA CommitStep ==
    ASSUME IInv, NEW x \in Sessions, Commit(x)
    PROVE  IInv'
<1> USE DEF IInv, TypeOK
<1>1. TypeOK'
  BY CommitTypeOK
<1>2. LocksExclusive' /\ Local(x)' /\ OthersStill(x)
  BY EndLocal DEF Commit
<1>3. ASSUME NEW y \in Sessions PROVE Local(y)'
  BY <1>2, CommitMovesOn, OtherLocal DEF OthersStill
<1>4. CASE req[x].kind = "cancel"
  <2>1. StoredFacts' /\ CancelledIsClean' /\ WorkShowsOnAssignment' /\ CompletedWasEarned'
    BY <1>4, CancelCommits
    DEF StoredFacts, CancelledIsClean, WorkShowsOnAssignment, CompletedWasEarned
  <2> QED BY <1>1, <1>2, <1>3, <2>1
<1>5. CASE req[x].kind # "cancel"
  <2>1. StoredFacts'
    <3>1. ASSUME NEW s \in Steps, (progress[s] # Gone /\ progress[s].st = "completed")'
          PROVE  s \in earned'
      BY <1>5, <3>1, LearnerCommits DEF StoredFacts, Commit
    <3>2. ASSUME NEW s \in Steps, (progress[s] # Gone /\ progress[s].st = "not_started")'
          PROVE  (progress[s].tries = 0)'
      BY <1>5, <3>2, LearnerCommits DEF StoredFacts
    <3> QED BY <3>1, <3>2 DEF StoredFacts
  <2>2. CancelledIsClean'
    BY <1>5, LearnerCommits, FreeIsNeither DEF CancelledIsClean
  <2>3. WorkShowsOnAssignment'
    BY <1>5, LearnerCommits DEF WorkShowsOnAssignment
  <2>4. CompletedWasEarned'
    <3>1. earned' = earned \cup FinishedBy(x)
      BY DEF Commit, FinishedBy
    <3>2. heldA[x] = "completed" => Needed \subseteq earned'
      BY <1>5, <3>1 DEF Commit, Local, LearnerFacts
    <3>3. assignment = "completed" => Needed \subseteq earned'
      BY <3>1 DEF CompletedWasEarned, Needed
    <3> QED BY <1>5, <3>2, <3>3, LearnerCommits DEF CompletedWasEarned, Needed
  <2> QED BY <1>1, <1>2, <1>3, <2>1, <2>2, <2>3, <2>4
<1> QED BY <1>4, <1>5

-----------------------------------------------------------------------------
(* The invariant and what follows from it.                                 *)

\* An assignment begins with untouched rows and no request under way.
LEMMA InitIInv == Init => IInv
<1> SUFFICES ASSUME Init PROVE IInv
  OBVIOUS
<1> USE DEF Init
<1>1. TypeOK
  BY DEF TypeOK, AssignmentStatus, Row, ProgressStatus, Scores, Points
<1>2. LocksExclusive /\ StoredFacts /\ CompletedWasEarned /\ WorkShowsOnAssignment
  BY AssignmentAssumption
  DEF LocksExclusive, StoredFacts, CompletedWasEarned, WorkShowsOnAssignment
<1>3. CancelledIsClean
  <2>1. \A s \in Steps : progress[s] \in Row
    BY DEF Row, ProgressStatus, Scores
  <2> QED BY <2>1, FreeIsNeither DEF CancelledIsClean
<1>4. ASSUME NEW x \in Sessions PROVE Local(x)
  BY DEF Local, IdleShape, RequestShape, MemoryFacts, LearnerFacts, CancelFacts
<1> QED BY <1>1, <1>2, <1>3, <1>4 DEF IInv

\* Every step of a request, and every step of none, keeps the invariant.
LEMMA NextIInv == IInv /\ [Next]_vars => IInv'
<1> SUFFICES ASSUME IInv, [Next]_vars PROVE IInv'
  OBVIOUS
<1>1. CASE UNCHANGED vars
  <2>1. ASSUME NEW y \in Sessions PROVE Local(y)'
    <3>1. MovesOnUnder(y)
      BY <1>1 DEF MovesOnUnder, vars, dbVars
    <3> QED BY <1>1, <3>1, OtherLocal DEF IInv, TypeOK, vars, sessionVars
  <2>2. TypeOK' /\ LocksExclusive' /\ StoredFacts'
    BY <1>1 DEF IInv, TypeOK, LocksExclusive, StoredFacts, vars, dbVars, sessionVars
  <2>3. CancelledIsClean' /\ CompletedWasEarned' /\ WorkShowsOnAssignment'
    BY <1>1 DEF IInv, CancelledIsClean, CompletedWasEarned, WorkShowsOnAssignment, vars, dbVars
  <2> QED BY <2>1, <2>2, <2>3 DEF IInv
<1>2. ASSUME NEW x \in Sessions, Arrive(x) PROVE IInv'
  <2>1. ASSUME NEW s \in Quizzes, NEW score \in Scores, NEW via \in Clients \ {"bare"},
               Complete(x, s, score, via)
        PROVE  IInv'
    BY <1>2, <2>1, CompleteStep, AssignmentAssumption
  <2>2. ASSUME NEW s \in Steps \ Quizzes, NEW via \in Clients, Complete(x, s, "pass", via)
        PROVE  IInv'
    BY <1>2, <2>2, CompleteStep, AssignmentAssumption DEF Scores
  <2> QED BY <1>2, <2>1, <2>2, LearnStep, CancelStep DEF Arrive
<1>3. ASSUME NEW x \in Sessions, Completing(x) PROVE IInv'
  BY <1>3, CompleteAfterReadStep, ReadProgressStep, WriteProgressStep, OpenAssignmentStep,
     TallyStep, CloseAssignmentStep DEF Completing
<1>4. ASSUME NEW x \in Sessions, Learning(x) PROVE IInv'
  BY <1>4, ReadAssignmentStep, StartStepStep, OpenStartedStep, LeaveReadStep, AdvanceStep
  DEF Learning
<1>5. ASSUME NEW x \in Sessions, Cancelling(x) PROVE IInv'
  BY <1>5, DiscardStep, MarkCancelledStep DEF Cancelling
<1>6. ASSUME NEW x \in Sessions, Commit(x) \/ Lose(x) PROVE IInv'
  BY <1>6, CommitStep, RollBackStep DEF Lose
<1> QED BY <1>1, <1>2, <1>3, <1>4, <1>5, <1>6 DEF Next, Proceed

\* The invariant holds whatever the requests and in whatever order they
\* interleave, fail and commit.
THEOREM AssignmentInvariant == Spec => []IInv
BY InitIInv, NextIInv, PTL DEF Spec

\* Every variable keeps its type.
THEOREM AssignmentTypeOK == Spec => []TypeOK
<1>1. IInv => TypeOK
  BY DEF IInv
<1> QED BY <1>1, AssignmentInvariant, PTL

\* A cancelled assignment has no progress rows, and only a cancelled one.
THEOREM AssignmentCancelledIsClean == Spec => []CancelledIsClean
<1>1. IInv => CancelledIsClean
  BY DEF IInv
<1> QED BY <1>1, AssignmentInvariant, PTL

\* A completed assignment had every required step completed.
THEOREM AssignmentCompletedWasEarned == Spec => []CompletedWasEarned
<1>1. IInv => CompletedWasEarned
  BY DEF IInv
<1> QED BY <1>1, AssignmentInvariant, PTL

\* No row is started while the assignment is pending.
THEOREM AssignmentWorkShows == Spec => []WorkShowsOnAssignment
<1>1. IInv => WorkShowsOnAssignment
  BY DEF IInv
<1> QED BY <1>1, AssignmentInvariant, PTL

\* What happens between the commits changes nothing of what is stored.
LEMMA OnlyCommits ==
    ASSUME [Next]_vars, ~(\E x \in Sessions : Commit(x))
    PROVE  UNCHANGED dbVars
<1>1. ASSUME NEW x \in Sessions, Arrive(x) \/ Completing(x) \/ Learning(x) PROVE UNCHANGED dbVars
  BY <1>1 DEF Arrive, Complete, Learn, Cancel, Completing, CompleteAfterRead, ReadProgress,
              WriteProgress, OpenAssignment, WriteAssignment, Tally, CloseAssignment, Learning,
              ReadAssignment, StartStep, OpenStarted, LeaveRead, Advance, RollBack
<1>2. ASSUME NEW x \in Sessions, Cancelling(x) \/ Lose(x) PROVE UNCHANGED dbVars
  BY <1>2 DEF Cancelling, Discard, MarkCancelled, WriteAssignment, Lose, RollBack
<1>3. CASE UNCHANGED vars
  BY <1>3 DEF vars
<1> QED BY <1>1, <1>2, <1>3 DEF Next, Proceed

\* An attempt made in the bot is told the verdict it stores, and only one made
\* in the web client stores a verdict without a message.
THEOREM AssignmentResultTold == Spec => ResultToldIsStored
<1>1. ASSUME IInv, [Next]_vars
      PROVE  \A s \in Quizzes :
                 progress'[s] \notin {progress[s], Gone} /\ progress'[s].tries > 0 =>
                     \/ outbound'[s][progress'[s].tries] = progress'[s].last
                     \/ AttemptInWebClient(s)
  <2> SUFFICES ASSUME NEW s \in Quizzes,
                      progress'[s] \notin {progress[s], Gone}, progress'[s].tries > 0
               PROVE  \/ outbound'[s][progress'[s].tries] = progress'[s].last
                      \/ AttemptInWebClient(s)
    OBVIOUS
  <2>1. PICK x \in Sessions : Commit(x)
    BY <1>1, OnlyCommits DEF dbVars
  <2>2. pc[x] = "commit" /\ pc'[x] = "idle"
    BY <1>1, <2>1, EndLocal DEF Commit
  <2> QED BY <1>1, <2>1, <2>2, CommitTellsResult DEF AttemptInWebClient
<1> QED BY <1>1, AssignmentInvariant, PTL DEF Spec, ResultToldIsStored

\* Only a commit changes the assignment, and none reopens a cancelled one.
THEOREM AssignmentCancelledIsFinal == Spec => CancelledIsFinal
<1>1. ASSUME IInv, [Next]_vars PROVE assignment = "cancelled" => assignment' = "cancelled"
  <2>1. ASSUME NEW x \in Sessions, Commit(x)
        PROVE  assignment = "cancelled" => assignment' = "cancelled"
    BY <1>1, <2>1, LearnerCommits, CancelCommits
  <2> QED BY <1>1, <2>1, OnlyCommits DEF dbVars
<1> QED BY <1>1, AssignmentInvariant, PTL DEF Spec, CancelledIsFinal

\* A session that waits and holds a row is a cancellation deleting rows.
LEMMA WaitingHolder ==
    ASSUME IInv, NEW y \in Sessions, NEW z \in Sessions, WaitsFor(y, z), heldA[z] = Free,
           NEW s \in Steps, heldP[y][s] # Free
    PROVE  pc[y] = "discard" /\ req[y].kind = "cancel"
<1>1. pc[y] \notin {"openAssignment", "openStarted", "closeAssignment", "markCancelled"}
  BY DEF WaitsFor
<1>2. pc[y] \notin {"writeProgress", "startStep", "advance"}
  BY DEF IInv, Local, RequestShape, LearnerFacts, Reading
<1> QED BY <1>1, <1>2 DEF WaitsFor, IInv, Local, RequestShape

\* Sessions never wait for each other in a cycle.  A holder of the assignment
\* waits for nobody; a holder of rows that waits is a cancellation, and of two
\* cancellations the one with the first row has the others still to come.
THEOREM AssignmentNoWaitCycle == Spec => []NoWaitCycle
<1>1. ASSUME IInv PROVE NoWaitCycle
  <2> SUFFICES ASSUME NEW X \in (SUBSET Sessions) \ {{}},
                      \A x \in X : \E y \in X : WaitsFor(x, y)
               PROVE  FALSE
    BY DEF NoWaitCycle
  <2> USE <1>1 DEF IInv, TypeOK
  <2>1. ASSUME NEW y \in X PROVE heldA[y] = Free
    <3> SUFFICES ASSUME heldA[y] # Free PROVE FALSE
      OBVIOUS
    <3>1. PICK z \in X : WaitsFor(y, z)
      OBVIOUS
    <3>2. pc[y] = "closeAssignment"
      BY <3>1 DEF WaitsFor, Local, IdleShape, LearnerFacts, CancelFacts, RequestShape
    <3>3. heldA[z] # Free /\ y # z
      BY <3>1, <3>2 DEF WaitsFor
    <3> QED BY <3>3 DEF LocksExclusive
  <2>2. PICK x \in X, y \in X : WaitsFor(x, y)
    <3>1. PICK x \in X : TRUE
      OBVIOUS
    <3> QED BY <3>1
  <2>3. PICK t \in Steps : heldP[y][t] # Free
    BY <2>1, <2>2 DEF WaitsFor, Undiscarded, Local, RequestShape, Request
  <2>4. PICK z \in X : WaitsFor(y, z)
    OBVIOUS
  <2>5. pc[y] = "discard" /\ req[y].kind = "cancel"
    BY <2>1, <2>3, <2>4, WaitingHolder
  <2>6. PICK s \in Undiscarded(y) : (\A r \in Undiscarded(y) : s <= r) /\ heldP[z][s] # Free
    BY <2>4, <2>5 DEF WaitsFor
  <2>7. s \in Steps /\ heldP[y][s] = Free /\ progress[s] # Gone
    BY <2>6 DEF Undiscarded
  <2>8. pc[z] = "discard" /\ req[z].kind = "cancel"
    <3>1. PICK w \in X : WaitsFor(z, w)
      OBVIOUS
    <3> QED BY <2>1, <2>6, <2>7, <3>1, WaitingHolder
  <2>9. t < s
    <3>1. s < t => heldP[y][s] # Free \/ progress[s] = Gone
      BY <2>3, <2>5, <2>7 DEF Local, CancelFacts
    <3> QED BY <2>3, <2>7, <3>1 DEF Steps
  <2>10. heldP[z][t] # Free \/ progress[t] = Gone
    BY <2>6, <2>7, <2>8, <2>9 DEF Local, CancelFacts
  <2>11. progress[t] # Gone
    BY <2>3, <2>5 DEF Local, CancelFacts
  <2>12. y # z
    BY <2>4 DEF WaitsFor
  <2> QED BY <2>3, <2>10, <2>11, <2>12 DEF LocksExclusive
<1> QED BY <1>1, AssignmentInvariant, PTL
=============================================================================
