----------------------- MODULE AssignmentOverlapProofs -----------------------
(***************************************************************************)
(* Machine-checked proofs about AssignmentOverlap: a request that nothing  *)
(* overtook does what it would have done alone, for every program, every   *)
(* number of attempts and every set of concurrent sessions; and requests   *)
(* of which none is overtaken keep what the documents say of the           *)
(* assignment, although overlapping ones do not.                           *)
(***************************************************************************)
EXTENDS AssignmentOverlap, AssignmentProofs

IsOpen == assignment \in {"pending", "in_progress"}

\* A request has opened the assignment, or found it opened.
Opened(x) ==
    \/ assignment = "pending" /\ heldA[x] = "in_progress"
    \/ assignment = "in_progress" /\ heldA[x] = Free

RowOf(st, at, tries, last) == [st |-> st, at |-> at, tries |-> tries, last |-> last]

\* A row of which some columns are written is the row of its columns.
LEMMA RowWith ==
    ASSUME NEW r \in Row, NEW st, NEW at
    PROVE  /\ [r EXCEPT !.st = st, !.at = at] = RowOf(st, at, r.tries, r.last)
           /\ [r EXCEPT !.at = at] = RowOf(r.st, at, r.tries, r.last)
           /\ [r EXCEPT !.st = r.st, !.at = @ + 1] = RowOf(r.st, r.at + 1, r.tries, r.last)
<1> DEFINE r1 == [r EXCEPT !.st = st]
           r2 == [r EXCEPT !.st = r.st]
           r3 == [r EXCEPT !.at = at]
<1>1. /\ r1 = RowOf(st, r.at, r.tries, r.last)
      /\ r2 = RowOf(r.st, r.at, r.tries, r.last)
      /\ r3 = RowOf(r.st, at, r.tries, r.last)
  BY DEF Row, RowOf
<1> HIDE DEF r1, r2
<1>2. [r1 EXCEPT !.at = at] = RowOf(st, at, r.tries, r.last)
  BY <1>1 DEF RowOf
<1>3. [r2 EXCEPT !.at = @ + 1] = RowOf(r.st, r.at + 1, r.tries, r.last)
  BY <1>1 DEF RowOf
<1> QED BY <1>1, <1>2, <1>3 DEF r1, r2

\* The row complete_step writes when nothing has overtaken the request.
Completion(x) ==
    LET s == req[x].step
        n == progress[s].tries + 1
    IN  /\ progress[s] # Gone
        /\ progress[s].st # "completed"
        /\ req[x].kind \in {"complete", "read"}
        /\ s \in Quizzes =>
            /\ req[x].kind = "complete"
            /\ n \in 1..MaxTries
            /\ req[x].via = "telegram" => outbound[s][n] \in {"none", req[x].score}
            /\ heldP[x][s] =
                RowOf(IF req[x].score = "pass" THEN "completed" ELSE "in_progress",
                      progress[s].at, n, req[x].score)
        /\ s \notin Quizzes =>
            \E at \in {0, progress[s].at, Blocks - 1} :
                heldP[x][s] = RowOf("completed", at, progress[s].tries, progress[s].last)

\* The row _ensure_started writes.
Begun(x) ==
    LET s == req[x].step IN
    /\ req[x].kind # "complete"
    /\ progress[s] # Gone
    /\ progress[s].st = "not_started"
    /\ heldP[x][s] = RowOf("in_progress", 0, progress[s].tries, progress[s].last)

\* The row advance_block writes.
Moved(x) ==
    LET s == req[x].step IN
    /\ s \notin Quizzes
    /\ progress[s] # Gone
    /\ progress[s].st = "in_progress"
    /\ progress[s].at < Blocks - 1
    /\ req[x].at = progress[s].at
    /\ heldP[x][s] =
        RowOf("in_progress", progress[s].at + 1, progress[s].tries, progress[s].last)

Nothing(x) == heldA[x] = Free /\ \A s \in Steps : heldP[x][s] = Free

\* What a learner's request is about to commit.
Result(x) ==
    \/ Nothing(x)
    \/ Completion(x) /\ Opened(x) /\ ~AllRequiredDone(x)
    \/ Completion(x) /\ IsOpen /\ heldA[x] = "completed" /\ AllRequiredDone(x)
    \/ Begun(x) /\ Opened(x)
    \/ Moved(x) /\ IsOpen /\ heldA[x] = Free

\* A session remembers nothing before the first read of a unit of work.
ReadNothing(x) == pc[x] \in Unread => seenA[x] = Free /\ seenP[x] = Free

\* A learner's request remembers a row that is not completed.
RemembersWork(x) ==
    pc[x] \in {"readAssignment", "startStep", "advance"} => seenP[x].st # "completed"

\* What a request that nothing overtook remembers is what is committed, and
\* what it holds follows from it.
UndisturbedLearner(x) ==
    /\ seenA[x] # Free /\ heldA[x] = Free => seenA[x] = assignment
    /\ seenP[x] # Free => seenP[x] = progress[req[x].step]
    /\ pc[x] = "readProgress" => assignment # "cancelled"
    /\ pc[x] \in {"startStep", "advance", "writeProgress"} => IsOpen
    /\ pc[x] = "writeProgress" => progress[req[x].step] # Gone
                                  /\ progress[req[x].step].st # "completed"
    /\ pc[x] = "advance" => /\ progress[req[x].step].at < Blocks - 1
                            /\ req[x].at = progress[req[x].step].at
    /\ pc[x] = "openAssignment" => Completion(x) /\ assignment = "pending"
    /\ pc[x] = "tally" => Completion(x) /\ Opened(x)
    /\ pc[x] = "closeAssignment" => Completion(x) /\ Opened(x) /\ AllRequiredDone(x)
    /\ pc[x] = "openStarted" => Begun(x) /\ assignment = "pending"
    /\ pc[x] = "commit" => Result(x)

Undisturbed(x) ==
    pc[x] \notin Unread =>
        /\ req[x].kind # "cancel" => UndisturbedLearner(x)
        /\ req[x].kind = "cancel" => IsOpen

OInv ==
    /\ fresh \in [Sessions -> BOOLEAN]
    /\ \A x \in Sessions : ReadNothing(x) /\ RemembersWork(x)
    /\ \A x \in Sessions : fresh[x] => Undisturbed(x)

-----------------------------------------------------------------------------
(* A step of one session.                                                  *)

\* A session that stands still keeps what it knows while nothing is committed.
LEMMA StillUndisturbed ==
    ASSUME NEW y \in Sessions, Undisturbed(y), UNCHANGED dbVars,
           pc'[y] = pc[y], req'[y] = req[y], seenA'[y] = seenA[y],
           seenP'[y] = seenP[y], heldA'[y] = heldA[y], heldP'[y] = heldP[y]
    PROVE  Undisturbed(y)'
<1> USE DEF dbVars
<1>1. (Completion(y)' <=> Completion(y)) /\ (Opened(y)' <=> Opened(y))
  BY DEF Completion, Opened
<1>2. (Begun(y)' <=> Begun(y)) /\ (Moved(y)' <=> Moved(y)) /\ (IsOpen' <=> IsOpen)
  BY DEF Begun, Moved, IsOpen
<1>3. (AllRequiredDone(y)' <=> AllRequiredDone(y)) /\ (Nothing(y)' <=> Nothing(y))
  BY DEF AllRequiredDone, Done, Nothing
<1>4. Result(y)' <=> Result(y)
  BY <1>1, <1>2, <1>3 DEF Result
<1> QED BY <1>1, <1>2, <1>3, <1>4 DEF Undisturbed, UndisturbedLearner

\* A step that commits nothing: it is enough to look at the session that moves.
LEMMA QuietStep ==
    ASSUME IInv, OInv, NEW x \in Sessions, OverlapNext, OthersStill(x), UNCHANGED dbVars,
           ReadNothing(x)', RemembersWork(x)', fresh[x] => Undisturbed(x)'
    PROVE  OInv'
<1>1. fresh' = [y \in Sessions |-> pc'[y] \in Unread \/ (fresh[y] /\ SameFor(y))]
  BY DEF OverlapNext
<1>2. fresh' \in [Sessions -> BOOLEAN]
  BY <1>1 DEF OInv
<1>3. ASSUME NEW y \in Sessions
      PROVE  /\ ReadNothing(y)' /\ RemembersWork(y)'
             /\ fresh'[y] => Undisturbed(y)'
  <2>1. CASE pc'[y] \in Unread /\ y = x
    BY <2>1 DEF Undisturbed
  <2>2. CASE pc'[y] \notin Unread /\ y = x
    BY <1>1, <2>2
  <2>3. CASE y # x
    <3>1. /\ pc'[y] = pc[y] /\ req'[y] = req[y] /\ seenA'[y] = seenA[y]
          /\ seenP'[y] = seenP[y] /\ heldA'[y] = heldA[y] /\ heldP'[y] = heldP[y]
      BY <2>3 DEF OthersStill
    <3>2. ReadNothing(y)' /\ RemembersWork(y)'
      BY <3>1 DEF OInv, ReadNothing, RemembersWork
    <3>3. pc'[y] \in Unread => Undisturbed(y)'
      BY DEF Undisturbed
    <3>4. pc'[y] \notin Unread /\ fresh'[y] => fresh[y]
      BY <1>1
    <3> QED BY <3>1, <3>2, <3>3, <3>4, StillUndisturbed DEF OInv
  <2> QED BY <2>1, <2>2, <2>3
<1> QED BY <1>2, <1>3 DEF OInv

\* A request that is refused or lost has read nothing any more.
LEMMA QuietEnd ==
    ASSUME IInv, OInv, NEW x \in Sessions, OverlapNext, RollBack(x)
    PROVE  OInv'
<1>1. pc'[x] = "idle" /\ seenA'[x] = Free /\ seenP'[x] = Free
  BY DEF RollBack, End, IInv, TypeOK
<1>2. ReadNothing(x)' /\ RemembersWork(x)' /\ Undisturbed(x)'
  BY <1>1 DEF ReadNothing, RemembersWork, Undisturbed, Unread
<1> QED BY <1>2, EndLocal, QuietStep DEF RollBack

\* A request to complete a step remembers the assignment as it is.
LEMMA QuietComplete ==
    ASSUME IInv, OInv, NEW x \in Sessions, OverlapNext, NEW s \in Steps, NEW score \in Scores,
           NEW via \in AllClients, Complete(x, s, score, via)
    PROVE  OInv'
<1>1. /\ pc[x] = "idle" /\ pc'[x] = "readProgress" /\ seenA'[x] = assignment
      /\ req'[x].kind = "complete" /\ seenP'[x] = seenP[x] /\ assignment # "cancelled"
      /\ UNCHANGED dbVars
  BY DEF Complete, Goto, IInv, TypeOK
<1>2. OthersStill(x)
  BY DEF Complete, Goto, IInv, TypeOK, OthersStill
<1>3. seenP[x] = Free
  BY <1>1 DEF IInv, Local, IdleShape
<1>4. ReadNothing(x)' /\ RemembersWork(x)'
  BY <1>1 DEF ReadNothing, RemembersWork, Unread
<1>5. Undisturbed(x)'
  BY <1>1, <1>3 DEF Undisturbed, UndisturbedLearner, Unread, dbVars
<1> QED BY <1>1, <1>2, <1>4, <1>5, QuietStep

\* So does one that goes on with complete_step after reading the last block.
LEMMA QuietCompleteAfterRead ==
    ASSUME IInv, OInv, NEW x \in Sessions, OverlapNext, CompleteAfterRead(x)
    PROVE  OInv'
<1>1. CASE RollBack(x)
  BY <1>1, QuietEnd
<1>2. CASE ~RollBack(x)
  <2>1. /\ pc[x] = "complete" /\ pc'[x] = "readProgress" /\ seenA'[x] = assignment
        /\ req'[x] = req[x] /\ seenP'[x] = seenP[x] /\ assignment # "cancelled"
        /\ UNCHANGED dbVars
    BY <1>2 DEF CompleteAfterRead, Goto, IInv, TypeOK
  <2>2. OthersStill(x)
    BY <1>2 DEF CompleteAfterRead, Goto, IInv, TypeOK, OthersStill
  <2>3. seenP[x] = Free /\ req[x].kind = "read"
    BY <2>1 DEF OInv, ReadNothing, Unread, IInv, Local, RequestShape
  <2>4. ReadNothing(x)' /\ RemembersWork(x)'
    BY <2>1 DEF ReadNothing, RemembersWork, Unread
  <2>5. Undisturbed(x)'
    BY <2>1, <2>3 DEF Undisturbed, UndisturbedLearner, Unread, dbVars
  <2> QED BY <2>1, <2>2, <2>4, <2>5, QuietStep
<1> QED BY <1>1, <1>2

\* The row that is remembered is the committed one, and can be completed.
LEMMA QuietReadProgress ==
    ASSUME IInv, OInv, NEW x \in Sessions, OverlapNext, ReadProgress(x)
    PROVE  OInv'
<1>1. CASE RollBack(x)
  BY <1>1, QuietEnd
<1>2. CASE ~RollBack(x)
  <2>1. /\ pc[x] = "readProgress" /\ pc'[x] = "writeProgress" /\ req'[x] = req[x]
        /\ seenA'[x] = seenA[x] /\ seenP'[x] = progress[req[x].step] /\ heldA'[x] = heldA[x]
        /\ Completable(x, progress[req[x].step])
        /\ UNCHANGED dbVars
    BY <1>2 DEF ReadProgress, Goto, IInv, TypeOK
  <2>2. OthersStill(x)
    BY <1>2 DEF ReadProgress, Goto, IInv, TypeOK, OthersStill
  <2>3. /\ req[x].kind \in {"complete", "read"} /\ seenA[x] # Free /\ heldA[x] = Free
    BY <2>1 DEF IInv, Local, RequestShape, MemoryFacts, LearnerFacts, Reading
  <2>4. ReadNothing(x)' /\ RemembersWork(x)'
    BY <2>1 DEF ReadNothing, RemembersWork, Unread
  <2>5. ASSUME fresh[x] PROVE Undisturbed(x)'
    <3>1. UndisturbedLearner(x)
      BY <2>1, <2>3, <2>5 DEF OInv, Undisturbed, Unread
    <3>2. assignment \in AssignmentStatus /\ assignment # "cancelled" /\ seenA[x] = assignment
      BY <2>1, <2>3, <3>1 DEF UndisturbedLearner, IInv, TypeOK
    <3>3. IsOpen
      BY <2>1, <3>2 DEF Completable, IsOpen, AssignmentStatus
    <3> QED BY <2>1, <2>3, <3>2, <3>3
        DEF Undisturbed, UndisturbedLearner, Unread, dbVars, Completable, IsOpen
  <2> QED BY <2>1, <2>2, <2>4, <2>5, QuietStep
<1> QED BY <1>1, <1>2

\* The row written is the one complete_step writes alone, and it opens the
\* assignment if it is to be opened.
LEMMA QuietWriteProgress ==
    ASSUME IInv, OInv, NEW x \in Sessions, OverlapNext, WriteProgress(x)
    PROVE  OInv'
<1>1. CASE RollBack(x)
  BY <1>1, QuietEnd
<1>2. CASE ~RollBack(x)
  <2> DEFINE s == req[x].step
             row == IF s \in Quizzes THEN QuizRow(x, s) ELSE ContentRow(x, s)
  <2>1. /\ pc[x] = "writeProgress" /\ progress[s] # Gone
        /\ s \in Quizzes /\ req[x].via = "telegram" => QuizResultAccepted(s, row)
        /\ heldP' = [heldP EXCEPT ![x][s] = row]
        /\ pc' = [pc EXCEPT ![x] = IF Opens(x) THEN "openAssignment" ELSE "tally"]
        /\ UNCHANGED <<req, seenA, seenP, heldA, dbVars>>
    BY <1>2 DEF WriteProgress, Goto
  <2>2. /\ req[x] \in Request /\ req[x].kind \in {"complete", "read"} /\ s \in Steps
        /\ s \in Quizzes => req[x].kind = "complete"
        /\ seenA[x] # Free /\ seenP[x] # Free /\ heldA[x] = Free
        /\ seenP[x].tries < MaxTries
    BY <2>1 DEF IInv, Local, RequestShape, MemoryFacts, LearnerFacts, Reading, Request
  <2>3. heldP'[x][s] = row /\ pc'[x] = IF Opens(x) THEN "openAssignment" ELSE "tally"
    BY <2>1, <2>2 DEF IInv, TypeOK
  <2>4. OthersStill(x)
    BY <2>1 DEF IInv, TypeOK, OthersStill
  <2>5. ReadNothing(x)' /\ RemembersWork(x)'
    BY <2>3 DEF ReadNothing, RemembersWork, Unread
  <2>6. ASSUME fresh[x] PROVE Undisturbed(x)'
    <3>1. /\ seenA[x] = assignment /\ seenP[x] = progress[s] /\ IsOpen
          /\ progress[s] # Gone /\ progress[s].st # "completed" /\ progress[s] \in Row
      BY <2>1, <2>2, <2>6
      DEF OInv, Undisturbed, UndisturbedLearner, Unread, IInv, TypeOK
    <3>2. ASSUME s \in Quizzes PROVE Completion(x)'
      <4>1. row = RowOf(IF req[x].score = "pass" THEN "completed" ELSE "in_progress",
                        progress[s].at, progress[s].tries + 1, req[x].score)
        BY <3>1, <3>2 DEF QuizRow, RowOf
      <4>2. progress[s].tries + 1 \in 1..MaxTries
        BY <2>2, <3>1, AssignmentAssumption DEF Row
      <4>3. req[x].via = "telegram" => outbound[s][progress[s].tries + 1] \in {"none", req[x].score}
        BY <2>1, <3>2, <4>1 DEF QuizResultAccepted, RowOf
      <4>4. heldP'[x][s] = RowOf(IF req[x].score = "pass" THEN "completed" ELSE "in_progress",
                                 progress[s].at, progress[s].tries + 1, req[x].score)
        BY <2>3, <4>1
      <4> HIDE DEF row
      <4> QED BY <2>1, <2>2, <3>1, <3>2, <4>2, <4>3, <4>4 DEF Completion, dbVars
    <3>3. ASSUME s \notin Quizzes PROVE Completion(x)'
      <4>1. \E at \in {0, progress[s].at, Blocks - 1} :
                row = RowOf("completed", at, progress[s].tries, progress[s].last)
        BY <3>1, <3>3, RowWith DEF ContentRow
      <4>2. \E at \in {0, progress[s].at, Blocks - 1} :
                heldP'[x][s] = RowOf("completed", at, progress[s].tries, progress[s].last)
        BY <2>3, <4>1
      <4> HIDE DEF row
      <4> QED BY <2>1, <2>2, <3>1, <3>3, <4>2 DEF Completion, dbVars
    <3>4. Completion(x)'
      BY <3>2, <3>3
    <3> HIDE DEF row
    <3>5. /\ seenA'[x] = assignment' /\ seenP'[x] = progress'[req'[x].step]
          /\ req'[x].kind # "cancel" /\ heldA'[x] = Free
      BY <2>1, <2>2, <3>1 DEF dbVars
    <3>6. CASE Opens(x)
      BY <2>1, <2>3, <3>1, <3>4, <3>5, <3>6
      DEF Undisturbed, UndisturbedLearner, Opens, dbVars
    <3>7. CASE ~Opens(x)
      <4>1. Opened(x)'
        BY <2>1, <3>1, <3>5, <3>7 DEF Opens, IsOpen, Opened, dbVars
      <4> QED BY <2>3, <3>4, <3>5, <3>7, <4>1 DEF Undisturbed, UndisturbedLearner
    <3> QED BY <3>6, <3>7
  <2> QED BY <2>1, <2>4, <2>5, <2>6, QuietStep
<1> QED BY <1>1, <1>2

\* The assignment is opened from pending.
LEMMA QuietOpenAssignment ==
    ASSUME IInv, OInv, NEW x \in Sessions, OverlapNext, OpenAssignment(x)
    PROVE  OInv'
<1>1. /\ pc[x] = "openAssignment" /\ pc'[x] = "tally" /\ req'[x] = req[x]
      /\ heldA'[x] = "in_progress" /\ seenP'[x] = seenP[x] /\ heldP'[x] = heldP[x]
      /\ UNCHANGED dbVars
  BY DEF OpenAssignment, WriteAssignment, Goto, IInv, TypeOK
<1>2. OthersStill(x)
  BY DEF OpenAssignment, WriteAssignment, Goto, IInv, TypeOK, OthersStill
<1>3. ReadNothing(x)' /\ RemembersWork(x)'
  BY <1>1 DEF ReadNothing, RemembersWork, Unread
<1>4. ASSUME fresh[x] PROVE Undisturbed(x)'
  <2>1. req[x].kind # "cancel" /\ UndisturbedLearner(x)
    BY <1>1, <1>4 DEF OInv, Undisturbed, Unread, IInv, Local, RequestShape
  <2>2. Completion(x)' /\ Opened(x)'
    BY <1>1, <2>1 DEF UndisturbedLearner, Completion, Opened, dbVars
  <2> QED BY <1>1, <2>1, <2>2, FreeIsNeither DEF Undisturbed, UndisturbedLearner, dbVars
<1> QED BY <1>1, <1>2, <1>3, <1>4, QuietStep

\* The rows are counted: what is done alone is what is done.
LEMMA QuietTally ==
    ASSUME IInv, OInv, NEW x \in Sessions, OverlapNext, Tally(x)
    PROVE  OInv'
<1>1. /\ pc[x] = "tally" /\ req'[x] = req[x] /\ seenA'[x] = seenA[x] /\ heldA'[x] = heldA[x]
      /\ seenP'[x] = seenP[x] /\ heldP'[x] = heldP[x] /\ heldP' = heldP
      /\ pc'[x] = IF AllRequiredDone(x) THEN "closeAssignment" ELSE "commit"
      /\ UNCHANGED dbVars
  BY DEF Tally, Goto, IInv, TypeOK
<1>2. OthersStill(x)
  BY DEF Tally, Goto, IInv, TypeOK, OthersStill
<1>3. ReadNothing(x)' /\ RemembersWork(x)'
  BY <1>1 DEF ReadNothing, RemembersWork, Unread
<1>4. ASSUME fresh[x] PROVE Undisturbed(x)'
  <2>1. req[x].kind # "cancel" /\ UndisturbedLearner(x)
    BY <1>1, <1>4 DEF OInv, Undisturbed, Unread, IInv, Local, RequestShape, LearnerFacts
  <2>2. Completion(x)' /\ Opened(x)'
    BY <1>1, <2>1 DEF UndisturbedLearner, Completion, Opened, dbVars
  <2>3. AllRequiredDone(x)' <=> AllRequiredDone(x)
    BY <1>1 DEF AllRequiredDone, Done, dbVars
  <2>4. CASE AllRequiredDone(x)
    BY <1>1, <2>1, <2>2, <2>3, <2>4 DEF Undisturbed, UndisturbedLearner, dbVars
  <2>5. CASE ~AllRequiredDone(x)
    BY <1>1, <2>1, <2>2, <2>3, <2>5 DEF Undisturbed, UndisturbedLearner, Result, dbVars
  <2> QED BY <2>4, <2>5
<1> QED BY <1>1, <1>2, <1>3, <1>4, QuietStep

\* It is completed with the last row that was needed.
LEMMA QuietCloseAssignment ==
    ASSUME IInv, OInv, NEW x \in Sessions, OverlapNext, CloseAssignment(x)
    PROVE  OInv'
<1>1. /\ pc[x] = "closeAssignment" /\ pc'[x] = "commit" /\ req'[x] = req[x]
      /\ heldA'[x] = "completed" /\ seenP'[x] = seenP[x] /\ heldP' = heldP
      /\ UNCHANGED dbVars
  BY DEF CloseAssignment, WriteAssignment, Goto, IInv, TypeOK
<1>2. OthersStill(x)
  BY DEF CloseAssignment, WriteAssignment, Goto, IInv, TypeOK, OthersStill
<1>3. ReadNothing(x)' /\ RemembersWork(x)'
  BY <1>1 DEF ReadNothing, RemembersWork, Unread
<1>4. ASSUME fresh[x] PROVE Undisturbed(x)'
  <2>1. req[x].kind # "cancel" /\ UndisturbedLearner(x)
    BY <1>1, <1>4 DEF OInv, Undisturbed, Unread, IInv, Local, RequestShape
  <2>2. Completion(x)' /\ IsOpen'
    BY <1>1, <2>1 DEF UndisturbedLearner, Completion, Opened, IsOpen, dbVars
  <2>3. AllRequiredDone(x)'
    BY <1>1, <2>1 DEF UndisturbedLearner, AllRequiredDone, Done, dbVars
  <2> QED BY <1>1, <2>1, <2>2, <2>3, FreeIsNeither
      DEF Undisturbed, UndisturbedLearner, Result, dbVars
<1> QED BY <1>1, <1>2, <1>3, <1>4, QuietStep

\* What _load_mutable remembers is the committed row.
LEMMA QuietLearn ==
    ASSUME IInv, OInv, NEW x \in Sessions, OverlapNext, NEW kind \in {"start", "advance", "read"},
           NEW s \in Steps, NEW at \in 0..(Blocks - 1), Learn(x, kind, s, at)
    PROVE  OInv'
<1>1. /\ pc[x] = "idle" /\ pc'[x] = "readAssignment" /\ req'[x].kind = kind
      /\ req'[x].step = s /\ seenA'[x] = seenA[x] /\ seenP'[x] = progress[s]
      /\ progress[s] # Gone /\ progress[s].st # "completed"
      /\ UNCHANGED dbVars
  BY DEF Learn, Goto, IInv, TypeOK
<1>2. OthersStill(x)
  BY DEF Learn, Goto, IInv, TypeOK, OthersStill
<1>3. seenA[x] = Free
  BY <1>1 DEF IInv, Local, IdleShape
<1>4. ReadNothing(x)' /\ RemembersWork(x)'
  BY <1>1 DEF ReadNothing, RemembersWork, Unread
<1>5. Undisturbed(x)'
  BY <1>1, <1>3 DEF Undisturbed, UndisturbedLearner, Unread, dbVars
<1> QED BY <1>1, <1>2, <1>4, <1>5, QuietStep

\* Only an open assignment is worked on, and what a learner asks for is
\* decided from the cursor.
LEMMA QuietReadAssignment ==
    ASSUME IInv, OInv, NEW x \in Sessions, OverlapNext, ReadAssignment(x)
    PROVE  OInv'
<1>1. CASE RollBack(x)
  BY <1>1, QuietEnd
<1>2. CASE ~RollBack(x)
  <2>1. /\ pc[x] = "readAssignment" /\ assignment \notin {"cancelled", "completed"}
        /\ pc'[x] = IF seenP[x].st = "not_started" THEN "startStep" ELSE Resume(x)
        /\ seenA'[x] = assignment /\ req'[x] = req[x] /\ seenP'[x] = seenP[x]
        /\ heldA'[x] = heldA[x] /\ heldP'[x] = heldP[x]
        /\ UNCHANGED dbVars
    BY <1>2 DEF ReadAssignment, Goto, IInv, TypeOK
  <2>2. OthersStill(x)
    BY <1>2 DEF ReadAssignment, Goto, IInv, TypeOK, OthersStill
  <2>3. /\ req[x].kind \in {"start", "advance", "read"} /\ seenP[x] # Free
        /\ Nothing(x)
        /\ pc'[x] \in {"startStep", "advance", "rollback", "commit"}
        /\ pc'[x] = "advance" => ~IsFinal(seenP[x].at) /\ req[x].at = seenP[x].at
    BY <2>1 DEF IInv, Local, RequestShape, MemoryFacts, LearnerFacts, Reading, Resume, Nothing
  <2>4. ReadNothing(x)' /\ RemembersWork(x)'
    BY <2>1, <2>3 DEF OInv, ReadNothing, RemembersWork, Unread
  <2>5. ASSUME fresh[x] PROVE Undisturbed(x)'
    <3>1. UndisturbedLearner(x)
      BY <2>1, <2>3, <2>5 DEF OInv, Undisturbed, Unread
    <3>2. IsOpen /\ seenP[x] = progress[req[x].step] /\ seenP[x] \in Row
      BY <2>1, <2>3, <3>1 DEF UndisturbedLearner, IInv, TypeOK, IsOpen, AssignmentStatus
    <3>3. pc'[x] = "advance" => /\ progress[req[x].step].at < Blocks - 1
                                /\ req[x].at = progress[req[x].step].at
      BY <2>3, <3>2, AssignmentAssumption DEF IsFinal, Row
    <3>4. IsOpen' /\ Nothing(x)'
      BY <2>1, <2>3, <3>2 DEF IsOpen, Nothing, dbVars
    <3> QED BY <2>1, <2>3, <3>2, <3>3, <3>4
        DEF Undisturbed, UndisturbedLearner, Result, dbVars
  <2> QED BY <2>1, <2>2, <2>4, <2>5, QuietStep
<1> QED BY <1>1, <1>2

\* _ensure_started writes the row it would write alone.
LEMMA QuietStartStep ==
    ASSUME IInv, OInv, NEW x \in Sessions, OverlapNext, StartStep(x)
    PROVE  OInv'
<1>1. CASE RollBack(x)
  BY <1>1, QuietEnd
<1>2. CASE ~RollBack(x)
  <2> DEFINE s == req[x].step
  <2>1. /\ pc[x] = "startStep" /\ progress[s] # Gone
        /\ heldP' = [heldP EXCEPT ![x][s] = StartedRow(x)]
        /\ pc' = [pc EXCEPT ![x] = IF Opens(x) THEN "openStarted" ELSE AfterStart(x)]
        /\ UNCHANGED <<req, seenA, seenP, heldA, dbVars>>
    BY <1>2 DEF StartStep, Goto
  <2>2. /\ req[x] \in Request /\ req[x].kind \in {"start", "advance", "read"} /\ s \in Steps
        /\ seenA[x] # Free /\ seenP[x] # Free /\ heldA[x] = Free
        /\ seenP[x].st = "not_started"
    BY <2>1 DEF IInv, Local, RequestShape, MemoryFacts, LearnerFacts, Reading, Request
  <2>3. /\ heldP'[x][s] = StartedRow(x)
        /\ pc'[x] = IF Opens(x) THEN "openStarted" ELSE AfterStart(x)
        /\ pc'[x] \in {"openStarted", "commit", "rollback"}
    BY <2>1, <2>2 DEF IInv, TypeOK, AfterStart
  <2>4. OthersStill(x)
    BY <2>1 DEF IInv, TypeOK, OthersStill
  <2>5. ReadNothing(x)' /\ RemembersWork(x)'
    BY <2>3 DEF ReadNothing, RemembersWork, Unread
  <2>6. ASSUME fresh[x] PROVE Undisturbed(x)'
    <3>1. /\ seenA[x] = assignment /\ seenP[x] = progress[s] /\ IsOpen /\ progress[s] \in Row
      BY <2>1, <2>2, <2>6
      DEF OInv, Undisturbed, UndisturbedLearner, Unread, IInv, TypeOK
    <3>2. StartedRow(x) = RowOf("in_progress", 0, progress[s].tries, progress[s].last)
      <4>1. StartedRow(x) = [progress[s] EXCEPT !.st = "in_progress", !.at = 0]
        BY <3>1 DEF StartedRow
      <4> QED BY <3>1, <4>1, RowWith
    <3>3. Begun(x)'
      BY <2>1, <2>2, <2>3, <3>1, <3>2 DEF Begun, dbVars
    <3>4. /\ seenA'[x] = assignment' /\ seenP'[x] = progress'[req'[x].step]
          /\ req'[x].kind # "cancel" /\ heldA'[x] = Free
      BY <2>1, <2>2, <3>1 DEF dbVars
    <3>5. CASE Opens(x)
      BY <2>1, <2>3, <3>1, <3>3, <3>4, <3>5
      DEF Undisturbed, UndisturbedLearner, Opens, dbVars
    <3>6. CASE ~Opens(x)
      <4>1. Opened(x)' /\ pc'[x] \in {"commit", "rollback"}
        BY <2>1, <2>3, <3>1, <3>4, <3>6 DEF Opens, IsOpen, Opened, AfterStart, dbVars
      <4> QED BY <3>3, <3>4, <4>1 DEF Undisturbed, UndisturbedLearner, Result
    <3> QED BY <3>5, <3>6
  <2> QED BY <2>1, <2>4, <2>5, <2>6, QuietStep
<1> QED BY <1>1, <1>2

\* The assignment is opened from pending here too.
LEMMA QuietOpenStarted ==
    ASSUME IInv, OInv, NEW x \in Sessions, OverlapNext, OpenStarted(x)
    PROVE  OInv'
<1>1. /\ pc[x] = "openStarted" /\ pc'[x] = AfterStart(x) /\ req'[x] = req[x]
      /\ pc'[x] \in {"commit", "rollback"}
      /\ heldA'[x] = "in_progress" /\ seenP'[x] = seenP[x] /\ heldP'[x] = heldP[x]
      /\ UNCHANGED dbVars
  BY DEF OpenStarted, WriteAssignment, Goto, IInv, TypeOK, AfterStart
<1>2. OthersStill(x)
  BY DEF OpenStarted, WriteAssignment, Goto, IInv, TypeOK, OthersStill
<1>3. ReadNothing(x)' /\ RemembersWork(x)'
  BY <1>1 DEF ReadNothing, RemembersWork, Unread
<1>4. ASSUME fresh[x] PROVE Undisturbed(x)'
  <2>1. req[x].kind # "cancel" /\ UndisturbedLearner(x)
    BY <1>1, <1>4 DEF OInv, Undisturbed, Unread, IInv, Local, RequestShape
  <2>2. Begun(x)' /\ Opened(x)'
    BY <1>1, <2>1 DEF UndisturbedLearner, Begun, Opened, dbVars
  <2>3. seenP'[x] # Free => seenP'[x] = progress'[req'[x].step]
    BY <1>1, <2>1 DEF UndisturbedLearner, dbVars
  <2> QED BY <1>1, <2>1, <2>2, <2>3, FreeIsNeither DEF Undisturbed, UndisturbedLearner, Result
<1> QED BY <1>1, <1>2, <1>3, <1>4, QuietStep

\* Leaving a unit of work without a commit forgets what it read.
LEMMA QuietLeaveRead ==
    ASSUME IInv, OInv, NEW x \in Sessions, OverlapNext, LeaveRead(x)
    PROVE  OInv'
<1>1. /\ pc'[x] = "complete" /\ seenA'[x] = Free /\ seenP'[x] = Free /\ UNCHANGED dbVars
  BY DEF LeaveRead, Goto, IInv, TypeOK
<1>2. OthersStill(x)
  BY DEF LeaveRead, Goto, IInv, TypeOK, OthersStill
<1>3. ReadNothing(x)' /\ RemembersWork(x)' /\ Undisturbed(x)'
  BY <1>1 DEF ReadNothing, RemembersWork, Undisturbed, Unread
<1> QED BY <1>1, <1>2, <1>3, QuietStep

\* The cursor moves on from where it is.
LEMMA QuietAdvance ==
    ASSUME IInv, OInv, NEW x \in Sessions, OverlapNext, Advance(x)
    PROVE  OInv'
<1>1. CASE RollBack(x)
  BY <1>1, QuietEnd
<1>2. CASE ~RollBack(x)
  <2> DEFINE s == req[x].step
             row == [seenP[x] EXCEPT !.st = progress[s].st, !.at = @ + 1]
  <2>1. /\ pc[x] = "advance" /\ progress[s] # Gone
        /\ heldP' = [heldP EXCEPT ![x][s] = row]
        /\ pc' = [pc EXCEPT ![x] = "commit"]
        /\ UNCHANGED <<req, seenA, seenP, heldA, dbVars>>
    BY <1>2 DEF Advance, Goto
  <2>2. /\ req[x] \in Request /\ req[x].kind = "advance" /\ s \in Steps /\ s \notin Quizzes
        /\ seenA[x] # Free /\ seenP[x] # Free /\ heldA[x] = Free
        /\ seenP[x].st # "not_started" /\ seenP[x].st # "completed"
    BY <2>1 DEF IInv, Local, RequestShape, MemoryFacts, LearnerFacts, Reading, Request,
                OInv, RemembersWork
  <2>3. heldP'[x][s] = row /\ pc'[x] = "commit"
    BY <2>1, <2>2 DEF IInv, TypeOK
  <2>4. OthersStill(x)
    BY <2>1 DEF IInv, TypeOK, OthersStill
  <2>5. ReadNothing(x)' /\ RemembersWork(x)'
    BY <2>3 DEF ReadNothing, RemembersWork, Unread
  <2>6. ASSUME fresh[x] PROVE Undisturbed(x)'
    <3>1. /\ seenA[x] = assignment /\ seenP[x] = progress[s] /\ IsOpen /\ progress[s] \in Row
          /\ progress[s].at < Blocks - 1 /\ req[x].at = progress[s].at
      BY <2>1, <2>2, <2>6
      DEF OInv, Undisturbed, UndisturbedLearner, Unread, IInv, TypeOK
    <3>2. progress[s].st = "in_progress"
      BY <2>2, <3>1 DEF Row, ProgressStatus
    <3>3. row = RowOf("in_progress", progress[s].at + 1, progress[s].tries, progress[s].last)
      <4>1. row = [progress[s] EXCEPT !.st = progress[s].st, !.at = @ + 1]
        BY <3>1
      <4> HIDE DEF row
      <4> QED BY <3>1, <3>2, <4>1, RowWith
    <3>4. heldP'[x][s] = RowOf("in_progress", progress[s].at + 1, progress[s].tries,
                               progress[s].last)
      BY <2>3, <3>3
    <3> HIDE DEF row
    <3>5. Moved(x)' /\ IsOpen' /\ heldA'[x] = Free
      BY <2>1, <2>2, <3>1, <3>2, <3>4 DEF Moved, IsOpen, dbVars
    <3>6. /\ seenA'[x] = assignment' /\ seenP'[x] = progress'[req'[x].step]
          /\ req'[x].kind # "cancel"
      BY <2>1, <2>2, <3>1 DEF dbVars
    <3> QED BY <2>3, <3>5, <3>6 DEF Undisturbed, UndisturbedLearner, Result
  <2> QED BY <2>1, <2>4, <2>5, <2>6, QuietStep
<1> QED BY <1>1, <1>2

\* A cancellation found the assignment open, and its DELETE changes no mind.
LEMMA QuietCancelling ==
    ASSUME IInv, OInv, NEW x \in Sessions, OverlapNext,
           Cancel(x) \/ Discard(x) \/ MarkCancelled(x)
    PROVE  OInv'
<1>1. /\ pc'[x] \in {"discard", "markCancelled", "commit"} /\ req'[x].kind = "cancel"
      /\ UNCHANGED dbVars
      /\ pc[x] # "idle" => pc[x] \notin Unread /\ req[x].kind = "cancel"
      /\ pc[x] = "idle" => IsOpen
  <2>1. CASE Cancel(x)
    BY <2>1 DEF Cancel, Goto, IInv, TypeOK, IsOpen, AssignmentStatus
  <2>2. CASE Discard(x)
    BY <2>2 DEF Discard, Goto, IInv, TypeOK, Local, RequestShape, Unread
  <2>3. CASE MarkCancelled(x)
    BY <2>3 DEF MarkCancelled, WriteAssignment, Goto, IInv, TypeOK, Local, RequestShape, Unread
  <2> QED BY <2>1, <2>2, <2>3
<1>2. OthersStill(x)
  <2>1. CASE Cancel(x)
    BY <2>1 DEF Cancel, Goto, IInv, TypeOK, OthersStill
  <2>2. CASE Discard(x)
    BY <2>2 DEF Discard, Goto, IInv, TypeOK, OthersStill
  <2>3. CASE MarkCancelled(x)
    BY <2>3 DEF MarkCancelled, WriteAssignment, Goto, IInv, TypeOK, OthersStill
  <2> QED BY <2>1, <2>2, <2>3
<1>3. ReadNothing(x)' /\ RemembersWork(x)'
  BY <1>1 DEF ReadNothing, RemembersWork, Unread
<1>4. fresh[x] => Undisturbed(x)'
  BY <1>1 DEF OInv, Undisturbed, IsOpen, dbVars
<1> QED BY <1>1, <1>2, <1>3, <1>4, QuietStep

-----------------------------------------------------------------------------
(* A commit.                                                               *)

\* A session goes on undisturbed when what others commit leaves what it
\* decides from as it was.
LEMMA StaysUndisturbed ==
    ASSUME IInv, NEW y \in Sessions, Undisturbed(y), pc[y] \notin Unread,
           SameFor(y), MovesOnUnder(y),
           pc'[y] = pc[y], req'[y] = req[y], seenA'[y] = seenA[y],
           seenP'[y] = seenP[y], heldA'[y] = heldA[y], heldP'[y] = heldP[y]
    PROVE  Undisturbed(y)'
<1>1. assignment' = assignment /\ (IsOpen' <=> IsOpen) /\ (Opened(y)' <=> Opened(y))
  BY DEF SameFor, IsOpen, Opened
<1>2. CASE req[y].kind = "cancel"
  BY <1>1, <1>2 DEF Undisturbed
<1>3. CASE req[y].kind # "cancel"
  <2> DEFINE s == req[y].step
  <2>1. progress'[s] = progress[s] /\ DoneSteps' = DoneSteps
    BY <1>3 DEF SameFor
  <2>2. UndisturbedLearner(y) /\ pc[y] # "idle" /\ s \in Steps
    BY <1>3 DEF Undisturbed, Unread, IInv, Local, RequestShape, Request
  <2>3. (Begun(y)' <=> Begun(y)) /\ (Moved(y)' <=> Moved(y)) /\ (Nothing(y)' <=> Nothing(y))
    BY <2>1 DEF Begun, Moved, Nothing
  <2>4. ASSUME Completion(y) PROVE Completion(y)'
    <3>1. progress[s] # Gone /\ progress[s] \in Row
      BY <2>2, <2>4 DEF Completion, IInv, TypeOK
    <3>2. s \in Quizzes => heldP[y][s] # Free
      <4>1. req[y].score \in Scores
        BY <2>2 DEF IInv, Local, RequestShape, Request
      <4>2. ASSUME NEW st \in ProgressStatus, NEW n \in 1..MaxTries
            PROVE  RowOf(st, progress[s].at, n, req[y].score) # Free
        <5>1. RowOf(st, progress[s].at, n, req[y].score) \in Row
          BY <3>1, <4>1, AssignmentAssumption DEF RowOf, Row
        <5> QED BY <5>1, FreeIsNeither
      <4> QED BY <2>4, <4>2 DEF Completion, ProgressStatus
    <3>3. s \in Quizzes => outbound'[s] = outbound[s]
      BY <2>2, <3>2 DEF MovesOnUnder
    <3> QED BY <2>1, <2>4, <3>3 DEF Completion
  <2>5. AllRequiredDone(y)' <=> AllRequiredDone(y)
    <3>1. ASSUME NEW r \in Steps PROVE Done(y, r)' <=> Done(y, r)
      <4>1. r \in DoneSteps' <=> r \in DoneSteps
        BY <2>1
      <4> QED BY <4>1 DEF Done, DoneSteps
    <3> QED BY <3>1, AssignmentAssumption DEF AllRequiredDone
  <2>6. Result(y) => Result(y)'
    BY <1>1, <2>3, <2>4, <2>5 DEF Result
  <2> QED BY <1>1, <1>3, <2>1, <2>2, <2>3, <2>4, <2>5, <2>6 DEF Undisturbed, UndisturbedLearner
<1> QED BY <1>2, <1>3

\* A commit leaves the requests it does not overtake undisturbed.
LEMMA CommitOInv ==
    ASSUME IInv, OInv, NEW x \in Sessions, OverlapNext, Commit(x)
    PROVE  OInv'
<1>1. fresh' = [y \in Sessions |-> pc'[y] \in Unread \/ (fresh[y] /\ SameFor(y))]
  BY DEF OverlapNext
<1>2. OthersStill(x) /\ pc'[x] = "idle" /\ seenA'[x] = Free /\ seenP'[x] = Free
  BY EndLocal DEF Commit, End, IInv, TypeOK
<1>3. ASSUME NEW y \in Sessions
      PROVE  /\ ReadNothing(y)' /\ RemembersWork(y)'
             /\ fresh'[y] => Undisturbed(y)'
  <2>1. CASE y = x
    BY <1>2, <2>1 DEF ReadNothing, RemembersWork, Undisturbed, Unread
  <2>2. CASE y # x
    <3>1. /\ pc'[y] = pc[y] /\ req'[y] = req[y] /\ seenA'[y] = seenA[y]
          /\ seenP'[y] = seenP[y] /\ heldA'[y] = heldA[y] /\ heldP'[y] = heldP[y]
      BY <1>2, <2>2 DEF OthersStill
    <3>2. ReadNothing(y)' /\ RemembersWork(y)'
      BY <3>1 DEF OInv, ReadNothing, RemembersWork
    <3>3. MovesOnUnder(y)
      BY <2>2, CommitMovesOn
    <3>4. CASE pc'[y] \in Unread
      BY <3>2, <3>4 DEF Undisturbed
    <3>5. CASE pc'[y] \notin Unread /\ fresh'[y]
      <4>1. fresh[y] /\ SameFor(y)
        BY <1>1, <3>5
      <4>2. Undisturbed(y)
        BY <4>1 DEF OInv
      <4> QED BY <3>1, <3>2, <3>3, <3>5, <4>1, <4>2, StaysUndisturbed
    <3> QED BY <3>2, <3>4, <3>5
  <2> QED BY <2>1, <2>2
<1> QED BY <1>1, <1>3 DEF OInv

\* Every step keeps what is known of the requests nothing overtook.
LEMMA NextOInv == IInv /\ OInv /\ [OverlapNext]_overlapVars => OInv'
<1> SUFFICES ASSUME IInv, OInv, [OverlapNext]_overlapVars PROVE OInv'
  OBVIOUS
<1>1. CASE UNCHANGED overlapVars
  <2>1. /\ UNCHANGED <<assignment, progress, outbound, pc, req, seenA, seenP, heldA, heldP>>
        /\ UNCHANGED dbVars /\ fresh' = fresh
    BY <1>1 DEF overlapVars, vars, dbVars, sessionVars
  <2>2. ASSUME NEW y \in Sessions PROVE ReadNothing(y)' /\ RemembersWork(y)'
    BY <2>1 DEF OInv, ReadNothing, RemembersWork
  <2>3. ASSUME NEW y \in Sessions, Undisturbed(y) PROVE Undisturbed(y)'
    BY <2>1, <2>3, StillUndisturbed
  <2> QED BY <2>1, <2>2, <2>3 DEF OInv
<1>2. ASSUME OverlapNext, NEW x \in Sessions, Arrive(x) PROVE OInv'
  <2>1. CASE Cancel(x)
    BY <1>2, <2>1, QuietCancelling
  <2>2. ASSUME NEW s \in Quizzes, NEW score \in Scores, NEW via \in Clients \ {"bare"},
               Complete(x, s, score, via)
        PROVE  OInv'
    BY <1>2, <2>2, QuietComplete, AssignmentAssumption
  <2>3. ASSUME NEW s \in Steps \ Quizzes, NEW via \in Clients, Complete(x, s, "pass", via)
        PROVE  OInv'
    BY <1>2, <2>3, QuietComplete, AssignmentAssumption DEF Scores
  <2> QED BY <1>2, <2>1, <2>2, <2>3, QuietLearn DEF Arrive
<1>3. ASSUME OverlapNext, NEW x \in Sessions, Completing(x) PROVE OInv'
  BY <1>3, QuietCompleteAfterRead, QuietReadProgress, QuietWriteProgress, QuietOpenAssignment,
     QuietTally, QuietCloseAssignment DEF Completing
<1>4. ASSUME OverlapNext, NEW x \in Sessions, Learning(x) PROVE OInv'
  BY <1>4, QuietReadAssignment, QuietStartStep, QuietOpenStarted, QuietLeaveRead, QuietAdvance
  DEF Learning
<1>5. ASSUME OverlapNext, NEW x \in Sessions, Cancelling(x) PROVE OInv'
  BY <1>5, QuietCancelling DEF Cancelling
<1>6. ASSUME OverlapNext, NEW x \in Sessions, Commit(x) \/ Lose(x) PROVE OInv'
  BY <1>6, CommitOInv, QuietEnd DEF Lose
<1> QED BY <1>1, <1>2, <1>3, <1>4, <1>5, <1>6 DEF OverlapNext, Next, Proceed

\* Nobody has read anything yet.
LEMMA InitOInv == OverlapInit => OInv
BY DEF OverlapInit, Init, OInv, ReadNothing, RemembersWork, Undisturbed, Unread

\* The history variable only watches: the requests are those of Assignment.
LEMMA OverlapIsAssignment == OverlapSpec => Spec
<1>1. OverlapInit => Init
  BY DEF OverlapInit
<1>2. [OverlapNext]_overlapVars => [Next]_vars
  BY DEF OverlapNext, overlapVars
<1> QED BY <1>1, <1>2, PTL DEF OverlapSpec, Spec

\* What a request that nothing overtook remembers is what is committed, at
\* every statement of every request, whatever else is lost or rolled back.
THEOREM OverlapInvariant == OverlapSpec => [](IInv /\ OInv)
<1>1. OverlapInit => IInv /\ OInv
  BY InitIInv, InitOInv DEF OverlapInit
<1>2. IInv /\ OInv /\ [OverlapNext]_overlapVars => (IInv /\ OInv)'
  <2>1. [OverlapNext]_overlapVars => [Next]_vars
    BY DEF OverlapNext, overlapVars
  <2> QED BY <2>1, NextIInv, NextOInv
<1> QED BY <1>1, <1>2, PTL DEF OverlapSpec

-----------------------------------------------------------------------------
(* A commit of a request that nothing overtook is a step of OneByOne.      *)

\* A learner's request commits the row of its step and no other.
LEMMA CommitsOwnRow ==
    ASSUME IInv, NEW x \in Sessions, Commit(x), req[x].kind # "cancel"
    PROVE  /\ pc[x] = "commit"
           /\ req[x] \in Request /\ req[x].step \in Steps
           /\ heldP[x][req[x].step] = Free => progress' = progress /\ outbound' = outbound
           /\ heldP[x][req[x].step] # Free =>
                /\ progress' = [progress EXCEPT ![req[x].step] = heldP[x][req[x].step]]
                /\ ~Announced(x, req[x].step) => outbound' = outbound
<1> DEFINE s == req[x].step
<1> USE DEF IInv, TypeOK
<1>1. pc[x] = "commit" /\ req[x] \in Request /\ s \in Steps
  BY DEF Commit, Local, RequestShape, Request
<1>2. \A r \in Steps : heldP[x][r] # Free => r = s
  BY <1>1 DEF Local, LearnerFacts
<1>3. progress' = [r \in Steps |-> IF heldP[x][r] = Free THEN progress[r] ELSE heldP[x][r]]
  BY DEF Commit
<1>4. ASSUME ~Announced(x, s) PROVE outbound' = outbound
  <2>1. \A r \in Steps : ~Announced(x, r)
    BY <1>2, <1>4 DEF Announced
  <2> QED BY <2>1 DEF Commit
<1>5. heldP[x][s] = Free => progress' = progress /\ ~Announced(x, s)
  BY <1>2, <1>3 DEF Announced
<1>6. heldP[x][s] # Free => progress' = [progress EXCEPT ![s] = heldP[x][s]]
  BY <1>1, <1>2, <1>3
<1> QED BY <1>1, <1>4, <1>5, <1>6

\* The tally a session made of its own row and the committed ones is the tally
\* of the rows it commits.
LEMMA TallyIsFinished ==
    ASSUME IInv, NEW x \in Sessions, Commit(x)
    PROVE  AllRequiredDone(x) <=> Alone!Finished(progress')
<1>1. ASSUME NEW r \in Steps
      PROVE  Done(x, r) <=> (progress'[r] # Gone => progress'[r].st = "completed")
  BY DEF Commit, Done, IInv, TypeOK
<1> QED BY <1>1, AssignmentAssumption DEF AllRequiredDone, Alone!Finished

\* What is committed of the assignment.
LEMMA CommitsAssignment ==
    ASSUME NEW x \in Sessions, Commit(x), Opened(x) \/ heldA[x] = Free \/ heldA[x] = "completed"
    PROVE  assignment' = IF heldA[x] = "completed" THEN "completed"
                         ELSE IF Opened(x) THEN "in_progress" ELSE assignment
BY FreeIsNeither DEF Commit, Opened

\* A step is completed, or a quiz tried, and the assignment with it.
LEMMA CommitsCompletion ==
    ASSUME IInv, NEW x \in Sessions, Commit(x), req[x].kind # "cancel", Completion(x),
           \/ Opened(x) /\ ~AllRequiredDone(x)
           \/ IsOpen /\ heldA[x] = "completed" /\ AllRequiredDone(x)
    PROVE  Alone!Next
<1> DEFINE s == req[x].step
<1>1. req[x] \in Request /\ s \in Steps /\ progress[s] # Gone /\ progress[s] \in Row
  BY CommitsOwnRow DEF Completion, IInv, TypeOK
<1>2. Alone!Open /\ Alone!ToDo(s)
  BY DEF Alone!Open, Alone!ToDo, IsOpen, Opened, Completion
<1>3. assignment' = IF Alone!Finished(progress') THEN "completed" ELSE "in_progress"
  <2>1. AllRequiredDone(x) => heldA[x] = "completed"
    OBVIOUS
  <2>2. ~AllRequiredDone(x) => Opened(x) /\ heldA[x] # "completed"
    BY FreeIsNeither DEF Opened
  <2> QED BY <2>1, <2>2, CommitsAssignment, TallyIsFinished
<1>4. heldP[x][s] # Free => progress' = [progress EXCEPT ![s] = heldP[x][s]]
  BY CommitsOwnRow
<1>5. CASE s \notin Quizzes
  <2>1. PICK at \in {0, progress[s].at, Blocks - 1} :
            heldP[x][s] = RowOf("completed", at, progress[s].tries, progress[s].last)
    BY <1>5 DEF Completion
  <2>2. heldP[x][s] = [progress[s] EXCEPT !.st = "completed", !.at = at]
    BY <1>1, <2>1, RowWith
  <2>3. at \in Nat /\ heldP[x][s] # Free
    <3>1. at \in Nat
      BY <1>1, AssignmentAssumption DEF Row
    <3>2. heldP[x][s] \in Row
      BY <1>1, <2>1, <3>1 DEF RowOf, Row, ProgressStatus
    <3> QED BY <3>1, <3>2, FreeIsNeither
  <2>4. outbound' = outbound
    BY <1>5, <2>3, CommitsOwnRow DEF Announced
  <2>5. Alone!Complete(s, [progress[s] EXCEPT !.st = "completed", !.at = at])
    BY <1>2, <1>3, <1>4, <2>2, <2>3 DEF Alone!Complete
  <2> QED BY <1>1, <1>2, <1>5, <2>4, <2>5 DEF Alone!Next, Alone!CompleteContent
<1>6. CASE s \in Quizzes
  <2> DEFINE score == req[x].score
             n == progress[s].tries + 1
             st == IF score = "pass" THEN "completed" ELSE "in_progress"
  <2>1. /\ req[x].kind = "complete" /\ n \in 1..MaxTries
        /\ req[x].via = "telegram" => outbound[s][n] \in {"none", score}
        /\ heldP[x][s] = RowOf(st, progress[s].at, n, score)
    BY <1>6 DEF Completion
  <2>2. score \in {"fail", "pass"} /\ req[x].via \in {"telegram", "web"}
    <3>1. pc[x] # "idle"
      BY DEF Commit
    <3> QED BY <1>1, <1>6, <2>1, <3>1
        DEF Request, Scores, AllClients, IInv, Local, RequestShape
  <2>3. heldP[x][s] = [progress[s] EXCEPT !.st = st, !.tries = n, !.last = score]
    <3>1. heldP[x][s] = RowOf(st, progress[s].at, n, score)
      BY <2>1
    <3> HIDE DEF st, n, score
    <3> DEFINE r1 == [progress[s] EXCEPT !.st = st]
               r2 == [r1 EXCEPT !.tries = n]
    <3>2. r1 = RowOf(st, progress[s].at, progress[s].tries, progress[s].last)
      BY <1>1 DEF Row, RowOf
    <3> HIDE DEF r1
    <3>3. r2 = RowOf(st, progress[s].at, n, progress[s].last)
      BY <3>2 DEF RowOf
    <3> HIDE DEF r2
    <3>4. heldP[x][s] = [r2 EXCEPT !.last = score]
      BY <3>1, <3>3 DEF RowOf
    <3> QED BY <3>4 DEF r1, r2
  <2>4. heldP[x][s] \in Row
    BY <1>1, <2>1, <2>2, AssignmentAssumption DEF RowOf, Row, ProgressStatus, Scores
  <2>5. heldP[x][s].tries = n /\ heldP[x][s].last = score
    BY <2>1 DEF RowOf
  <2>6. ASSUME req[x].via = "telegram" PROVE Alone!Tell(s, n, score)
    <3> DEFINE told == [outbound EXCEPT ![s][n] = score]
    <3>1. \A r \in Steps : heldP[x][r] # Free => r = s
      BY CommitsOwnRow DEF IInv, Local, LearnerFacts
    <3>2. \A r \in Steps : Announced(x, r) <=> r = s
      BY <1>6, <2>1, <2>4, <2>6, <3>1, FreeIsNeither DEF Announced
    <3>3. outbound \in [Steps -> [1..MaxTries -> Scores \cup {"none"}]]
      BY DEF IInv, TypeOK
    <3>4. outbound'[s] = [outbound[s] EXCEPT ![n] = score]
      BY <1>1, <2>1, <2>5, <2>6, <3>2, <3>3 DEF Commit
    <3>5. \A r \in Steps : r # s => outbound'[r] = outbound[r]
      BY <3>2, <3>3 DEF Commit
    <3>6. outbound' = [r \in Steps |-> outbound'[r]]
      BY DEF Commit
    <3>7. outbound' = told
      BY <1>1, <3>3, <3>4, <3>5, <3>6
    <3> QED BY <2>1, <2>6, <3>7 DEF Alone!Tell
  <2>7. ASSUME req[x].via = "web" PROVE outbound' = outbound
    BY <2>4, <2>7, CommitsOwnRow, FreeIsNeither DEF Announced
  <2>8. Alone!Complete(s, [progress[s] EXCEPT !.st = st, !.tries = n, !.last = score])
    BY <1>2, <1>3, <1>4, <2>3, <2>4, FreeIsNeither DEF Alone!Complete
  <2>9. Alone!Attempt(s, score, req[x].via)
    BY <1>2, <1>6, <2>1, <2>2, <2>6, <2>7, <2>8 DEF Alone!Attempt
  <2> QED BY <1>1, <2>2, <2>9 DEF Alone!Next
<1> QED BY <1>5, <1>6

\* A step is started, and the assignment with it.
LEMMA CommitsStart ==
    ASSUME IInv, NEW x \in Sessions, Commit(x), req[x].kind # "cancel", Begun(x), Opened(x)
    PROVE  Alone!Next
<1> DEFINE s == req[x].step
<1>1. s \in Steps /\ progress[s] # Gone /\ progress[s] \in Row
  BY CommitsOwnRow DEF Begun, IInv, TypeOK
<1>2. heldP[x][s] = [progress[s] EXCEPT !.st = "in_progress", !.at = 0]
  BY <1>1, RowWith DEF Begun
<1>3. heldP[x][s] \in Row
  BY <1>1 DEF Begun, RowOf, Row, ProgressStatus
<1>4. progress' = [progress EXCEPT ![s] = [@ EXCEPT !.st = "in_progress", !.at = 0]]
  BY <1>1, <1>2, <1>3, FreeIsNeither, CommitsOwnRow
<1>5. outbound' = outbound
  BY CommitsOwnRow DEF Begun, Announced
<1>6. assignment' = "in_progress"
  BY CommitsAssignment, FreeIsNeither DEF Opened
<1>7. Alone!Start(s)
  BY <1>1, <1>4, <1>5, <1>6 DEF Alone!Start, Alone!Open, Alone!ToDo, Begun, Opened
<1> QED BY <1>1, <1>7 DEF Alone!Next

\* The cursor moves one block on.
LEMMA CommitsAdvance ==
    ASSUME IInv, NEW x \in Sessions, Commit(x), req[x].kind # "cancel", Moved(x), IsOpen,
           heldA[x] = Free
    PROVE  Alone!Next
<1> DEFINE s == req[x].step
<1>1. s \in Steps /\ progress[s] # Gone /\ progress[s] \in Row
  BY CommitsOwnRow DEF Moved, IInv, TypeOK
<1>2. heldP[x][s] = [progress[s] EXCEPT !.at = progress[s].at + 1]
  BY <1>1, RowWith DEF Moved
<1>3. heldP[x][s] \in Row
  BY <1>1 DEF Moved, RowOf, Row, ProgressStatus
<1>4. progress' = [progress EXCEPT ![s].at = @ + 1]
  <2>1. progress' = [progress EXCEPT ![s] = heldP[x][s]]
    BY <1>3, FreeIsNeither, CommitsOwnRow
  <2> QED BY <1>1, <1>2, <2>1 DEF IInv, TypeOK
<1>5. outbound' = outbound
  BY CommitsOwnRow DEF Moved, Announced
<1>6. assignment' = assignment
  BY DEF Commit
<1>7. Alone!Advance(s)
  BY <1>1, <1>4, <1>5, <1>6 DEF Alone!Advance, Alone!Open, Alone!ToDo, Moved, IsOpen
<1> QED BY <1>1, <1>7 DEF Alone!Next

\* The assignment is cancelled with all its rows.
LEMMA CommitsCancel ==
    ASSUME IInv, NEW x \in Sessions, Commit(x), req[x].kind = "cancel", IsOpen
    PROVE  Alone!Next
<1>1. progress' = [s \in Steps |-> Gone]
  BY CancelCommits DEF Commit
<1>2. outbound' = outbound
  <2>1. \A s \in Steps : ~Announced(x, s)
    BY DEF Announced
  <2> QED BY <2>1 DEF Commit, IInv, TypeOK
<1>3. assignment' = "cancelled"
  BY CancelCommits
<1> QED BY <1>1, <1>2, <1>3 DEF Alone!Next, Alone!Cancel, Alone!Open, IsOpen

\* A commit of a request that nothing overtook is what the request does alone.
LEMMA UndisturbedCommit ==
    ASSUME IInv, OInv, NEW x \in Sessions, Commit(x), fresh[x]
    PROVE  Alone!Next \/ UNCHANGED Alone!vars
<1>1. pc[x] = "commit" /\ Undisturbed(x)
  BY DEF Commit, OInv
<1>2. CASE req[x].kind = "cancel"
  BY <1>1, <1>2, CommitsCancel DEF Undisturbed, Unread
<1>3. CASE req[x].kind # "cancel"
  <2>1. Result(x)
    BY <1>1, <1>3 DEF Undisturbed, UndisturbedLearner, Unread
  <2>2. CASE Nothing(x)
    <3>1. progress' = progress /\ outbound' = outbound
      BY <1>3, <2>2, CommitsOwnRow DEF Nothing
    <3>2. assignment' = assignment
      BY <2>2 DEF Nothing, Commit
    <3> QED BY <3>1, <3>2 DEF Alone!vars
  <2>3. CASE Completion(x) /\ Opened(x) /\ ~AllRequiredDone(x)
    BY <1>3, <2>3, CommitsCompletion
  <2>4. CASE Completion(x) /\ IsOpen /\ heldA[x] = "completed" /\ AllRequiredDone(x)
    BY <1>3, <2>4, CommitsCompletion
  <2>5. CASE Begun(x) /\ Opened(x)
    BY <1>3, <2>5, CommitsStart
  <2>6. CASE Moved(x) /\ IsOpen /\ heldA[x] = Free
    BY <1>3, <2>6, CommitsAdvance
  <2> QED BY <2>1, <2>2, <2>3, <2>4, <2>5, <2>6 DEF Result
<1> QED BY <1>2, <1>3

\* A step is a commit that was overtaken, a step of OneByOne, or neither
\* changes the assignment nor its rows nor the messages.
LEMMA StepIsAtomic ==
    ASSUME IInv, OInv, [OverlapNext]_overlapVars
    PROVE  \/ \E x \in Sessions : Overtaken(x)
           \/ Alone!Next
           \/ UNCHANGED Alone!vars
<1>1. CASE ~(\E x \in Sessions : Commit(x))
  <2>1. [Next]_vars
    BY DEF OverlapNext, overlapVars
  <2> QED BY <1>1, <2>1, OnlyCommits DEF dbVars, Alone!vars
<1>2. ASSUME NEW x \in Sessions, Commit(x), ~Overtaken(x)
      PROVE  Alone!Next \/ UNCHANGED Alone!vars
  BY <1>2, UndisturbedCommit DEF Overtaken
<1> QED BY <1>1, <1>2

\* Whatever the requests and however they interleave, fail and are lost, only a
\* request that another overtook between its first read and its commit does
\* what it would not have done alone.
THEOREM OverlapUndisturbedIsAtomic == OverlapSpec => UndisturbedIsAtomic
BY OverlapInvariant, StepIsAtomic, PTL DEF OverlapSpec, UndisturbedIsAtomic

\* As long as none is overtaken, the requests are served as if one by one.
THEOREM OverlapImplementsOneByOne == OverlapSpec /\ NoneOvertaken => Alone!Spec
<1>1. OverlapInit => Alone!Init
  BY DEF OverlapInit, Init, Alone!Init
<1>2. IInv /\ OInv /\ [OverlapNext]_overlapVars /\ [\A x \in Sessions : ~Overtaken(x)]_overlapVars
        => [Alone!Next]_(Alone!vars)
  <2>1. UNCHANGED overlapVars => UNCHANGED Alone!vars
    BY DEF overlapVars, vars, dbVars, Alone!vars
  <2> QED BY <2>1, StepIsAtomic
<1> QED BY <1>1, <1>2, OverlapInvariant, PTL DEF OverlapSpec, NoneOvertaken, Alone!Spec

-----------------------------------------------------------------------------
(* What the documents say of the assignment holds of requests served as if *)
(* one by one.                                                             *)

\* The cursor is on a block, on the first of a step not started; and an
\* assignment with nothing left to do is not open.
ServedInv ==
    /\ \A s \in Steps : progress[s] # Gone =>
            /\ progress[s].at \in 0..(Blocks - 1)
            /\ progress[s].st = "not_started" => progress[s].at = 0
    /\ Alone!Finished(progress) => ~Alone!Open

\* The row of a step is replaced by one that is further.
Furthers(s, row) ==
    /\ progress[s] # Gone /\ progress[s].st # "completed"
    /\ progress' = [progress EXCEPT ![s] = row]
    /\ row \in Row /\ row.st # "not_started"
    /\ row.at \in 0..(Blocks - 1)
    /\ row.st # "completed" => row.at >= progress[s].at
    /\ row.tries >= progress[s].tries

\* A row only moves on: the cursor of a step under way and the attempts never go
\* back, and a completed row, whose cursor its completion may have dropped, stays
\* as it is.
RowsMoveOn ==
    [][\A s \in Steps : progress[s] # Gone /\ progress'[s] # Gone =>
            /\ progress'[s].st # "completed" => progress'[s].at >= progress[s].at
            /\ progress'[s].tries >= progress[s].tries
            /\ progress[s].st = "completed" => progress'[s] = progress[s]]_vars

\* Starting a step, or moving its cursor, furthers its row and completes nothing.
LEMMA ServedLearning ==
    ASSUME TypeOK, ServedInv, NEW s \in Steps, Alone!Start(s) \/ Alone!Advance(s)
    PROVE  \E row \in Row : Furthers(s, row) /\ row.st = "in_progress"
<1> USE DEF TypeOK, Alone!ToDo
<1>1. CASE Alone!Start(s)
  <2> DEFINE row == RowOf("in_progress", 0, progress[s].tries, progress[s].last)
  <2>1. /\ progress[s] \in Row /\ progress[s].at = 0 /\ progress[s].st # "completed"
        /\ progress' = [progress EXCEPT ![s] = [progress[s] EXCEPT !.st = "in_progress", !.at = 0]]
    BY <1>1 DEF Alone!Start, ServedInv
  <2>2. progress' = [progress EXCEPT ![s] = row]
    <3>1. [progress[s] EXCEPT !.st = "in_progress", !.at = 0] = row
      BY <2>1, RowWith
    <3> QED BY <2>1, <3>1
  <2>3. row \in Row /\ row.at \in 0..(Blocks - 1) /\ row.at >= progress[s].at
        /\ row.st = "in_progress" /\ row.tries >= progress[s].tries
    BY <2>1, AssignmentAssumption DEF RowOf, Row, ProgressStatus
  <2> QED BY <2>1, <2>2, <2>3, AssignmentAssumption DEF Furthers
<1>2. CASE Alone!Advance(s)
  <2> DEFINE row == RowOf("in_progress", progress[s].at + 1, progress[s].tries, progress[s].last)
  <2>1. /\ progress[s] \in Row /\ progress[s].at \in 0..(Blocks - 1)
        /\ progress[s].at < Blocks - 1 /\ progress[s].st = "in_progress"
        /\ progress' = [progress EXCEPT ![s].at = progress[s].at + 1]
    BY <1>2 DEF Alone!Advance, ServedInv
  <2>2. [progress[s] EXCEPT !.at = progress[s].at + 1] = row
    BY <2>1 DEF Row, RowOf
  <2>3. progress' = [progress EXCEPT ![s] = row]
    BY <2>1, <2>2
  <2>4. row \in Row /\ row.at \in 0..(Blocks - 1) /\ row.at >= progress[s].at
        /\ row.st = "in_progress" /\ row.tries >= progress[s].tries
    BY <2>1, AssignmentAssumption DEF RowOf, Row, ProgressStatus
  <2> QED BY <2>1, <2>3, <2>4, AssignmentAssumption DEF Furthers
<1> QED BY <1>1, <1>2

\* A request served alone furthers one row, if it does not cancel.
LEMMA ServedRow ==
    ASSUME TypeOK, ServedInv, Alone!Next, ~Alone!Cancel
    PROVE  \E s \in Steps, row \in Row : Furthers(s, row)
<1> USE DEF TypeOK, Alone!Complete, Alone!ToDo
<1>1. ASSUME NEW s \in Steps, Alone!CompleteContent(s)
      PROVE  \E row \in Row : Furthers(s, row)
  <2>1. PICK at \in {0, progress[s].at, Blocks - 1} :
            progress' = [progress EXCEPT ![s] = [progress[s] EXCEPT !.st = "completed", !.at = at]]
    BY <1>1 DEF Alone!CompleteContent
  <2>2. progress[s] \in Row /\ progress[s].at \in 0..(Blocks - 1) /\ progress[s].st # "completed"
    BY <1>1 DEF Alone!CompleteContent, ServedInv
  <2> DEFINE row == RowOf("completed", at, progress[s].tries, progress[s].last)
  <2>3. progress' = [progress EXCEPT ![s] = row]
    BY <2>1, <2>2, RowWith
  <2>4. row \in Row /\ row.at \in 0..(Blocks - 1)
        /\ row.st = "completed" /\ row.tries >= progress[s].tries
    BY <2>2, AssignmentAssumption DEF RowOf, Row, ProgressStatus
  <2> QED BY <2>2, <2>3, <2>4, AssignmentAssumption DEF Furthers
<1>2. ASSUME NEW s \in Steps, Alone!Start(s) \/ Alone!Advance(s)
      PROVE  \E row \in Row : Furthers(s, row)
  BY <1>2, ServedLearning
<1>3. ASSUME NEW s \in Steps, NEW score \in {"fail", "pass"}, NEW via \in {"telegram", "web"},
             Alone!Attempt(s, score, via)
      PROVE  \E row \in Row : Furthers(s, row)
  <2> DEFINE n == progress[s].tries + 1
             st == IF score = "pass" THEN "completed" ELSE "in_progress"
             row == [progress[s] EXCEPT !.st = st, !.tries = n, !.last = score]
  <2>1. /\ progress[s] \in Row /\ progress[s].at \in 0..(Blocks - 1)
        /\ progress[s].st # "completed" /\ n \in Nat
        /\ progress' = [progress EXCEPT ![s] = row]
    BY <1>3, AssignmentAssumption DEF Alone!Attempt, ServedInv, Row
  <2>2. row \in Row /\ row.at = progress[s].at /\ row.st = st /\ row.tries = n
    BY <2>1 DEF Row, ProgressStatus, Scores
  <2>3. row.tries >= progress[s].tries /\ st # "not_started"
    BY <2>1, <2>2 DEF Row
  <2> HIDE DEF row, st, n
  <2>4. row.at >= progress[s].at
    BY <2>1, <2>2, AssignmentAssumption
  <2> QED BY <2>1, <2>2, <2>3, <2>4, AssignmentAssumption DEF Furthers
<1> QED BY <1>1, <1>2, <1>3 DEF Alone!Next

\* A request that leaves nothing to do closes the assignment.
LEMMA ServedFinish ==
    ASSUME TypeOK, ServedInv, Alone!Next, Alone!Finished(progress')
    PROVE  assignment' \notin {"pending", "in_progress"}
<1> USE DEF TypeOK
<1>1. ASSUME NEW s \in Steps, Alone!CompleteContent(s) PROVE assignment' = "completed"
  BY <1>1 DEF Alone!CompleteContent, Alone!Complete
<1>2. ASSUME NEW s \in Steps, NEW score \in {"fail", "pass"}, NEW via \in {"telegram", "web"},
             Alone!Attempt(s, score, via)
      PROVE  assignment' = "completed"
  BY <1>2 DEF Alone!Attempt, Alone!Complete
<1>3. ASSUME NEW s \in Steps, NEW row \in Row, Furthers(s, row), row.st # "completed", Alone!Open
      PROVE  FALSE
  <2>1. progress'[s] = row /\ row # Gone
    BY <1>3, AssignmentAssumption DEF Furthers
  <2>2. s \notin (IF Required = {} THEN Steps ELSE Required)
    BY <1>3, <2>1 DEF Alone!Finished
  <2>3. Alone!Finished(progress)
    BY <1>3, <2>2 DEF Furthers, Alone!Finished
  <2> QED BY <1>3, <2>3 DEF ServedInv
<1>4. ASSUME NEW s \in Steps, Alone!Start(s) \/ Alone!Advance(s) PROVE FALSE
  <2>1. PICK row \in Row : Furthers(s, row) /\ row.st = "in_progress"
    BY <1>4, ServedLearning
  <2> QED BY <1>3, <1>4, <2>1 DEF Alone!Start, Alone!Advance
<1>5. CASE Alone!Cancel
  BY <1>5 DEF Alone!Cancel
<1> QED BY <1>1, <1>2, <1>4, <1>5 DEF Alone!Next

\* The invariant of requests served one by one.
LEMMA ServedStep ==
    ASSUME TypeOK, TypeOK', ServedInv, [Alone!Next]_(Alone!vars)
    PROVE  ServedInv'
<1>1. CASE UNCHANGED Alone!vars
  BY <1>1 DEF ServedInv, Alone!vars, Alone!Finished, Alone!Open
<1>2. CASE Alone!Next
  <2>1. Alone!Finished(progress') => assignment' \notin {"pending", "in_progress"}
    BY <1>2, ServedFinish
  <2>2. CASE Alone!Cancel
    BY <2>1, <2>2 DEF ServedInv, Alone!Cancel, Alone!Open, Alone!Finished
  <2>3. CASE ~Alone!Cancel
    <3>1. PICK s \in Steps, row \in Row : Furthers(s, row)
      BY <1>2, <2>3, ServedRow
    <3>2. ASSUME NEW r \in Steps, progress'[r] # Gone
          PROVE  /\ progress'[r].at \in 0..(Blocks - 1)
                 /\ progress'[r].st = "not_started" => progress'[r].at = 0
      BY <3>1, <3>2 DEF Furthers, TypeOK, ServedInv
    <3>3. Alone!Finished(progress)' => ~Alone!Open'
      BY <2>1 DEF Alone!Open, Alone!Finished
    <3> QED BY <3>2, <3>3 DEF ServedInv
  <2> QED BY <2>2, <2>3
<1> QED BY <1>1, <1>2

\* It holds of the assignment as long as no request is overtaken.
LEMMA ServedInvariant == OverlapSpec /\ NoneOvertaken => [](TypeOK /\ ServedInv)
<1>1. OverlapInit => ServedInv
  <2> SUFFICES ASSUME OverlapInit PROVE ServedInv
    OBVIOUS
  <2>1. \A s \in Steps : progress[s].st = "not_started" /\ progress[s].at = 0 /\ progress[s] # Gone
    <3>1. \A s \in Steps : progress[s] \in Row
      BY DEF OverlapInit, Init, Row, ProgressStatus
    <3> QED BY <3>1, AssignmentAssumption DEF OverlapInit, Init
  <2>2. (IF Required = {} THEN Steps ELSE Required) # {}
        /\ (IF Required = {} THEN Steps ELSE Required) \subseteq Steps
    BY AssignmentAssumption DEF Steps
  <2>3. ~Alone!Finished(progress)
    BY <2>1, <2>2 DEF Alone!Finished
  <2> QED BY <2>1, <2>3, AssignmentAssumption DEF ServedInv
<1>2. TypeOK /\ TypeOK' /\ ServedInv /\ [Alone!Next]_(Alone!vars) => ServedInv'
  BY ServedStep
<1>3. IInv => TypeOK
  BY DEF IInv
<1> QED BY <1>1, <1>2, <1>3, OverlapInvariant, OverlapImplementsOneByOne, PTL
    DEF OverlapSpec, Alone!Spec

\* What the documents say of a completed assignment, "Completed assignment
\* cannot be cancelled", holds of requests none of which is overtaken.
THEOREM ServedCompletedStays == OverlapSpec /\ NoneOvertaken => CompletedStaysCompleted
<1>1. [Alone!Next]_(Alone!vars) => (assignment = "completed" => assignment' # "cancelled")
  <2>1. Alone!Next => Alone!Open
    BY DEF Alone!Next, Alone!CompleteContent, Alone!Attempt, Alone!Complete, Alone!Start,
           Alone!Advance, Alone!Cancel
  <2> QED BY <2>1 DEF Alone!Open, Alone!vars
<1> QED BY <1>1, OverlapImplementsOneByOne, PTL DEF Alone!Spec, CompletedStaysCompleted

\* No attempt is counted twice, no completed step is reopened, and the cursor of
\* a step under way never moves back, when no request is overtaken.
THEOREM ServedRowsMoveOn == OverlapSpec /\ NoneOvertaken => RowsMoveOn
<1> DEFINE Moves == \A s \in Steps : progress[s] # Gone /\ progress'[s] # Gone =>
                        /\ progress'[s].st # "completed" => progress'[s].at >= progress[s].at
                        /\ progress'[s].tries >= progress[s].tries
                        /\ progress[s].st = "completed" => progress'[s] = progress[s]
<1>1. ASSUME TypeOK, ServedInv, [Alone!Next]_(Alone!vars) PROVE Moves
  <2>1. CASE Alone!Next /\ ~Alone!Cancel
    <3>1. PICK s \in Steps, row \in Row : Furthers(s, row)
      BY <1>1, <2>1, ServedRow
    <3> QED BY <1>1, <3>1 DEF Furthers, TypeOK, Row
  <2>2. CASE Alone!Cancel
    BY <2>2 DEF Alone!Cancel
  <2>3. CASE UNCHANGED Alone!vars
    BY <1>1, <2>3 DEF Alone!vars, TypeOK, Row
  <2> QED BY <1>1, <2>1, <2>2, <2>3
<1> QED BY <1>1, ServedInvariant, OverlapImplementsOneByOne, PTL DEF Alone!Spec, RowsMoveOn

FoundRow(x) == pc[x] # "idle" /\ req[x].kind = "advance" => seenP[x] # Free

RowsFound == \A x \in Sessions : FoundRow(x)

\* An advance remembers the row it found.
LEMMA AdvanceFoundRow == OverlapSpec => []RowsFound
<1>1. Init => RowsFound
  BY DEF Init, RowsFound, FoundRow
<1>2. ASSUME IInv, RowsFound, [Next]_vars
      PROVE  RowsFound'
  <2> USE <1>2 DEF IInv, TypeOK, RowsFound, FoundRow
  <2>1. ASSUME NEW x \in Sessions, NEW y \in Sessions, Arrive(y) PROVE FoundRow(x)'
    BY <2>1, FreeIsNeither DEF Arrive, Complete, Learn, Cancel, Goto
  <2>2. ASSUME NEW x \in Sessions, NEW y \in Sessions, RollBack(y) \/ Commit(y) \/ Lose(y)
        PROVE  FoundRow(x)'
    BY <2>2 DEF RollBack, Commit, Lose, End
  <2>3. ASSUME NEW x \in Sessions, NEW y \in Sessions, Completing(y), ~RollBack(y)
        PROVE  FoundRow(x)'
    <3>1. pc[y] \in {"complete", "readProgress"} => req[y].kind # "advance"
      BY DEF Local, RequestShape
    <3>2. pc[y] # "idle"
      BY <2>3 DEF Completing, CompleteAfterRead, ReadProgress, WriteProgress, OpenAssignment,
                  Tally, CloseAssignment
    <3> QED BY <2>3, <3>1, <3>2
        DEF Completing, CompleteAfterRead, ReadProgress, WriteProgress, OpenAssignment,
            WriteAssignment, Tally, CloseAssignment, Goto
  <2>4. ASSUME NEW x \in Sessions, NEW y \in Sessions, Learning(y), ~RollBack(y)
        PROVE  FoundRow(x)'
    <3>1. pc[y] = "rollback" => req[y].kind # "advance"
      BY DEF Local, RequestShape
    <3> QED BY <2>4, <3>1
        DEF Learning, ReadAssignment, StartStep, OpenStarted, WriteAssignment, LeaveRead,
            Advance, Goto
  <2>5. ASSUME NEW x \in Sessions, NEW y \in Sessions, Cancelling(y) PROVE FoundRow(x)'
    BY <2>5 DEF Cancelling, Discard, MarkCancelled, WriteAssignment, Goto
  <2>6. CASE UNCHANGED vars
    BY <2>6 DEF vars, sessionVars
  <2> QED BY <2>1, <2>2, <2>3, <2>4, <2>5, <2>6 DEF Next, Proceed
<1> QED BY <1>1, <1>2, OverlapIsAssignment, AssignmentInvariant, PTL DEF Spec

\* An advance that is not overtaken moves the cursor from the block it names.
LEMMA UndisturbedAdvance ==
    ASSUME IInv, OInv, NEW x \in Sessions, FoundRow(x), Commit(x), fresh[x],
           req[x].kind = "advance", seenP[x].st = "in_progress",
           progress[req[x].step] # Gone, progress[req[x].step].at > req[x].at
    PROVE  progress'[req[x].step].at = progress[req[x].step].at
<1> DEFINE s == req[x].step
<1>1. /\ pc[x] = "commit" /\ UndisturbedLearner(x) /\ req[x] \in Request /\ s \in Steps
      /\ progress[s] \in Row
  BY CommitsOwnRow DEF Commit, OInv, Undisturbed, Unread, IInv, TypeOK
<1>2. progress[s].st = "in_progress"
  BY <1>1 DEF FoundRow, UndisturbedLearner
<1>3. ~Begun(x) /\ ~Completion(x)
  BY <1>2 DEF Begun, Completion
<1>4. ~Moved(x)
  BY <1>1 DEF Moved, Row, Request
<1>5. Nothing(x)
  BY <1>1, <1>3, <1>4 DEF UndisturbedLearner, Result
<1> QED BY <1>1, <1>5, CommitsOwnRow DEF Nothing

\* What they say of callbacks that come late or twice, "no-ops", holds of every
\* advance that is not overtaken.
THEOREM ServedStaleAdvance == OverlapSpec /\ NoneOvertaken => StaleAdvanceIsNoOp
<1> DEFINE NoOp ==
        \A x \in Sessions :
            LET s == req[x].step IN
            /\ pc[x] = "commit" /\ pc'[x] = "idle"
            /\ req[x].kind = "advance" /\ seenP[x].st = "in_progress"
            /\ progress[s] # Gone /\ progress[s].at > req[x].at
            /\ progress'[s] # Gone
            => progress'[s].at = progress[s].at
<1>1. ASSUME IInv, OInv, RowsFound, [OverlapNext]_overlapVars,
             [\A x \in Sessions : ~Overtaken(x)]_overlapVars
      PROVE  NoOp
  <2>1. ASSUME NEW x \in Sessions, pc[x] = "commit" /\ pc'[x] = "idle" PROVE NoOp
    <3>1. [Next]_vars
      BY <1>1 DEF OverlapNext, overlapVars
    <3>2. CASE ~(\E y \in Sessions : Commit(y))
      BY <3>1, <3>2, OnlyCommits DEF dbVars
    <3>3. CASE \E y \in Sessions : Commit(y)
      <4>1. PICK y \in Sessions : Commit(y)
        BY <3>3
      <4>2. \A z \in Sessions : z # y => pc'[z] = pc[z]
        BY <1>1, <4>1 DEF Commit, End, IInv, TypeOK
      <4>3. x = y
        BY <2>1, <4>2
      <4>4. fresh[y]
        <5>1. CASE UNCHANGED overlapVars
          BY <2>1, <5>1 DEF overlapVars, vars, sessionVars
        <5> QED BY <1>1, <4>1, <5>1 DEF Overtaken
      <4> QED BY <1>1, <4>1, <4>2, <4>4, UndisturbedAdvance DEF RowsFound
    <3> QED BY <3>2, <3>3
  <2> QED BY <2>1
<1> QED BY <1>1, OverlapInvariant, AdvanceFoundRow, PTL
    DEF OverlapSpec, NoneOvertaken, StaleAdvanceIsNoOp

\* The message of the attempt stored, if there is one, carries its verdict, and
\* no message is there for an attempt not yet made.
ToldIsTrue ==
    \A s \in Quizzes : progress[s] # Gone =>
        /\ progress[s].tries > 0 => outbound[s][progress[s].tries] \in {"none", progress[s].last}
        /\ \A m \in 1..MaxTries : m > progress[s].tries => outbound[s][m] = "none"

\* An attempt gets a number that no message carries.
LEMMA ServedTells ==
    ASSUME TypeOK, ToldIsTrue, [Alone!Next]_(Alone!vars)
    PROVE  ToldIsTrue'
<1> USE DEF TypeOK
<1> SUFFICES ASSUME NEW q \in Quizzes, progress'[q] # Gone
             PROVE  /\ progress'[q].tries > 0 =>
                            outbound'[q][progress'[q].tries] \in {"none", progress'[q].last}
                    /\ \A m \in 1..MaxTries : m > progress'[q].tries => outbound'[q][m] = "none"
  BY DEF ToldIsTrue
<1>1. q \in Steps
  BY AssignmentAssumption
<1>2. CASE /\ progress[q] # Gone /\ outbound'[q] = outbound[q]
           /\ progress'[q].tries = progress[q].tries /\ progress'[q].last = progress[q].last
  BY <1>2 DEF ToldIsTrue
<1>3. CASE UNCHANGED Alone!vars
  BY <1>2, <1>3 DEF Alone!vars
<1>4. CASE Alone!Cancel
  BY <1>1, <1>4 DEF Alone!Cancel
<1>5. ASSUME NEW s \in Steps, Alone!CompleteContent(s) \/ Alone!Start(s) \/ Alone!Advance(s)
      PROVE  <1>2!1
  <2>1. outbound' = outbound
    BY <1>5 DEF Alone!CompleteContent, Alone!Start, Alone!Advance
  <2>2. CASE q # s
    BY <1>1, <1>5, <2>1, <2>2
    DEF Alone!CompleteContent, Alone!Complete, Alone!Start, Alone!Advance
  <2>3. CASE q = s
    <3>1. Alone!Start(q) /\ progress[q] \in Row
      BY <1>1, <1>5, <2>3 DEF Alone!CompleteContent, Alone!Advance, Alone!Start, Alone!ToDo
    <3>2. progress'[q] = [progress[q] EXCEPT !.st = "in_progress", !.at = 0]
      BY <1>1, <3>1 DEF Alone!Start
    <3>3. progress'[q] = RowOf("in_progress", 0, progress[q].tries, progress[q].last)
      BY <3>1, <3>2, RowWith
    <3> QED BY <2>1, <3>1, <3>3 DEF Alone!Start, Alone!ToDo, RowOf
  <2> QED BY <2>2, <2>3
<1>6. ASSUME NEW s \in Steps, NEW score \in {"fail", "pass"}, NEW via \in {"telegram", "web"},
             Alone!Attempt(s, score, via), q # s
      PROVE  <1>2!1
  BY <1>1, <1>6 DEF Alone!Attempt, Alone!Complete, Alone!Tell
<1>7. ASSUME NEW score \in {"fail", "pass"}, NEW via \in {"telegram", "web"},
             Alone!Attempt(q, score, via)
      PROVE  /\ outbound'[q][progress'[q].tries] \in {"none", progress'[q].last}
             /\ \A m \in 1..MaxTries : m > progress'[q].tries => outbound'[q][m] = "none"
  <2> DEFINE n == progress[q].tries + 1
             st == IF score = "pass" THEN "completed" ELSE "in_progress"
  <2>1. /\ progress[q] # Gone /\ progress[q] \in Row /\ n \in 1..MaxTries
        /\ progress'[q] = [progress[q] EXCEPT !.st = st, !.tries = n, !.last = score]
    BY <1>1, <1>7 DEF Alone!Attempt, Alone!Complete, Alone!ToDo
  <2>2. progress'[q].tries = n /\ progress'[q].last = score
    BY <2>1 DEF Row
  <2>3. \A m \in 1..MaxTries : m >= n => outbound[q][m] = "none"
    BY <2>1 DEF ToldIsTrue, Row
  <2>4. outbound'[q] \in {outbound[q], [outbound[q] EXCEPT ![n] = score]}
    BY <1>1, <1>7 DEF Alone!Attempt, Alone!Tell
  <2>5. outbound[q] \in [1..MaxTries -> Scores \cup {"none"}] /\ n \in Nat /\ n >= n
    BY <1>1, <2>1
  <2> HIDE DEF n
  <2>6. CASE outbound'[q] = outbound[q]
    BY <2>1, <2>2, <2>3, <2>5, <2>6
  <2>7. CASE outbound'[q] = [outbound[q] EXCEPT ![n] = score]
    BY <2>1, <2>2, <2>3, <2>5, <2>7
  <2> QED BY <2>4, <2>6, <2>7
<1> QED BY <1>2, <1>3, <1>4, <1>5, <1>6, <1>7 DEF Alone!Next

\* The employee is never told a verdict that is not the one stored, in the bot
\* and in the web client together, when no request is overtaken.
THEOREM ServedToldIsTrue == OverlapSpec /\ NoneOvertaken => []ToldIsTrue
<1>1. OverlapInit => ToldIsTrue
  <2>1. Quizzes \subseteq Steps
    BY AssignmentAssumption
  <2> QED BY <2>1 DEF OverlapInit, Init, ToldIsTrue
<1>2. TypeOK /\ ToldIsTrue /\ [Alone!Next]_(Alone!vars) => ToldIsTrue'
  BY ServedTells
<1> QED BY <1>1, <1>2, ServedInvariant, OverlapImplementsOneByOne, PTL
    DEF OverlapSpec, Alone!Spec

\* And the flow they describe: an assignment with all required steps done is
\* completed, although two requests that overlap can leave it open.
THEOREM ServedFinishedIsClosed == OverlapSpec /\ NoneOvertaken => []FinishedIsClosed
<1>1. IInv /\ OInv /\ TypeOK /\ ServedInv => FinishedIsClosed
  <2> SUFFICES ASSUME IInv, ServedInv, Required # {},
                      \A s \in Required : progress[s] # Gone /\ progress[s].st = "completed"
               PROVE  assignment = "completed"
    BY DEF FinishedIsClosed
  <2>1. ~Alone!Open
    BY DEF ServedInv, Alone!Finished
  <2>2. assignment # "cancelled"
    BY AssignmentAssumption DEF IInv, CancelledIsClean
  <2> QED BY <2>1, <2>2 DEF IInv, TypeOK, AssignmentStatus, Alone!Open
<1> QED BY <1>1, OverlapInvariant, ServedInvariant, PTL
=============================================================================
