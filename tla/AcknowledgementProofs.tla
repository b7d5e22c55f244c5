----------------------- MODULE AcknowledgementProofs -----------------------
(***************************************************************************)
(* Acknowledgement: completion was earned, and what a closed assignment    *)
(* and the last acknowledgement can expect, for all items and sessions.    *)
(***************************************************************************)
EXTENDS Acknowledgement, TLAPS

\* A row that was written is locked.
StatusLock == \A x, y \in Sessions : x # y => wrote[x] = Free \/ wrote[y] = Free

Counted(x) == Required \subseteq acked \cup {wroteItem[x]}

\* What a request knows.  The status read first is old as soon as another one
\* commits (alone), but acknowledgements only accumulate.
Local(x) ==
    /\ pc[x] = "idle" => wrote[x] = Free /\ wroteItem[x] = Free
    /\ pc[x] = "close" => Counted(x)
    /\ wrote[x] = "completed" => pc[x] = "commit" /\ Counted(x)
    /\ pc[x] # "idle" /\ alone[x] => status \in Open
    /\ pc[x] \in {"readItem", "mark", "cancel"} => wrote[x] = Free /\ wroteItem[x] = Free
    /\ pc[x] \in {"readItem", "mark"} /\ kind[x] # "open" => item[x] \in Items
    /\ pc[x] = "ackItem" => item[x] \in Items /\ wroteItem[x] = Free
    /\ pc[x] = "commit" /\ alone[x] /\ wroteItem[x] # Free /\ Counted(x)
           => wrote[x] = "completed"

AckInv ==
    /\ AckTypeOK
    /\ StatusLock
    /\ CompletedMeansAcknowledged
    /\ \A x \in Sessions : Local(x)

-----------------------------------------------------------------------------
LEMMA AckInitial == ASSUME AcknowledgementAssumption, AckInit PROVE AckInv
BY DEF AcknowledgementAssumption, AckInit, AckInv, AckTypeOK, StatusLock,
       CompletedMeansAcknowledged, Local, Open, Closed, Points

\* A step that commits nothing and locks only for the session that moves leaves
\* the facts of the others as they are.
LEMMA OthersKept ==
    ASSUME NEW x \in Sessions, AckInv, UNCHANGED rowVars,
           \A y \in Sessions \ {x} :
               /\ pc'[y] = pc[y] /\ wrote'[y] = wrote[y] /\ wroteItem'[y] = wroteItem[y]
               /\ kind'[y] = kind[y] /\ item'[y] = item[y] /\ alone'[y] = alone[y]
    PROVE  \A y \in Sessions \ {x} : Local(y)'
BY SMTT(30) DEF AckInv, Local, Counted, rowVars

LEMMA LockKept ==
    ASSUME NEW x \in Sessions, AckInv,
           \A y \in Sessions \ {x} : wrote'[y] = wrote[y],
           wrote'[x] = Free \/ wrote'[x] = wrote[x] \/ StatusFree(x)
    PROVE  StatusLock'
BY DEF AckInv, StatusLock, StatusFree

\* The two facts together: what is left to show is about x itself.
LEMMA FromLocal ==
    ASSUME NEW x \in Sessions, AckInv, UNCHANGED rowVars, AckTypeOK', StatusLock',
           \A y \in Sessions \ {x} : Local(y)', Local(x)'
    PROVE  AckInv'
BY DEF AckInv, CompletedMeansAcknowledged, rowVars

LEMMA BeginStep ==
    ASSUME AcknowledgementAssumption, AckInv, NEW x \in Sessions, NEW i \in Items \cup {Free},
           NEW what \in {"open", "acknowledge", "cancel"},
           NEW point \in {"readItem", "mark", "cancel"},
           what = "open" \/ point = "cancel" \/ i \in Items,
           status \in Open, Begin(x, what, i, point)
    PROVE  AckInv'
<1>1. AckTypeOK'
  BY DEF AckInv, AckTypeOK, Begin, Goto, rowVars, lockVars, Points
<1>2. StatusLock'
  BY LockKept DEF Begin, lockVars
<1>3. \A y \in Sessions \ {x} : Local(y)'
  BY OthersKept DEF Begin, Goto, lockVars, AckInv, AckTypeOK
<1>4. Local(x)'
  BY DEF AckInv, AckTypeOK, Local, Begin, Goto, rowVars, lockVars, Open, Counted,
         AcknowledgementAssumption
<1> QED BY <1>1, <1>2, <1>3, <1>4, FromLocal DEF Begin

LEMMA ReadItemStep ==
    ASSUME AckInv, NEW x \in Sessions, ReadItem(x)
    PROVE  AckInv'
<1>1. AckTypeOK'
  BY DEF AckInv, AckTypeOK, ReadItem, Goto, rowVars, lockVars, Points
<1>2. StatusLock'
  BY LockKept DEF ReadItem, lockVars
<1>3. \A y \in Sessions \ {x} : Local(y)'
  BY OthersKept DEF ReadItem, Goto, lockVars, AckInv, AckTypeOK
<1>4. Local(x)'
  BY DEF AckInv, AckTypeOK, Local, ReadItem, Goto, rowVars, lockVars, Open, Counted
<1> QED BY <1>1, <1>2, <1>3, <1>4, FromLocal DEF ReadItem

LEMMA MarkInProgressStep ==
    ASSUME AcknowledgementAssumption, AckInv, NEW x \in Sessions, MarkInProgress(x)
    PROVE  AckInv'
<1>1. AckTypeOK'
  BY DEF AckInv, AckTypeOK, MarkInProgress, Write, Goto, rowVars, lockVars, Points, Open
<1>2. StatusLock'
  BY LockKept DEF MarkInProgress, Write, lockVars, AckInv, AckTypeOK
<1>3. \A y \in Sessions \ {x} : Local(y)'
  BY OthersKept DEF MarkInProgress, Write, Goto, lockVars, rowVars, AckInv, AckTypeOK
<1>4. Local(x)'
  BY DEF AckInv, AckTypeOK, Local, MarkInProgress, Write, Goto, rowVars, lockVars, Open,
         Counted, AcknowledgementAssumption
<1> QED BY <1>1, <1>2, <1>3, <1>4, FromLocal DEF MarkInProgress, Write

LEMMA AckItemStep ==
    ASSUME AcknowledgementAssumption, AckInv, NEW x \in Sessions, AckItem(x)
    PROVE  AckInv'
<1>1. AckTypeOK'
  BY DEF AckInv, AckTypeOK, AckItem, Goto, rowVars, Points
<1>2. StatusLock'
  BY LockKept DEF AckItem
<1>3. \A y \in Sessions \ {x} : Local(y)'
  BY OthersKept DEF AckItem, Goto, AckInv, AckTypeOK
<1>4. Local(x)'
  BY DEF AckInv, AckTypeOK, Local, AckItem, Goto, rowVars, Open, Counted
<1> QED BY <1>1, <1>2, <1>3, <1>4, FromLocal DEF AckItem

LEMMA TallyStep ==
    ASSUME AckInv, NEW x \in Sessions, Tally(x)
    PROVE  AckInv'
<1>1. AckTypeOK'
  BY DEF AckInv, AckTypeOK, Tally, Goto, rowVars, lockVars, memoryVars, Points
<1>2. StatusLock'
  BY LockKept DEF Tally, lockVars
<1>3. \A y \in Sessions \ {x} : Local(y)'
  BY OthersKept DEF Tally, Goto, lockVars, memoryVars, AckInv, AckTypeOK
<1>4. Local(x)'
  BY DEF AckInv, AckTypeOK, Local, Tally, Tallied, Goto, rowVars, lockVars, memoryVars,
         Open, Counted
<1> QED BY <1>1, <1>2, <1>3, <1>4, FromLocal DEF Tally

LEMMA CloseStep ==
    ASSUME AckInv, NEW x \in Sessions, Close(x)
    PROVE  AckInv'
<1>1. AckTypeOK'
  BY DEF AckInv, AckTypeOK, Close, Write, Goto, rowVars, Points, Closed
<1>2. StatusLock'
  BY LockKept DEF Close, Write, AckInv, AckTypeOK
<1>3. \A y \in Sessions \ {x} : Local(y)'
  BY OthersKept DEF Close, Write, Goto, AckInv, AckTypeOK
<1>4. Local(x)'
  BY DEF AckInv, AckTypeOK, Local, Close, Write, Goto, rowVars, Open, Counted
<1> QED BY <1>1, <1>2, <1>3, <1>4, FromLocal DEF Close, Write

LEMMA MarkCancelledStep ==
    ASSUME AcknowledgementAssumption, AckInv, NEW x \in Sessions, MarkCancelled(x)
    PROVE  AckInv'
<1>1. AckTypeOK'
  BY DEF AckInv, AckTypeOK, MarkCancelled, Write, Goto, rowVars, Points, Closed
<1>2. StatusLock'
  BY LockKept DEF MarkCancelled, Write, AckInv, AckTypeOK
<1>3. \A y \in Sessions \ {x} : Local(y)'
  BY OthersKept DEF MarkCancelled, Write, Goto, AckInv, AckTypeOK
<1>4. Local(x)'
  BY DEF AckInv, AckTypeOK, Local, MarkCancelled, Write, Goto, rowVars, Open, Counted
<1> QED BY <1>1, <1>2, <1>3, <1>4, FromLocal DEF MarkCancelled, Write

LEMMA RollBackStep ==
    ASSUME AcknowledgementAssumption, AckInv, NEW x \in Sessions, RollBack(x)
    PROVE  AckInv'
<1>1. AckTypeOK'
  BY DEF AckInv, AckTypeOK, RollBack, End, Goto, rowVars, Points
<1>2. StatusLock'
  BY LockKept DEF RollBack, End, AckInv, AckTypeOK
<1>3. \A y \in Sessions \ {x} : Local(y)'
  BY OthersKept DEF RollBack, End, Goto, AckInv, AckTypeOK
<1>4. Local(x)'
  BY DEF AckInv, AckTypeOK, Local, RollBack, End, Goto, AcknowledgementAssumption, Closed
<1> QED BY <1>1, <1>2, <1>3, <1>4, FromLocal DEF RollBack

\* A commit is seen by the others: they are not alone any more, and what they
\* counted is still there.
LEMMA CommitStep ==
    ASSUME AcknowledgementAssumption, AckInv, NEW x \in Sessions, Commit(x)
    PROVE  AckInv'
<1>1. AckTypeOK'
  BY DEF AckInv, AckTypeOK, Commit, End, Goto, Points
<1>2. StatusLock'
  BY LockKept DEF Commit, End, AckInv, AckTypeOK
<1>3. CompletedMeansAcknowledged'
  BY DEF AckInv, CompletedMeansAcknowledged, Local, Counted, Commit,
         AcknowledgementAssumption, Open, Closed
<1>4. ASSUME NEW y \in Sessions \ {x} PROVE Local(y)'
  <2>1. /\ pc'[y] = pc[y] /\ wrote'[y] = wrote[y] /\ wroteItem'[y] = wroteItem[y]
        /\ kind'[y] = kind[y] /\ item'[y] = item[y]
    BY DEF AckInv, AckTypeOK, Commit, End, Goto
  <2>2. alone'[y] => alone[y] /\ UNCHANGED <<status, acked>>
    BY DEF Commit, AckInv, AckTypeOK
  <2>3. Counted(y) => Counted(y)'
    BY <2>1 DEF Counted, Commit
  <2>4. alone'[y] => (Counted(y)' => Counted(y))
    BY <2>1, <2>2 DEF Counted
  <2> QED BY <2>1, <2>2, <2>3, <2>4 DEF AckInv, Local
<1>5. Local(x)'
  BY DEF AckInv, AckTypeOK, Local, Commit, End, Goto, AcknowledgementAssumption, Closed
<1> QED BY <1>1, <1>2, <1>3, <1>4, <1>5 DEF AckInv

LEMMA AckStepInv ==
    ASSUME AcknowledgementAssumption, AckInv, NEW x \in Sessions, AckStep(x)
    PROVE  AckInv'
<1>1. CASE OpenDocument(x) BY <1>1, BeginStep DEF OpenDocument, Open
<1>2. CASE \E i \in Items : Acknowledge(x, i)
  <2> PICK i \in Items : Acknowledge(x, i) BY <1>2
  <2> QED BY BeginStep DEF Acknowledge
<1>3. CASE Cancel(x) BY <1>3, BeginStep DEF Cancel
<1> QED BY <1>1, <1>2, <1>3, ReadItemStep, MarkInProgressStep, AckItemStep, TallyStep,
           CloseStep, MarkCancelledStep, CommitStep, RollBackStep DEF AckStep

LEMMA AckStutter ==
    ASSUME AckInv, UNCHANGED ackVars PROVE AckInv'
BY DEF AckInv, ackVars, rowVars, memoryVars, lockVars, AckTypeOK, StatusLock,
       CompletedMeansAcknowledged, Local, Counted

-----------------------------------------------------------------------------
(* What the properties say of a step.                                      *)

\* Only a commit changes the rows; it ends its request.
LEMMA OnlyCommitWrites ==
    ASSUME AcknowledgementAssumption, AckInv, NEW x \in Sessions, AckStep(x),
           status' # status \/ acked' # acked
    PROVE  Commit(x)
BY DEF AckStep, OpenDocument, Acknowledge, Cancel, Begin, ReadItem, MarkInProgress, Write,
       AckItem, Tally, Close, MarkCancelled, RollBack, rowVars

LEMMA LateStep ==
    ASSUME AcknowledgementAssumption, AckInv, NEW x \in Sessions, AckStep(x),
           status \in Closed, status' # status
    PROVE  Overlapped
<1>1. Commit(x) BY OnlyCommitWrites
<1>2. ~alone[x]
  BY <1>1 DEF Commit, AckInv, Local, Open, Closed
<1> QED BY <1>1, <1>2 DEF Overlapped, Commit, End, Goto, AckInv, AckTypeOK

LEMMA LastStep ==
    ASSUME AcknowledgementAssumption, AckInv, NEW x \in Sessions, AckStep(x),
           acked' # acked, Required \subseteq acked'
    PROVE  status' = "completed" \/ Overlapped
<1>1. Commit(x) BY OnlyCommitWrites
<1>2. CASE ~alone[x]
  BY <1>1, <1>2 DEF Overlapped, Commit, End, Goto, AckInv, AckTypeOK
<1>3. CASE alone[x]
  <2>1. wroteItem[x] # Free /\ Counted(x)
    BY <1>1 DEF Commit, Counted
  <2> QED BY <1>1, <1>3, <2>1 DEF AckInv, Local, Commit, AcknowledgementAssumption, Closed
<1> QED BY <1>2, <1>3

-----------------------------------------------------------------------------
LEMMA AckSpecInv == ASSUME AcknowledgementAssumption PROVE AckSpec => []AckInv
<1>1. AckInit => AckInv BY AckInitial
<1>2. AckInv /\ [AckNext]_ackVars => AckInv' BY AckStepInv, AckStutter DEF AckNext
<1> QED BY <1>1, <1>2, PTL DEF AckSpec

\* The rows and the requests have the types the model gives them.
THEOREM AcknowledgementTypes ==
    ASSUME AcknowledgementAssumption PROVE AckSpec => []AckTypeOK
<1>1. AckInv => AckTypeOK BY DEF AckInv
<1> QED BY <1>1, AckSpecInv, PTL

\* A completed assignment has every required acknowledgement stored, whatever
\* requests run side by side (acknowledge_item).
THEOREM CompletionWasEarned ==
    ASSUME AcknowledgementAssumption PROVE AckSpec => []CompletedMeansAcknowledged
<1>1. AckInv => CompletedMeansAcknowledged BY DEF AckInv
<1> QED BY <1>1, AckSpecInv, PTL

\* Closed is final to every request that overlaps no other commit.
THEOREM ClosedIsFinalToNewcomers ==
    ASSUME AcknowledgementAssumption PROVE AckSpec => LateChangeOverlapped
<1>1. AckInv /\ [AckNext]_ackVars
          => [(status \in Closed /\ status' # status) => Overlapped]_ackVars
  BY LateStep DEF AckNext
<1> QED BY <1>1, AckSpecInv, PTL DEF AckSpec, LateChangeOverlapped

\* The last required acknowledgement completes the assignment, unless requests
\* overlapped.
THEOREM LastAcknowledgement ==
    ASSUME AcknowledgementAssumption PROVE AckSpec => LastAcknowledgementCloses
<1>1. AckInv /\ [AckNext]_ackVars
          => [(acked' # acked /\ Required \subseteq acked')
                  => (status' = "completed" \/ Overlapped)]_ackVars
  BY LastStep DEF AckNext
<1> QED BY <1>1, AckSpecInv, PTL DEF AckSpec, LastAcknowledgementCloses
=============================================================================
