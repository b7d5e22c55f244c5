---------------------------- MODULE CourseProofs ----------------------------
(* The course keeps the steps its assignments refer to, for any number of  *)
(* requests at once.                                                       *)
EXTENDS Course, TLAPS

(* What a request at each point is doing, and has locked. *)
AtWork(x) ==
    /\ pc[x] = "idle" => job[x] = "none"
    /\ pc[x] # "idle" => job[x] # "none"
    /\ pc[x] = "list" => job[x] \in Edits \cup {"assign", "publish"}
    /\ pc[x] \in {"relist", "reread", "insert"} => job[x] = "assign"
    /\ pc[x] \in {"check", "insertStep", "write", "remove", "renumber"}
           => job[x] \in Edits
    /\ pc[x] = "programRow" => job[x] \in Edits \cup Switches
    /\ pc[x] = "renumber" => job[x] \in {"delete", "reorder"}
    /\ pc[x] = "remove" => job[x] = "delete"

Holds(x) ==
    /\ \A s \in Steps : wrote[x][s] # Free =>
           /\ job[x] \in Edits
           /\ pc[x] \in {"list", "renumber", "programRow", "commit"}
           /\ pc[x] = "list" => job[x] = "delete"
    /\ \A s \in Steps : wrote[x][s] = Gone => job[x] = "delete"
    /\ shared[x] # {} => job[x] = "assign" /\ pc[x] = "commit"
    /\ job[x] = "assign" /\ pc[x] = "commit" => shared[x] = Live(seen[x])

(* Nobody writes a row another has written. *)
RowsExclusive ==
    \A x, y \in Sessions, s \in Steps :
        wrote[x][s] # Free /\ wrote[y][s] # Free => x = y

(* What is being deleted is referred to by nobody, committed or not. *)
DeletedIsUnreferenced ==
    \A x \in Sessions, s \in Steps : wrote[x][s] = Gone =>
        ~Referenced(s) /\ \A y \in Sessions : s \notin shared[y]

SharedExist == \A x \in Sessions : shared[x] \subseteq Live(course)

(* What a request knows if nothing changed since it began. *)
Knows(x) == fresh[x] =>
    /\ pc[x] \notin {"idle", "program"} => rev[x] = revision
    /\ job[x] \in Edits /\ \/ pc[x] \in {"insertStep", "write", "remove", "renumber",
                                        "programRow", "commit"}
                           \/ pc[x] = "list" /\ job[x] = "delete"
           => Active = {}
    /\ job[x] = "assign" /\ pc[x] \notin {"idle", "program"} => published
    /\ job[x] = "assign" /\ pc[x] \in {"relist", "reread", "insert", "commit"}
           => seen[x] = course /\ Live(course) # {}

IInv ==
    /\ TypeOK
    /\ \A x \in Sessions : AtWork(x)
    /\ \A x \in Sessions : Holds(x)
    /\ RowsExclusive
    /\ DeletedIsUnreferenced
    /\ SharedExist
    /\ AssignedStepsExist
    /\ \A x \in Sessions : Knows(x)
-----------------------------------------------------------------------------
(* Types.                                                                  *)

(* What each end of a request leaves is well typed. *)
LEMMA EndTypes ==
    ASSUME TypeOK, NEW x \in Sessions, End(x)
    PROVE  /\ pc' \in [Sessions -> Points]
           /\ job' \in [Sessions -> Jobs \cup {"none"}]
           /\ seen' \in [Sessions -> Structure]
           /\ rev' \in [Sessions -> Nat]
           /\ wrote' \in [Sessions -> [Steps -> Rows \cup {Gone, Free}]]
           /\ shared' \in [Sessions -> SUBSET Steps]
           /\ holds' \in [Sessions -> BOOLEAN]
<1>1. Empty \in Structure
  BY DEF Empty, Structure
<1>2. Nothing \in [Steps -> Rows \cup {Gone, Free}]
  BY DEF Nothing
<1> QED
  BY <1>1, <1>2 DEF End, Goto, TypeOK, Points

(* Writing some rows leaves the rest as it was. *)
LEMMA WriteTypes ==
    ASSUME TypeOK, NEW x \in Sessions, NEW rows \in [Steps -> Rows \cup {Gone, Free}],
           Write(x, rows)
    PROVE  /\ wrote' \in [Sessions -> [Steps -> Rows \cup {Gone, Free}]]
           /\ UNCHANGED <<rowVars, memoryVars, shared, holds, fresh>>
           /\ \A y \in Sessions \ {x} : wrote'[y] = wrote[y]
           /\ \A s \in Steps :
                  wrote'[x][s] = IF rows[s] = Free THEN wrote[x][s] ELSE rows[s]
<1> DEFINE new == [s \in Steps |-> IF rows[s] = Free THEN wrote[x][s] ELSE rows[s]]
<1>1. new \in [Steps -> Rows \cup {Gone, Free}]
  BY DEF TypeOK
<1>2. wrote' = [wrote EXCEPT ![x] = new]
  BY DEF Write
<1> HIDE DEF new
<1>3. wrote' \in [Sessions -> [Steps -> Rows \cup {Gone, Free}]] /\ wrote'[x] = new
      /\ \A y \in Sessions \ {x} : wrote'[y] = wrote[y]
  BY <1>1, <1>2 DEF TypeOK
<1>4. \A s \in Steps : new[s] = IF rows[s] = Free THEN wrote[x][s] ELSE rows[s]
  BY DEF new
<1> QED
  BY <1>3, <1>4 DEF Write

(* One row is written, or none. *)
LEMMA OneRow ==
    ASSUME NEW s \in Steps, NEW row \in Rows \cup {Gone}
    PROVE  /\ Nothing \in [Steps -> Rows \cup {Gone, Free}]
           /\ \A t \in Steps : Nothing[t] = Free
           /\ [Nothing EXCEPT ![s] = row] \in [Steps -> Rows \cup {Gone, Free}]
           /\ \A t \in Steps :
                  [Nothing EXCEPT ![s] = row][t] = IF t = s THEN row ELSE Free
BY DEF Nothing

(* The statements that write rows, with what they write. *)
LEMMA WritesTypes ==
    ASSUME TypeOK, CourseAssumption, NEW x \in Sessions,
           InsertStep(x) \/ WriteStep(x) \/ Remove(x) \/ Renumber(x)
    PROVE  \E rows \in [Steps -> Rows \cup {Gone, Free}] : Write(x, rows)
<1>1. CASE InsertStep(x)
  <2>1. PICK s \in Steps, row \in Rows : Write(x, [Nothing EXCEPT ![s] = row])
    BY <1>1 DEF InsertStep
  <2> QED
    BY <2>1, OneRow
<1>2. CASE WriteStep(x)
  <2>1. Nothing \in [Steps -> Rows \cup {Gone, Free}]
    BY DEF Nothing
  <2>2. CASE Write(x, Nothing)
    BY <2>1, <2>2
  <2>3. CASE \E s \in Live(seen[x]), row \in Rows : Write(x, [Nothing EXCEPT ![s] = row])
    BY <2>3, OneRow DEF Live
  <2> QED
    BY <1>2, <2>2, <2>3 DEF WriteStep
<1>3. CASE Remove(x)
  <2>1. PICK s \in Steps :
          Write(x, IF course[s] = Gone THEN Nothing ELSE [Nothing EXCEPT ![s] = Gone])
    BY <1>3 DEF Remove, Live
  <2> QED
    BY <2>1, OneRow
<1>4. CASE Renumber(x)
  BY <1>4 DEF Renumber
<1> QED
  BY <1>1, <1>2, <1>3, <1>4

LEMMA BeginTypes ==
    ASSUME TypeOK, NEW x \in Sessions, NEW what \in Jobs,
           NEW found \in Structure, Begin(x, what, found)
    PROVE  TypeOK'
BY DEF Begin, TypeOK, Goto, rowVars, lockVars, Points

LEMMA StepTypes ==
    ASSUME TypeOK, CourseAssumption, NEW x \in Sessions, Request(x)
    PROVE  TypeOK'
<1>1. Empty \in Structure /\ Edits \cup Switches \cup {"assign"} \subseteq Jobs
      /\ {"create", "update", "delete", "reorder"} \subseteq Jobs
  BY DEF Empty, Structure, Edits, Jobs
<1>2. CASE \E what \in Jobs : Begin(x, what, Empty)
  BY <1>1, <1>2, BeginTypes
<1>3. CASE \E s \in Steps : BeginStep(x, "update", s) \/ BeginStep(x, "delete", s)
  <2>1. PICK s \in Steps : BeginStep(x, "update", s) \/ BeginStep(x, "delete", s)
    BY <1>3
  <2>2. [Empty EXCEPT ![s] = course[s]] \in Structure
    BY <1>1 DEF TypeOK, Structure
  <2> QED
    BY <1>1, <2>1, <2>2, BeginTypes DEF BeginStep
<1>4. CASE ReadProgram(x)
  <2>1. pc' \in [Sessions -> Points]
    BY <1>4 DEF ReadProgram, TypeOK, Goto, Points
  <2> QED
    BY <1>4, <2>1 DEF ReadProgram, TypeOK, rowVars, lockVars
<1>5. CASE List(x)
  <2> DEFINE listed == [s \in Steps |-> IF wrote[x][s] = Gone THEN Gone ELSE course[s]]
  <2>1. listed \in Structure
    BY DEF TypeOK, Structure
  <2>2. pc' \in [Sessions -> Points]
    BY <1>5 DEF List, TypeOK, Goto, Points
  <2>3. seen' = [seen EXCEPT ![x] = listed]
        /\ UNCHANGED <<rowVars, lockVars, job, rev, fresh>>
    BY <1>5 DEF List
  <2> HIDE DEF listed
  <2> QED
    BY <2>1, <2>2, <2>3 DEF TypeOK, rowVars, lockVars
<1>6. CASE Relist(x)
  BY <1>6 DEF Relist, TypeOK, Goto, Points, rowVars, lockVars
<1>19. CASE Reread(x)
  BY <1>19 DEF Reread, TypeOK, Goto, Points, rowVars, lockVars
<1>7. CASE Check(x)
  <2>1. pc' \in [Sessions -> Points]
    BY <1>7 DEF Check, TypeOK, Goto, Points
  <2> QED
    BY <1>7, <2>1 DEF Check, TypeOK, rowVars, lockVars, memoryVars
<1>8. CASE InsertStep(x) \/ WriteStep(x) \/ Remove(x) \/ Renumber(x)
  <2>1. PICK rows \in [Steps -> Rows \cup {Gone, Free}] : Write(x, rows)
    BY <1>8, WritesTypes
  <2>2. wrote' \in [Sessions -> [Steps -> Rows \cup {Gone, Free}]]
        /\ UNCHANGED <<rowVars, memoryVars, shared, holds, fresh>>
    BY <2>1, WriteTypes
  <2>3. pc' \in [Sessions -> Points]
    BY <1>8 DEF InsertStep, WriteStep, Remove, Renumber, TypeOK, Goto, Points
  <2> QED
    BY <2>2, <2>3 DEF TypeOK, rowVars, memoryVars
<1>9. CASE WriteProgram(x)
  BY <1>9 DEF WriteProgram, TypeOK, Goto, Points, rowVars, memoryVars
<1>10. CASE Insert(x)
  <2>1. Live(seen[x]) \in SUBSET Steps
    BY DEF Live
  <2> QED
    BY <1>10, <2>1 DEF Insert, TypeOK, Goto, Points, rowVars, memoryVars
<1>11. CASE CommitEdit(x)
  <2>1. course' \in Structure
    <3>1. \A s \in Steps : wrote[x][s] \in Rows \cup {Gone, Free} /\ course[s] \in Rows \cup {Gone}
      BY DEF TypeOK, Structure
    <3>2. course' = [s \in Steps |-> IF wrote[x][s] = Free THEN course[s] ELSE wrote[x][s]]
      BY <1>11 DEF CommitEdit
    <3> QED
      BY <3>1, <3>2 DEF Structure
  <2>2. revision' \in Nat /\ assigned' = assigned /\ published' = published /\ fresh' \in [Sessions -> BOOLEAN]
    BY <1>11 DEF CommitEdit, TypeOK
  <2> QED
    BY <1>11, <2>1, <2>2, EndTypes DEF CommitEdit, TypeOK
<1>12. CASE CommitAssign(x)
  <2>1. assigned' \in [Runs -> Assignment \cup {Gone}]
    BY <1>12 DEF CommitAssign, TypeOK, Assignment
  <2>2. course' = course /\ revision' = revision /\ published' = published
        /\ fresh' \in [Sessions -> BOOLEAN]
    BY <1>12 DEF CommitAssign
  <2> QED
    BY <1>12, <2>1, <2>2, EndTypes DEF CommitAssign, TypeOK
<1>13. CASE RollBack(x)
  BY <1>13, EndTypes DEF RollBack, TypeOK, rowVars
<1>14. CASE CommitSwitch(x)
  <2>1. published' \in BOOLEAN /\ course' = course /\ revision' = revision
        /\ assigned' = assigned /\ fresh' \in [Sessions -> BOOLEAN]
    BY <1>14 DEF CommitSwitch, TypeOK
  <2> QED
    BY <1>14, <2>1, EndTypes DEF CommitSwitch, TypeOK
<1> QED
  BY <1>2, <1>3, <1>4, <1>5, <1>6, <1>19, <1>7, <1>8, <1>9, <1>10, <1>11, <1>12, <1>13,
     <1>14 DEF Request, Jobs, Edits, Switches

LEMMA StatusTypes ==
    ASSUME TypeOK, GoneAssumption, NEW a \in Runs,
           NEW status \in {"active", "completed", "cancelled"}, SetStatus(a, status)
    PROVE  /\ TypeOK'
           /\ \A b \in Runs \ {a} : assigned'[b] = assigned[b]
           /\ assigned[a] \in Assignment
           /\ assigned'[a] \in Assignment
           /\ assigned'[a].status = status
           /\ assigned'[a].steps = assigned[a].steps
           /\ assigned'[a].revision = assigned[a].revision
<1>1. assigned[a] \in Assignment
  BY DEF SetStatus, TypeOK
<1>2. assigned' = [assigned EXCEPT ![a] = [assigned[a] EXCEPT !.status = status]]
  BY DEF SetStatus
<1>3. [assigned[a] EXCEPT !.status = status] \in Assignment
      /\ [assigned[a] EXCEPT !.status = status].status = status
      /\ [assigned[a] EXCEPT !.status = status].steps = assigned[a].steps
      /\ [assigned[a] EXCEPT !.status = status].revision = assigned[a].revision
  BY <1>1 DEF Assignment
<1>4. assigned' \in [Runs -> Assignment \cup {Gone}]
      /\ assigned'[a] = [assigned[a] EXCEPT !.status = status]
      /\ \A b \in Runs \ {a} : assigned'[b] = assigned[b]
  BY <1>2, <1>3 DEF TypeOK
<1>5. fresh' \in [Sessions -> BOOLEAN]
  BY DEF SetStatus, TypeOK
<1>6. TypeOK'
  BY <1>4, <1>5 DEF SetStatus, TypeOK, memoryVars, lockVars
<1> QED
  BY <1>1, <1>3, <1>4, <1>6

-----------------------------------------------------------------------------
(* What one step may touch.                                                *)

Changes(x) == \/ ReadProgram(x) \/ List(x) \/ Relist(x) \/ Reread(x)
              \/ Check(x) \/ WriteProgram(x) \/ Insert(x)
Writes(x) == InsertStep(x) \/ WriteStep(x) \/ Remove(x) \/ Renumber(x)
Ends(x) == CommitEdit(x) \/ CommitSwitch(x) \/ CommitAssign(x) \/ RollBack(x)
Begins(x) == \E what \in Jobs, found \in Structure : Begin(x, what, found)

LEMMA Kinds ==
    ASSUME TypeOK, NEW x \in Sessions, Request(x)
    PROVE  Begins(x) \/ Changes(x) \/ Writes(x) \/ Ends(x)
<1>1. Empty \in Structure
  BY DEF Empty, Structure
<1>2. ASSUME NEW s \in Steps, NEW what \in Edits, BeginStep(x, what, s)
      PROVE  Begins(x)
  <2>1. [Empty EXCEPT ![s] = course[s]] \in Structure
    BY <1>1 DEF TypeOK, Structure
  <2> QED
    BY <1>2, <2>1 DEF BeginStep, Begins, Jobs
<1>3. ASSUME NEW what \in Jobs, Begin(x, what, Empty)
      PROVE  Begins(x)
  BY <1>1, <1>3 DEF Begins
<1> QED
  BY <1>2, <1>3 DEF Request, Changes, Writes, Ends, Edits, Jobs, Switches

(* A request leaves the memory and the locks of the others alone. *)
LEMMA OthersKeep ==
    ASSUME TypeOK, CourseAssumption, NEW x \in Sessions, Request(x),
           NEW y \in Sessions, y # x
    PROVE  /\ pc'[y] = pc[y] /\ job'[y] = job[y] /\ seen'[y] = seen[y]
           /\ rev'[y] = rev[y] /\ wrote'[y] = wrote[y] /\ shared'[y] = shared[y]
<1>1. CASE Begins(x)
  BY <1>1 DEF Begins, Begin, TypeOK, Goto, lockVars
<1>2. CASE Changes(x)
  BY <1>2 DEF Changes, ReadProgram, List, Relist, Reread, Check, WriteProgram, Insert, TypeOK, Goto,
              lockVars, memoryVars
<1>3. CASE Writes(x)
  <2>1. PICK rows \in [Steps -> Rows \cup {Gone, Free}] : Write(x, rows)
    BY <1>3, WritesTypes DEF Writes
  <2>2. wrote'[y] = wrote[y] /\ UNCHANGED <<memoryVars, shared>>
    BY <2>1, WriteTypes
  <2>3. pc'[y] = pc[y]
    BY <1>3 DEF Writes, InsertStep, WriteStep, Remove, Renumber, Goto, TypeOK
  <2> QED
    BY <2>2, <2>3 DEF memoryVars
<1>4. CASE Ends(x)
  <2>1. End(x)
    BY <1>4 DEF Ends, CommitEdit, CommitSwitch, CommitAssign, RollBack
  <2> QED
    BY <2>1 DEF End, Goto, TypeOK
<1> QED
  BY <1>1, <1>2, <1>3, <1>4, Kinds

(* Only commits change what is stored, and only they and new requests change *)
(* what a request knows to be fresh. *)
LEMMA OnlyCommitsStore ==
    ASSUME TypeOK, CourseAssumption, NEW x \in Sessions, Request(x)
    PROVE  \/ CommitEdit(x)
           \/ CommitSwitch(x)
           \/ CommitAssign(x)
           \/ UNCHANGED rowVars /\ \A y \in Sessions \ {x} : fresh'[y] = fresh[y]
<1>1. CASE Begins(x)
  BY <1>1 DEF Begins, Begin, TypeOK
<1>2. CASE Changes(x)
  BY <1>2 DEF Changes, ReadProgram, List, Relist, Reread, Check, WriteProgram, Insert
<1>3. CASE Writes(x)
  <2>1. PICK rows \in [Steps -> Rows \cup {Gone, Free}] : Write(x, rows)
    BY <1>3, WritesTypes DEF Writes
  <2> QED
    BY <2>1 DEF Write
<1>4. CASE RollBack(x)
  BY <1>4 DEF RollBack, TypeOK
<1> QED
  BY <1>1, <1>2, <1>3, <1>4, Kinds DEF Ends

(* A request that ended holds nothing. *)
LEMMA EndedHolds ==
    ASSUME TypeOK, NEW x \in Sessions, End(x)
    PROVE  /\ pc'[x] = "idle" /\ job'[x] = "none" /\ shared'[x] = {}
           /\ \A s \in Steps : wrote'[x][s] = Free
BY DEF End, Goto, TypeOK, Nothing

-----------------------------------------------------------------------------
(* The inductive invariant, one part at a time.                            *)

LEMMA KeepsAtWork ==
    ASSUME TypeOK, CourseAssumption, NEW x \in Sessions, Request(x),
           \A y \in Sessions : AtWork(y)
    PROVE  \A y \in Sessions : AtWork(y)'
<1>1. ASSUME NEW y \in Sessions, y # x
      PROVE  AtWork(y)'
  BY <1>1, OthersKeep DEF AtWork
<1>2. AtWork(x)'
  <2>0. AtWork(x) /\ pc[x] \in Points /\ job[x] \in Jobs \cup {"none"}
    BY DEF TypeOK
  <2>1. CASE Begins(x)
    BY <2>1 DEF Begins, Begin, TypeOK, Goto, AtWork, Edits, Switches, Jobs
  <2>2. CASE ReadProgram(x)
    BY <2>0, <2>2 DEF ReadProgram, TypeOK, Goto, AtWork, Edits, Switches, Jobs
  <2>3. CASE List(x)
    <3>1. /\ pc[x] = "list" /\ job'[x] = job[x]
          /\ pc'[x] = CASE job[x] = "delete" -> "renumber"
                        [] job[x] = "assign" -> "relist"
                        [] job[x] = "publish" -> "programRow"
                        [] OTHER -> "check"
      BY <2>3 DEF List, TypeOK, Goto
    <3>2. \/ job[x] = "delete" /\ pc'[x] = "renumber"
          \/ job[x] = "assign" /\ pc'[x] = "relist"
          \/ job[x] = "publish" /\ pc'[x] = "programRow"
          \/ job[x] \notin {"delete", "assign", "publish"} /\ pc'[x] = "check"
      BY <3>1
    <3>3. job[x] \in Edits \/ job[x] \in {"assign", "publish"}
      BY <2>0, <3>1 DEF AtWork
    <3> QED
      BY <3>1, <3>2, <3>3 DEF AtWork, Edits, Switches
  <2>4. CASE Relist(x) \/ Reread(x) \/ Insert(x)
    BY <2>0, <2>4 DEF Relist, Reread, Insert, TypeOK, Goto, AtWork, Edits, Switches, Jobs, memoryVars
  <2>5. CASE Check(x)
    BY <2>0, <2>5 DEF Check, TypeOK, Goto, AtWork, Edits, Switches, Jobs, memoryVars
  <2>6. CASE WriteProgram(x)
    BY <2>0, <2>6 DEF WriteProgram, TypeOK, Goto, AtWork, Edits, Switches, Jobs, memoryVars
  <2>7. CASE Writes(x)
    <3>1. UNCHANGED job
      BY <2>7, WritesTypes, WriteTypes DEF Writes, memoryVars
    <3>2. \/ pc[x] \in {"insertStep", "write", "renumber"} /\ pc'[x] = "programRow"
          \/ pc[x] = "remove" /\ pc'[x] = "list"
      BY <2>7 DEF Writes, InsertStep, WriteStep, Remove, Renumber, Goto, TypeOK
    <3> QED
      BY <2>0, <3>1, <3>2 DEF AtWork, Edits
  <2>8. CASE Ends(x)
    <3>1. End(x)
      BY <2>8 DEF Ends, CommitEdit, CommitSwitch, CommitAssign, RollBack
    <3> QED
      BY <3>1, EndedHolds DEF AtWork
  <2> QED
    BY <2>1, <2>2, <2>3, <2>4, <2>5, <2>6, <2>7, <2>8, Kinds DEF Changes
<1> QED
  BY <1>1, <1>2

LEMMA KeepsHolds ==
    ASSUME TypeOK, CourseAssumption, NEW x \in Sessions, Request(x),
           \A y \in Sessions : AtWork(y), \A y \in Sessions : Holds(y)
    PROVE  \A y \in Sessions : Holds(y)'
<1>1. ASSUME NEW y \in Sessions, y # x
      PROVE  Holds(y)'
  BY <1>1, OthersKeep DEF Holds, Live
<1>2. Holds(x)'
  <2>0. AtWork(x) /\ Holds(x) /\ pc[x] \in Points /\ job[x] \in Jobs \cup {"none"}
    BY DEF TypeOK
  <2>1. CASE Begins(x)
    <3>1. /\ pc[x] = "idle" /\ pc'[x] = "program"
          /\ wrote' = wrote /\ shared' = shared
      BY <2>1 DEF Begins, Begin, TypeOK, Goto, lockVars
    <3>2. job[x] = "none" /\ shared[x] = {} /\ \A s \in Steps : wrote[x][s] = Free
      BY <2>0, <3>1 DEF AtWork, Holds, Edits
    <3> QED
      BY <3>1, <3>2, CourseAssumption DEF Holds
  <2>2. CASE ReadProgram(x)
    <3>1. /\ pc[x] = "program" /\ pc'[x] # "commit" /\ wrote' = wrote /\ shared' = shared
      BY <2>2 DEF ReadProgram, TypeOK, Goto, lockVars
    <3>2. shared[x] = {} /\ \A s \in Steps : wrote[x][s] = Free
      BY <2>0, <3>1 DEF Holds
    <3> QED
      BY <3>1, <3>2, CourseAssumption DEF Holds
  <2>3. CASE List(x)
    <3>1. /\ pc[x] = "list" /\ wrote' = wrote /\ shared' = shared /\ job' = job
          /\ pc'[x] \in {"renumber", "relist", "programRow", "check"}
          /\ pc'[x] = "programRow" => job[x] = "publish"
          /\ job[x] = "delete" => pc'[x] = "renumber"
      BY <2>3 DEF List, TypeOK, Goto, lockVars
    <3> QED
      BY <2>0, <3>1 DEF Holds
  <2>4. CASE Relist(x) \/ Reread(x)
    <3>1. /\ pc[x] \in {"relist", "reread"} /\ pc'[x] \in {"reread", "insert"}
          /\ wrote' = wrote /\ shared' = shared /\ job' = job
      BY <2>4 DEF Relist, Reread, TypeOK, Goto, lockVars
    <3> QED
      BY <2>0, <3>1 DEF Holds
  <2>5. CASE Check(x)
    <3>1. /\ pc[x] = "check" /\ wrote' = wrote /\ shared' = shared /\ job' = job
          /\ pc'[x] \in {"insertStep", "write", "remove", "renumber"}
      BY <2>5 DEF Check, TypeOK, Goto, lockVars, memoryVars
    <3>2. shared[x] = {} /\ \A s \in Steps : wrote[x][s] = Free
      BY <2>0, <3>1 DEF Holds
    <3> QED
      BY <3>1, <3>2, CourseAssumption DEF Holds
  <2>6. CASE WriteProgram(x)
    <3>1. /\ pc[x] = "programRow" /\ wrote' = wrote /\ shared' = shared /\ job' = job
          /\ seen' = seen /\ pc'[x] = "commit"
      BY <2>6 DEF WriteProgram, TypeOK, Goto, memoryVars
    <3>2. job[x] # "assign"
      BY <2>0, <3>1 DEF AtWork, Edits, Switches
    <3> QED
      BY <2>0, <3>1, <3>2 DEF Holds
  <2>7. CASE Insert(x)
    <3>1. /\ pc[x] = "insert" /\ wrote' = wrote /\ job' = job
          /\ seen' = seen /\ pc'[x] = "commit" /\ shared'[x] = Live(seen[x])
      BY <2>7 DEF Insert, TypeOK, Goto, memoryVars
    <3>2. job[x] = "assign" /\ \A s \in Steps : wrote[x][s] = Free
      BY <2>0, <3>1 DEF AtWork, Holds
    <3> QED
      BY <3>1, <3>2, CourseAssumption DEF Holds, Live
  <2>8. CASE Writes(x)
    <3>1. PICK rows \in [Steps -> Rows \cup {Gone, Free}] : Write(x, rows)
      BY <2>8, WritesTypes DEF Writes
    <3>2. UNCHANGED <<job, shared>>
          /\ \A s \in Steps :
                wrote'[x][s] = IF rows[s] = Free THEN wrote[x][s] ELSE rows[s]
      BY <3>1, WriteTypes DEF memoryVars
    <3>3. \/ pc[x] \in {"insertStep", "write", "renumber"} /\ pc'[x] = "programRow"
          \/ pc[x] = "remove" /\ pc'[x] = "list" /\ job[x] = "delete"
      BY <2>0, <2>8 DEF Writes, InsertStep, WriteStep, Remove, Renumber, Goto, TypeOK, AtWork
    <3>4. job[x] \in Edits /\ job[x] # "assign" /\ shared[x] = {}
      BY <2>0, <3>3 DEF AtWork, Holds, Edits
    <3>5. ASSUME NEW s \in Steps, wrote'[x][s] = Gone
          PROVE  job[x] = "delete"
      <4>1. CASE InsertStep(x)
        <5>1. PICK t \in Steps, row \in Rows : Write(x, [Nothing EXCEPT ![t] = row])
          BY <4>1 DEF InsertStep
        <5>2. wrote'[x][s] = wrote[x][s] \/ wrote'[x][s] \in Rows
          BY <5>1, OneRow, WriteTypes
        <5> QED
          BY <2>0, <3>5, <5>2, CourseAssumption DEF Holds
      <4>2. CASE WriteStep(x)
        <5>1. CASE Write(x, Nothing)
          <6>1. Nothing \in [Steps -> Rows \cup {Gone, Free}] /\ Nothing[s] = Free
            BY DEF Nothing
          <6>2. wrote'[x][s] = wrote[x][s]
            BY <5>1, <6>1, WriteTypes
          <6> QED
            BY <2>0, <3>5, <6>2 DEF Holds
        <5>2. CASE \E t \in Live(seen[x]), row \in Rows : Write(x, [Nothing EXCEPT ![t] = row])
          <6>1. wrote'[x][s] = wrote[x][s] \/ wrote'[x][s] \in Rows
            BY <5>2, OneRow, WriteTypes DEF Live
          <6> QED
            BY <2>0, <3>5, <6>1, CourseAssumption DEF Holds
        <5> QED
          BY <4>2, <5>1, <5>2 DEF WriteStep
      <4>3. CASE Remove(x)
        BY <2>0, <4>3 DEF Remove, AtWork
      <4>4. CASE Renumber(x)
        <5>1. PICK new \in [Steps -> Rows \cup {Free}] : Write(x, new)
          BY <4>4 DEF Renumber
        <5>2. new \in [Steps -> Rows \cup {Gone, Free}] /\ new[s] \in Rows \cup {Free}
          OBVIOUS
        <5>3. wrote'[x][s] = wrote[x][s] \/ wrote'[x][s] \in Rows
          BY <5>1, <5>2, WriteTypes
        <5> QED
          BY <2>0, <3>5, <5>3, CourseAssumption DEF Holds
      <4> QED
        BY <2>8, <4>1, <4>2, <4>3, <4>4 DEF Writes
    <3> QED
      BY <3>2, <3>3, <3>4, <3>5 DEF Holds
  <2>9. CASE Ends(x)
    <3>1. End(x)
      BY <2>9 DEF Ends, CommitEdit, CommitSwitch, CommitAssign, RollBack
    <3> QED
      BY <3>1, EndedHolds, CourseAssumption DEF Holds
  <2> QED
    BY <2>1, <2>2, <2>3, <2>4, <2>5, <2>6, <2>7, <2>8, <2>9, Kinds DEF Changes
<1> QED
  BY <1>1, <1>2

(* A row that is written was free, or the writer's own. *)
LEMMA WritesFreeRows ==
    ASSUME TypeOK, CourseAssumption, NEW x \in Sessions, Request(x),
           NEW s \in Steps, wrote'[x][s] # Free
    PROVE  wrote[x][s] # Free \/ RowFree(x, s)
<1>1. CASE Begins(x) \/ Changes(x)
  BY <1>1 DEF Begins, Begin, Changes, ReadProgram, List, Relist, Reread, Check, WriteProgram, Insert, lockVars
<1>2. CASE Ends(x)
  BY <1>2, EndedHolds DEF Ends, CommitEdit, CommitSwitch, CommitAssign, RollBack
<1>3. CASE InsertStep(x)
  <2>1. PICK t \in Steps, row \in Rows : Unused(t) /\ Write(x, [Nothing EXCEPT ![t] = row])
    BY <1>3 DEF InsertStep
  <2>2. wrote'[x][s] = wrote[x][s] \/ s = t
    BY <2>1, OneRow, WriteTypes
  <2> QED
    BY <2>1, <2>2 DEF Unused, RowFree
<1>4. CASE WriteStep(x)
  <2>1. CASE Write(x, Nothing)
    <3>1. Nothing \in [Steps -> Rows \cup {Gone, Free}] /\ Nothing[s] = Free
      BY DEF Nothing
    <3> QED
      BY <2>1, <3>1, WriteTypes
  <2>2. CASE \E t \in Live(seen[x]), row \in Rows :
               RowFree(x, t) /\ Write(x, [Nothing EXCEPT ![t] = row])
    <3>1. PICK t \in Steps, row \in Rows :
            RowFree(x, t) /\ Write(x, [Nothing EXCEPT ![t] = row])
      BY <2>2 DEF Live
    <3>2. wrote'[x][s] = wrote[x][s] \/ s = t
      BY <3>1, OneRow, WriteTypes
    <3> QED
      BY <3>1, <3>2
  <2> QED
    BY <1>4, <2>1, <2>2 DEF WriteStep
<1>5. CASE Remove(x)
  <2>1. PICK t \in Steps : /\ KeyFree(x, t)
                           /\ Write(x, IF course[t] = Gone THEN Nothing
                                       ELSE [Nothing EXCEPT ![t] = Gone])
    BY <1>5 DEF Remove, Live
  <2>2. wrote'[x][s] = wrote[x][s] \/ s = t
    <3>1. CASE course[t] = Gone
      BY <2>1, <3>1, OneRow, WriteTypes
    <3>2. CASE course[t] # Gone
      BY <2>1, <3>2, OneRow, WriteTypes
    <3> QED
      BY <3>1, <3>2
  <2> QED
    BY <2>1, <2>2 DEF KeyFree
<1>6. CASE Renumber(x)
  <2>1. PICK rows \in [Steps -> Rows \cup {Free}] :
          /\ \A t \in Steps : rows[t] # Free <=> t \in Live(seen[x])
          /\ Write(x, rows)
    BY <1>6 DEF Renumber
  <2>2. rows \in [Steps -> Rows \cup {Gone, Free}]
    OBVIOUS
  <2>3. wrote'[x][s] = wrote[x][s] \/ s \in Live(seen[x])
    BY <2>1, <2>2, WriteTypes
  <2> QED
    BY <1>6, <2>3 DEF Renumber, KeyFree
<1> QED
  BY <1>1, <1>2, <1>3, <1>4, <1>5, <1>6, Kinds DEF Writes

LEMMA KeepsRowsExclusive ==
    ASSUME TypeOK, CourseAssumption, NEW x \in Sessions, Request(x), RowsExclusive
    PROVE  RowsExclusive'
<1>1. ASSUME NEW y \in Sessions, y # x, NEW s \in Steps, wrote'[x][s] # Free
      PROVE  wrote'[y][s] = Free
  <2>1. wrote'[y] = wrote[y]
    BY <1>1, OthersKeep
  <2>2. wrote[x][s] # Free \/ RowFree(x, s)
    BY <1>1, WritesFreeRows
  <2> QED
    BY <1>1, <2>1, <2>2 DEF RowsExclusive, RowFree
<1>2. ASSUME NEW y \in Sessions, NEW z \in Sessions, y # x, z # x, NEW s \in Steps,
             wrote'[y][s] # Free, wrote'[z][s] # Free
      PROVE  y = z
  BY <1>2, OthersKeep DEF RowsExclusive
<1> QED
  BY <1>1, <1>2 DEF RowsExclusive

(* Only a deletion that found its step unreferenced marks it gone. *)
LEMMA GoneIsDeleted ==
    ASSUME TypeOK, CourseAssumption, NEW x \in Sessions, Request(x), Holds(x)',
           NEW s \in Steps, wrote'[x][s] = Gone
    PROVE  wrote[x][s] = Gone \/ (Remove(x) /\ KeyFree(x, s) /\ ~Referenced(s))
<1>1. CASE Begins(x) \/ Changes(x)
  BY <1>1 DEF Begins, Begin, Changes, ReadProgram, List, Relist, Reread, Check, WriteProgram, Insert, lockVars
<1>2. CASE Ends(x)
  BY <1>2, EndedHolds, CourseAssumption DEF Ends, CommitEdit, CommitSwitch, CommitAssign, RollBack
<1>3. CASE Remove(x)
  <2>1. PICK t \in Steps : /\ KeyFree(x, t)
                           /\ ~Referenced(t)
                           /\ Write(x, IF course[t] = Gone THEN Nothing
                                       ELSE [Nothing EXCEPT ![t] = Gone])
    BY <1>3 DEF Remove, Live
  <2>2. wrote'[x][s] = wrote[x][s] \/ s = t
    <3>1. CASE course[t] = Gone
      BY <2>1, <3>1, OneRow, WriteTypes
    <3>2. CASE course[t] # Gone
      BY <2>1, <3>2, OneRow, WriteTypes
    <3> QED
      BY <3>1, <3>2
  <2> QED
    BY <1>3, <2>1, <2>2
<1>4. CASE InsertStep(x)
  <2>1. PICK t \in Steps, row \in Rows : Write(x, [Nothing EXCEPT ![t] = row])
    BY <1>4 DEF InsertStep
  <2>2. wrote'[x][s] = wrote[x][s] \/ wrote'[x][s] \in Rows
    BY <2>1, OneRow, WriteTypes
  <2> QED
    BY <2>2, CourseAssumption
<1>5. CASE WriteStep(x)
  <2>1. CASE Write(x, Nothing)
    <3>1. Nothing \in [Steps -> Rows \cup {Gone, Free}] /\ Nothing[s] = Free
      BY DEF Nothing
    <3> QED
      BY <2>1, <3>1, WriteTypes
  <2>2. CASE \E t \in Live(seen[x]), row \in Rows : Write(x, [Nothing EXCEPT ![t] = row])
    <3>1. wrote'[x][s] = wrote[x][s] \/ wrote'[x][s] \in Rows
      BY <2>2, OneRow, WriteTypes DEF Live
    <3> QED
      BY <3>1, CourseAssumption
  <2> QED
    BY <1>5, <2>1, <2>2 DEF WriteStep
<1>6. CASE Renumber(x)
  <2>1. PICK new \in [Steps -> Rows \cup {Free}] : Write(x, new)
    BY <1>6 DEF Renumber
  <2>2. new \in [Steps -> Rows \cup {Gone, Free}] /\ new[s] \in Rows \cup {Free}
    OBVIOUS
  <2>3. wrote'[x][s] = wrote[x][s] \/ wrote'[x][s] \in Rows
    BY <2>1, <2>2, WriteTypes
  <2> QED
    BY <2>3, CourseAssumption
<1> QED
  BY <1>1, <1>2, <1>3, <1>4, <1>5, <1>6, Kinds DEF Writes

(* What a request refers to before it commits. *)
LEMMA SharedComesFromInsert ==
    ASSUME TypeOK, CourseAssumption, NEW x \in Sessions, Request(x)
    PROVE  \/ Insert(x) /\ shared'[x] = Live(seen[x])
           \/ shared'[x] \subseteq shared[x]
<1>1. CASE Begins(x)
  BY <1>1 DEF Begins, Begin, lockVars
<1>2. CASE Insert(x)
  BY <1>2 DEF Insert, TypeOK
<1>3. CASE Changes(x) /\ ~Insert(x)
  BY <1>3 DEF Changes, ReadProgram, List, Relist, Reread, Check, WriteProgram, lockVars
<1>4. CASE Writes(x)
  <2>1. PICK rows \in [Steps -> Rows \cup {Gone, Free}] : Write(x, rows)
    BY <1>4, WritesTypes DEF Writes
  <2> QED
    BY <2>1 DEF Write
<1>5. CASE Ends(x)
  BY <1>5, EndedHolds DEF Ends, CommitEdit, CommitSwitch, CommitAssign, RollBack
<1> QED
  BY <1>1, <1>2, <1>3, <1>4, <1>5, Kinds

(* An assignment that is committed refers to what its request referred to. *)
LEMMA CommittedReferences ==
    ASSUME TypeOK, GoneAssumption, NEW x \in Sessions, CommitAssign(x), Holds(x)
    PROVE  \A s \in Steps : Referenced(s)' => Referenced(s) \/ s \in shared[x]
<1>1. PICK a \in Runs : /\ assigned[a] = Gone
                        /\ assigned' = [assigned EXCEPT ![a] =
                              [status |-> "active", revision |-> rev[x], steps |-> seen[x]]]
  BY DEF CommitAssign
<1>2. shared[x] = Live(seen[x])
  BY DEF CommitAssign, Holds
<1>3. assigned'[a].steps = seen[x] /\ \A b \in Runs \ {a} : assigned'[b] = assigned[b]
  BY <1>1 DEF TypeOK
<1> QED
  BY <1>2, <1>3 DEF Referenced, Live

LEMMA KeepsDeletedIsUnreferenced ==
    ASSUME TypeOK, CourseAssumption, GoneAssumption, NEW x \in Sessions, Request(x),
           \A y \in Sessions : AtWork(y), \A y \in Sessions : Holds(y),
           \A y \in Sessions : Holds(y)', DeletedIsUnreferenced
    PROVE  DeletedIsUnreferenced'
<1> SUFFICES ASSUME NEW y \in Sessions, NEW s \in Steps, wrote'[y][s] = Gone
             PROVE  ~Referenced(s)' /\ \A z \in Sessions : s \notin shared'[z]
  BY DEF DeletedIsUnreferenced
<1>1. CASE wrote[y][s] # Gone
  <2>1. y = x
    BY <1>1, OthersKeep
  <2>2. Remove(x) /\ KeyFree(x, s) /\ ~Referenced(s)
    BY <1>1, <2>1, GoneIsDeleted
  <2>3. shared' = shared /\ assigned' = assigned
    <3>1. PICK rows \in [Steps -> Rows \cup {Gone, Free}] : Write(x, rows)
      BY <2>2, WritesTypes
    <3> QED
      BY <3>1 DEF Write, rowVars
  <2>4. job[x] = "delete"
    BY <2>2 DEF Remove, AtWork
  <2>5. shared[x] = {}
    BY <2>4 DEF Holds
  <2> QED
    BY <2>2, <2>3, <2>5 DEF KeyFree, Referenced
<1>2. CASE wrote[y][s] = Gone
  <2>1. ~Referenced(s) /\ \A z \in Sessions : s \notin shared[z]
    BY <1>2 DEF DeletedIsUnreferenced
  <2>2. job[y] = "delete"
    BY <1>2 DEF Holds
  <2>3. ASSUME NEW z \in Sessions
        PROVE  s \notin shared'[z]
    <3>1. CASE z # x
      BY <2>1, <3>1, OthersKeep
    <3>2. CASE z = x /\ Insert(x) /\ shared'[x] = Live(seen[x])
      <4>1. job[x] = "assign"
        BY <3>2 DEF Insert, AtWork
      <4>2. y # x
        BY <2>2, <4>1
      <4>3. ~Referable(x, s)
        BY <1>2, <2>2, <4>2, CourseAssumption DEF Referable
      <4> QED
        BY <3>2, <4>3 DEF Insert
    <3> QED
      BY <2>1, <3>1, <3>2, SharedComesFromInsert
  <2>4. ~Referenced(s)'
    <3>1. CASE CommitAssign(x)
      BY <2>1, <3>1, CommittedReferences
    <3>2. CASE assigned' = assigned
      BY <2>1, <3>2 DEF Referenced
    <3> QED
      BY <3>1, <3>2, OnlyCommitsStore DEF CommitEdit, CommitSwitch, rowVars
  <2> QED
    BY <2>3, <2>4
<1> QED
  BY <1>1, <1>2

(* A commit of an edit only takes away what nothing refers to. *)
LEMMA StepsSurvive ==
    ASSUME TypeOK, CourseAssumption, NEW x \in Sessions, Request(x), DeletedIsUnreferenced,
           NEW s \in Live(course),
           Referenced(s) \/ \E y \in Sessions : s \in shared[y]
    PROVE  s \in Live(course)'
<1>1. s \in Steps /\ course[s] # Gone
  BY DEF Live
<1>2. CASE CommitEdit(x)
  <2>1. wrote[x][s] # Gone
    BY <1>1 DEF DeletedIsUnreferenced
  <2>2. course'[s] = IF wrote[x][s] = Free THEN course[s] ELSE wrote[x][s]
    BY <1>1, <1>2 DEF CommitEdit
  <2> QED
    BY <1>1, <2>1, <2>2 DEF Live
<1>3. CASE course' = course
  BY <1>1, <1>3 DEF Live
<1> QED
  BY <1>2, <1>3, OnlyCommitsStore DEF CommitAssign, CommitSwitch, rowVars

LEMMA KeepsSteps ==
    ASSUME TypeOK, CourseAssumption, GoneAssumption, NEW x \in Sessions, Request(x),
           \A y \in Sessions : AtWork(y), \A y \in Sessions : Holds(y),
           DeletedIsUnreferenced, SharedExist, AssignedStepsExist
    PROVE  SharedExist' /\ AssignedStepsExist'
<1>1. ASSUME NEW y \in Sessions, NEW s \in shared'[y]
      PROVE  s \in Live(course)'
  <2>1. CASE s \in shared[y]
    BY <2>1, StepsSurvive DEF SharedExist
  <2>2. CASE y = x /\ Insert(x) /\ shared'[x] = Live(seen[x])
    <3>1. s \in Live(seen[x]) /\ s \in Steps
      BY <1>1, <2>2 DEF Live
    <3>2. course[s] # Gone /\ course' = course
      BY <2>2, <3>1 DEF Insert, Referable, rowVars
    <3> QED
      BY <3>1, <3>2 DEF Live
  <2> QED
    BY <1>1, <2>1, <2>2, OthersKeep, SharedComesFromInsert
<1>2. ASSUME NEW s \in Steps, Referenced(s)'
      PROVE  s \in Live(course)'
  <2>1. Referenced(s) \/ s \in shared[x]
    <3>1. CASE CommitAssign(x)
      BY <1>2, <3>1, CommittedReferences
    <3>2. CASE assigned' = assigned
      BY <1>2, <3>2 DEF Referenced
    <3> QED
      BY <3>1, <3>2, OnlyCommitsStore DEF CommitEdit, CommitSwitch, rowVars
  <2>2. s \in Live(course)
    BY <2>1 DEF Referenced, AssignedStepsExist, SharedExist
  <2> QED
    BY <2>1, <2>2, StepsSurvive
<1>3. SharedExist'
  BY <1>1 DEF SharedExist
<1>4. AssignedStepsExist'
  <2> SUFFICES ASSUME NEW a \in Runs, assigned'[a] # Gone, assigned'[a].status # "cancelled",
                      NEW s \in Live(assigned'[a].steps)
               PROVE  s \in Live(course)'
    BY DEF AssignedStepsExist, Live
  <2>1. s \in Steps
    BY DEF Live
  <2>2. Referenced(s)'
    BY <2>1 DEF Referenced
  <2> QED
    BY <1>2, <2>1, <2>2
<1> QED
  BY <1>3, <1>4

(* The others keep knowing what a commit leaves as it was. *)
LEMMA OthersKnow ==
    ASSUME TypeOK, CourseAssumption, NEW x \in Sessions, Request(x),
           NEW y \in Sessions, y # x, Knows(y)
    PROVE  Knows(y)'
<1>1. CASE CommitEdit(x)
  <2>1. /\ fresh'[y] => fresh[y] /\ course' = course /\ revision' = revision
        /\ assigned' = assigned /\ published' = published
    BY <1>1 DEF CommitEdit
  <2>2. Active' = Active /\ (fresh'[y] => Live(course)' = Live(course))
    BY <2>1 DEF Active, Live
  <2> QED
    BY <2>1, <2>2, OthersKeep DEF Knows
<1>2. CASE CommitAssign(x)
  <2>1. ~fresh'[y]
    BY <1>2 DEF CommitAssign
  <2> QED
    BY <2>1 DEF Knows
<1>3. CASE UNCHANGED rowVars /\ \A z \in Sessions \ {x} : fresh'[z] = fresh[z]
  <2>1. /\ fresh'[y] = fresh[y] /\ course' = course /\ revision' = revision
        /\ assigned' = assigned /\ published' = published
    BY <1>3 DEF rowVars
  <2>2. Active' = Active /\ Live(course)' = Live(course)
    BY <2>1 DEF Active, Live
  <2> QED
    BY <2>1, <2>2, OthersKeep DEF Knows
<1>4. CASE CommitSwitch(x)
  <2>1. /\ fresh'[y] => fresh[y] /\ published' = published
        /\ course' = course /\ revision' = revision /\ assigned' = assigned
    BY <1>4 DEF CommitSwitch
  <2>2. Active' = Active /\ Live(course)' = Live(course)
    BY <2>1 DEF Active, Live
  <2> QED
    BY <2>1, <2>2, OthersKeep DEF Knows
<1> QED
  BY <1>1, <1>2, <1>3, <1>4, OnlyCommitsStore

LEMMA SelfKnows ==
    ASSUME TypeOK, CourseAssumption, NEW x \in Sessions, Request(x),
           AtWork(x), Holds(x), Knows(x)
    PROVE  Knows(x)'
<1>1. CASE Begins(x)
  BY <1>1 DEF Begins, Begin, Goto, TypeOK, Knows
<1>2. CASE ReadProgram(x)
  <2>1. /\ pc[x] = "program" /\ rev'[x] = revision /\ revision' = revision
        /\ job' = job
        /\ published' = published /\ (job[x] = "assign" => published)
    BY <1>2 DEF ReadProgram, Goto, TypeOK, rowVars
  <2>2. \/ pc'[x] = "check"
        \/ pc'[x] = "list" /\ job[x] # "delete"
        \/ pc'[x] = "programRow" /\ job[x] \notin Edits /\ job[x] # "assign"
    BY <1>2 DEF ReadProgram, Goto, TypeOK, Edits
  <2>3. "assign" \notin Edits
    BY DEF Edits
  <2>4. pc'[x] \in {"check", "list", "programRow"} /\ (pc'[x] = "check" => job[x] # "assign")
    BY <1>2, <2>2 DEF ReadProgram, Goto, TypeOK
  <2> QED
    BY <2>1, <2>2, <2>3, <2>4 DEF Knows
<1>3. CASE List(x)
  <2>1. /\ pc[x] = "list" /\ UNCHANGED <<rowVars, job, rev, fresh, wrote>>
        /\ seen'[x] = [s \in Steps |-> IF wrote[x][s] = Gone THEN Gone ELSE course[s]]
        /\ job[x] # "delete" => Live(course) # {}
    BY <1>3 DEF List, Goto, TypeOK, lockVars
  <2>2. /\ pc'[x] \in {"renumber", "relist", "programRow", "check"}
        /\ pc'[x] = "renumber" <=> job[x] = "delete"
        /\ pc'[x] = "relist" <=> job[x] = "assign"
        /\ pc'[x] = "programRow" => job[x] \notin Edits
    BY <1>3 DEF List, Goto, TypeOK, Edits
  <2>3. job[x] = "assign" => seen'[x] = course
    <3>1. HAVE job[x] = "assign"
    <3>2. \A s \in Steps : wrote[x][s] # Gone
      BY <3>1 DEF Holds
    <3> QED
      BY <2>1, <3>2 DEF TypeOK, Structure
  <2>4. Active' = Active /\ Live(course)' = Live(course)
    BY <2>1 DEF Active, Live, rowVars
  <2> QED
    BY <2>1, <2>2, <2>3, <2>4 DEF Knows, rowVars
<1>4. CASE Relist(x)
  <2>1. /\ pc[x] = "relist" /\ pc'[x] = "reread" /\ UNCHANGED <<rowVars, job, rev, fresh>>
        /\ seen'[x] = course
    BY <1>4 DEF Relist, Goto, TypeOK
  <2>2. job[x] = "assign"
    BY <2>1 DEF AtWork
  <2>3. fresh[x] => Live(course) # {} /\ Live(course)' = Live(course)
    BY <2>1, <2>2 DEF Knows, Live, rowVars
  <2> QED
    BY <2>1, <2>2, <2>3 DEF Knows, rowVars, Edits
<1>19. CASE Reread(x)
  <2>1. /\ pc[x] = "reread" /\ pc'[x] = "insert" /\ UNCHANGED <<rowVars, job, seen, fresh>>
        /\ rev'[x] = revision
    BY <1>19 DEF Reread, Goto, TypeOK
  <2>2. job[x] = "assign" /\ Live(course)' = Live(course)
    BY <2>1 DEF AtWork, Live, rowVars
  <2> QED
    BY <2>1, <2>2 DEF Knows, rowVars, Edits
<1>5. CASE Check(x)
  <2>1. /\ pc[x] = "check" /\ Active = {} /\ UNCHANGED <<rowVars, memoryVars, fresh>>
        /\ pc'[x] \in {"insertStep", "write", "remove", "renumber"}
    BY <1>5 DEF Check, Goto, TypeOK
  <2>2. /\ Active' = {} /\ rev'[x] = rev[x] /\ revision' = revision /\ fresh' = fresh
        /\ job'[x] = job[x] /\ job[x] # "assign"
    BY <2>1 DEF Active, AtWork, Edits, rowVars, memoryVars
  <2> QED
    BY <2>1, <2>2 DEF Knows
<1>6. CASE WriteProgram(x)
  <2>1. /\ pc[x] = "programRow" /\ pc'[x] = "commit" /\ UNCHANGED <<rowVars, memoryVars, fresh>>
    BY <1>6 DEF WriteProgram, Goto, TypeOK
  <2>2. job[x] # "assign"
    BY <2>1 DEF AtWork, Edits, Switches
  <2>3. Active' = Active
    BY <2>1 DEF Active, rowVars
  <2> QED
    BY <2>1, <2>2, <2>3 DEF Knows, rowVars, memoryVars
<1>7. CASE Insert(x)
  <2>1. /\ pc[x] = "insert" /\ pc'[x] = "commit" /\ UNCHANGED <<rowVars, memoryVars, fresh>>
    BY <1>7 DEF Insert, Goto, TypeOK
  <2>2. job[x] = "assign" /\ "assign" \notin Edits /\ Live(course)' = Live(course)
    BY <2>1 DEF AtWork, Edits, Live, rowVars
  <2> QED
    BY <2>1, <2>2 DEF Knows, rowVars, memoryVars
<1>8. CASE Writes(x)
  <2>1. PICK rows \in [Steps -> Rows \cup {Gone, Free}] : Write(x, rows)
    BY <1>8, WritesTypes DEF Writes
  <2>2. UNCHANGED <<rowVars, memoryVars, fresh>>
    BY <2>1 DEF Write
  <2>3. \/ pc[x] \in {"insertStep", "write", "renumber"} /\ pc'[x] = "programRow"
        \/ pc[x] = "remove" /\ pc'[x] = "list"
    BY <1>8 DEF Writes, InsertStep, WriteStep, Remove, Renumber, Goto, TypeOK
  <2>4. job[x] \in Edits /\ job[x] # "assign"
    BY <2>3 DEF AtWork, Edits
  <2>5. Active' = Active
    BY <2>2 DEF Active, rowVars
  <2> QED
    BY <2>2, <2>3, <2>4, <2>5 DEF Knows, rowVars, memoryVars
<1>9. CASE Ends(x)
  <2>1. ~fresh'[x]
    BY <1>9 DEF Ends, CommitEdit, CommitSwitch, CommitAssign, RollBack, TypeOK
  <2> QED
    BY <2>1 DEF Knows
<1> QED
  BY <1>1, <1>2, <1>3, <1>4, <1>19, <1>5, <1>6, <1>7, <1>8, <1>9, Kinds DEF Changes

LEMMA RequestKeepsIInv ==
    ASSUME IInv, CourseAssumption, GoneAssumption, NEW x \in Sessions, Request(x)
    PROVE  IInv'
<1>1. TypeOK'
  BY StepTypes DEF IInv
<1>2. \A y \in Sessions : AtWork(y)'
  BY KeepsAtWork DEF IInv
<1>3. \A y \in Sessions : Holds(y)'
  BY KeepsHolds DEF IInv
<1>4. RowsExclusive'
  BY KeepsRowsExclusive DEF IInv
<1>5. DeletedIsUnreferenced'
  BY <1>3, KeepsDeletedIsUnreferenced DEF IInv
<1>6. SharedExist' /\ AssignedStepsExist'
  BY KeepsSteps DEF IInv
<1>7. \A y \in Sessions : Knows(y)'
  BY OthersKnow, SelfKnows DEF IInv
<1> QED
  BY <1>1, <1>2, <1>3, <1>4, <1>5, <1>6, <1>7 DEF IInv

LEMMA StatusKeepsIInv ==
    ASSUME IInv, GoneAssumption, NEW a \in Runs,
           NEW status \in {"active", "completed", "cancelled"}, SetStatus(a, status)
    PROVE  IInv'
<1>1. TypeOK
  BY DEF IInv
<1>2. /\ TypeOK'
      /\ \A b \in Runs \ {a} : assigned'[b] = assigned[b]
      /\ assigned'[a].status = status
      /\ assigned'[a].steps = assigned[a].steps
  BY <1>1, StatusTypes
<1>3. /\ assigned[a] # Gone /\ assigned[a].status # "cancelled"
      /\ UNCHANGED <<course, revision, published, pc, job, seen, rev, wrote, shared, holds>>
      /\ \A y \in Sessions : fresh'[y] => fresh[y] /\ status # "active"
  BY DEF SetStatus, memoryVars, lockVars
<1>4. \A s \in Steps : Referenced(s)' => Referenced(s)
  BY <1>2, <1>3 DEF Referenced, Live
<1>5. status # "active" => Active' \subseteq Active
  BY <1>2, <1>3 DEF Active
<1>6. (\A y \in Sessions : AtWork(y)') /\ (\A y \in Sessions : Holds(y)')
  BY <1>3 DEF IInv, AtWork, Holds, Live
<1>7. RowsExclusive' /\ SharedExist'
  BY <1>3 DEF IInv, RowsExclusive, SharedExist, Live
<1>8. DeletedIsUnreferenced'
  BY <1>3, <1>4 DEF IInv, DeletedIsUnreferenced
<1>9. AssignedStepsExist'
  BY <1>2, <1>3 DEF IInv, AssignedStepsExist, Live
<1>10. ASSUME NEW y \in Sessions
       PROVE  Knows(y)'
  <2>1. Knows(y)
    BY DEF IInv
  <2> QED
    BY <1>3, <1>5, <2>1 DEF Knows, Live
<1> QED
  BY <1>2, <1>6, <1>7, <1>8, <1>9, <1>10 DEF IInv

LEMMA InitIInv == CourseAssumption /\ GoneAssumption /\ Init => IInv
<1> SUFFICES ASSUME CourseAssumption, GoneAssumption, Init PROVE IInv
  OBVIOUS
<1>1. Empty \in Structure /\ Nothing \in [Steps -> Rows \cup {Gone, Free}]
  BY DEF Empty, Nothing, Structure
<1>2. TypeOK
  BY <1>1 DEF Init, TypeOK, Points
<1>3. \A x \in Sessions, s \in Steps : wrote[x][s] = Free /\ wrote[x][s] # Gone
  BY CourseAssumption DEF Init, Nothing
<1>4. \A x \in Sessions : pc[x] = "idle" /\ job[x] = "none" /\ shared[x] = {} /\ ~fresh[x]
  BY DEF Init
<1>5. AssignedStepsExist
  BY DEF Init, AssignedStepsExist
<1>6. \A x \in Sessions : AtWork(x) /\ Holds(x) /\ Knows(x)
  BY <1>3, <1>4 DEF AtWork, Holds, Knows
<1>7. RowsExclusive /\ DeletedIsUnreferenced /\ SharedExist
  BY <1>3, <1>4 DEF RowsExclusive, DeletedIsUnreferenced, SharedExist
<1> QED
  BY <1>2, <1>5, <1>6, <1>7 DEF IInv

LEMMA StutterIInv == IInv /\ UNCHANGED vars => IInv'
BY DEF IInv, vars, rowVars, memoryVars, lockVars, TypeOK, AtWork, Holds, RowsExclusive,
       DeletedIsUnreferenced, SharedExist, AssignedStepsExist, Knows, Live, Referenced, Active

LEMMA Inductive == Spec => []IInv
<1>1. IInv /\ [Next]_vars => IInv'
  <2> SUFFICES ASSUME IInv, [Next]_vars PROVE IInv'
    OBVIOUS
  <2>1. ASSUME NEW x \in Sessions, Request(x) PROVE IInv'
    BY <2>1, RequestKeepsIInv, CourseAssumption, GoneAssumption
  <2>2. ASSUME NEW a \in Runs, NEW status \in {"active", "completed", "cancelled"},
               SetStatus(a, status)
        PROVE  IInv'
    BY <2>2, StatusKeepsIInv, GoneAssumption
  <2> QED
    BY <2>1, <2>2, StutterIInv DEF Next
<1> QED
  BY <1>1, InitIInv, CourseAssumption, GoneAssumption, PTL DEF Spec

-----------------------------------------------------------------------------
(* The theorems.                                                           *)

(* Requests keep steps, revisions, assignments and locks well formed         *)
(* (step.py, course_edit_policy.py, create_many).                            *)
THEOREM CourseTypes == Spec => []TypeOK
<1>1. IInv => TypeOK
  BY DEF IInv
<1> QED
  BY <1>1, Inductive, PTL

(* The progress rows of an assignment that was not cancelled never lose     *)
(* their step (ON DELETE RESTRICT, and the locks that carry it to           *)
(* uncommitted rows).                                                       *)
THEOREM StepsOfAssignmentsExist == Spec => []AssignedStepsExist
<1>1. IInv => AssignedStepsExist
  BY DEF IInv
<1> QED
  BY <1>1, Inductive, PTL

(* Only an edit that overlapped another request changes a course that has   *)
(* an active assignment (assert_program_structure_editable).                *)
THEOREM CourseIsLocked == Spec => LockHolds
<1>1. IInv /\ [Next]_vars => [(course' # course /\ Active # {}) => Overlapped]_vars
  <2> SUFFICES ASSUME IInv, Next, course' # course, Active # {}
               PROVE  Overlapped
    BY DEF vars, rowVars
  <2>1. PICK x \in Sessions : Request(x)
    BY DEF Next, SetStatus
  <2>2. CommitEdit(x)
    BY <2>1, OnlyCommitsStore, CourseAssumption DEF IInv, CommitSwitch, CommitAssign, rowVars
  <2>3. pc[x] = "commit" /\ job[x] \in Edits /\ pc'[x] = "idle"
    BY <2>2, EndedHolds DEF IInv, CommitEdit
  <2>4. ~fresh[x]
    BY <2>3 DEF IInv, Knows
  <2> QED
    BY <2>3, <2>4 DEF Overlapped
<1> QED
  BY <1>1, Inductive, PTL DEF Spec, LockHolds

(* An edit that overlapped nothing gives the course the next revision, and  *)
(* an assignment that overlapped nothing is of a published course and       *)
(* carries its revision and its structure (bump_program_revision,           *)
(* create_many).                                                            *)
THEOREM RevisionNamesContent == Spec => GenerationNamesContent
<1> DEFINE Named ==
      \/ /\ course' # course => revision' = revision + 1
         /\ \A a \in Runs : assigned[a] = Gone /\ assigned'[a] # Gone
                => /\ published /\ Live(course) # {}
                   /\ assigned'[a].revision = revision /\ assigned'[a].steps = course
      \/ Overlapped
<1>1. IInv /\ [Next]_vars => [Named]_vars
  <2> SUFFICES ASSUME IInv, Next, ~Overlapped
               PROVE  Named
    BY DEF vars
  <2>0. TypeOK
    BY DEF IInv
  <2>1. ASSUME NEW x \in Sessions, Request(x)
        PROVE  Named
    <3>1. CASE CommitEdit(x)
      <4>1. pc[x] = "commit" /\ pc'[x] = "idle" /\ assigned' = assigned
            /\ revision' = rev[x] + 1
        BY <2>0, <3>1, EndedHolds DEF CommitEdit
      <4>2. fresh[x]
        BY <4>1 DEF Overlapped
      <4>3. rev[x] = revision
        BY <4>1, <4>2 DEF IInv, Knows
      <4> QED
        BY <4>1, <4>3
    <3>2. CASE CommitAssign(x)
      <4>1. pc[x] = "commit" /\ pc'[x] = "idle" /\ job[x] = "assign" /\ course' = course
        BY <2>0, <3>2, EndedHolds DEF CommitAssign
      <4>2. fresh[x]
        BY <4>1 DEF Overlapped
      <4>3. rev[x] = revision /\ seen[x] = course /\ published /\ Live(course) # {}
        BY <4>1, <4>2 DEF IInv, Knows
      <4>4. PICK a \in Runs : assigned' = [assigned EXCEPT ![a] =
              [status |-> "active", revision |-> rev[x], steps |-> seen[x]]]
        BY <3>2 DEF CommitAssign
      <4>5. /\ assigned'[a] = [status |-> "active", revision |-> revision, steps |-> course]
            /\ \A b \in Runs \ {a} : assigned'[b] = assigned[b]
        BY <2>0, <4>3, <4>4 DEF TypeOK
      <4>6. assigned'[a].revision = revision /\ assigned'[a].steps = course
        BY <4>5
      <4> QED
        BY <4>1, <4>3, <4>5, <4>6
    <3>3. CASE UNCHANGED rowVars
      BY <3>3 DEF rowVars
    <3>4. CASE CommitSwitch(x)
      BY <3>4 DEF CommitSwitch
    <3> QED
      BY <2>0, <2>1, <3>1, <3>2, <3>3, <3>4, OnlyCommitsStore, CourseAssumption
  <2>2. ASSUME NEW a \in Runs, NEW status \in {"active", "completed", "cancelled"},
               SetStatus(a, status)
        PROVE  Named
    BY <2>0, <2>2, StatusTypes, GoneAssumption DEF SetStatus
  <2> QED
    BY <2>1, <2>2 DEF Next
<1> QED
  BY <1>1, Inductive, PTL DEF Spec, GenerationNamesContent
=============================================================================
