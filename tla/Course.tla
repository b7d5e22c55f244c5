------------------------------- MODULE Course -------------------------------
(***************************************************************************)
(* The structure of one course (app/services/step.py,                      *)
(* course_edit_policy.py, course_snapshot.py), its publication             *)
(* (onboarding_program.py) and the assignments made of it (assignment.py:  *)
(* create_many).                                                           *)
(*                                                                         *)
(* Each request is one READ COMMITTED transaction.  It reads the program,  *)
(* steps and active assignments with separate statements, decides, and     *)
(* writes rows, which it locks until it ends.  A row stands for a step's   *)
(* position, type and content.                                             *)
(***************************************************************************)
EXTENDS Naturals

CONSTANTS Steps,        \* identifiers of steps, used or not
          Rows,         \* what a step can be
          Runs,         \* identifiers of assignments
          Sessions,     \* connections serving requests
          Gone,         \* there is no such step, or assignment
          Free,         \* the row is not written
          MaxRevision   \* bound: revisions considered

ASSUME CourseAssumption ==
    /\ Gone \notin Rows
    /\ Free \notin Rows \cup {Gone}
    /\ MaxRevision \in Nat

Structure == [Steps -> Rows \cup {Gone}]
Edits == {"create", "update", "delete", "reorder"}
Switches == {"publish", "archive"}
Jobs == Edits \cup Switches \cup {"assign"}

\* status (pending and in_progress are active), program_revision and
\* structure_snapshot; progress rows exist for the snapshot's steps until the
\* assignment is cancelled.
Assignment == [status : {"active", "completed", "cancelled"},
               revision : Nat, steps : Structure]

ASSUME GoneAssumption == Gone \notin Assignment

VARIABLES
    course, revision, published, assigned,      \* committed
    pc, job,        \* the request of each session and where it is
    seen,           \* the steps in its memory
    rev,            \* the program's revision in its memory
    wrote,          \* the steps it wrote and has not committed
    shared,         \* the steps its uncommitted progress rows refer to
    holds,          \* it wrote the program row and has not committed
    fresh           \* history: nothing it may have read has changed since

rowVars == <<course, revision, published, assigned>>
memoryVars == <<job, seen, rev>>
lockVars == <<wrote, shared, holds>>
vars == <<rowVars, pc, memoryVars, lockVars, fresh>>

Points == {"idle", "program", "list", "relist", "reread", "check", "insertStep",
           "write", "remove", "renumber", "programRow", "insert", "commit"}

TypeOK ==
    /\ course \in Structure
    /\ revision \in Nat
    /\ published \in BOOLEAN
    /\ assigned \in [Runs -> Assignment \cup {Gone}]
    /\ pc \in [Sessions -> Points]
    /\ job \in [Sessions -> Jobs \cup {"none"}]
    /\ seen \in [Sessions -> Structure]
    /\ rev \in [Sessions -> Nat]
    /\ wrote \in [Sessions -> [Steps -> Rows \cup {Gone, Free}]]
    /\ shared \in [Sessions -> SUBSET Steps]
    /\ holds \in [Sessions -> BOOLEAN]
    /\ fresh \in [Sessions -> BOOLEAN]

Empty == [s \in Steps |-> Gone]
Nothing == [s \in Steps |-> Free]

\* Programs older than the revision column have steps and revision 1.
Init ==
    /\ course \in Structure
    /\ revision = 1
    /\ published \in BOOLEAN
    /\ assigned = [a \in Runs |-> Gone]
    /\ pc = [x \in Sessions |-> "idle"]
    /\ job = [x \in Sessions |-> "none"]
    /\ seen = [x \in Sessions |-> Empty]
    /\ rev = [x \in Sessions |-> 0]
    /\ wrote = [x \in Sessions |-> Nothing]
    /\ shared = [x \in Sessions |-> {}]
    /\ holds = [x \in Sessions |-> FALSE]
    /\ fresh = [x \in Sessions |-> FALSE]

-----------------------------------------------------------------------------
(* Rows and their locks.                                                   *)

Goto(x, point) == pc' = [pc EXCEPT ![x] = point]

Active == {a \in Runs : assigned[a] # Gone /\ assigned[a].status = "active"}

Live(structure) == {s \in Steps : structure[s] # Gone}

\* progress.step_id, ON DELETE RESTRICT.
Referenced(s) == \E a \in Runs :
    assigned[a] # Gone /\ assigned[a].status # "cancelled" /\ s \in Live(assigned[a].steps)

RowFree(x, s) == \A y \in Sessions \ {x} : wrote[y][s] = Free

MutantKeyFree(x, s) == RowFree(x, s)
\* A position is part of a unique key: changing it, like deleting the row,
\* waits for uncommitted progress rows of the step; other columns do not.
KeyFree(x, s) == RowFree(x, s) /\ \A y \in Sessions \ {x} : s \notin shared[y]

\* A progress row of step s can be inserted.
Referable(x, s) ==
    /\ course[s] # Gone
    /\ \A y \in Sessions \ {x} : job[y] \in {"delete", "reorder"} => wrote[y][s] = Free

\* A new identifier (uuid4) is one that nothing mentions.
Unused(s) ==
    /\ course[s] = Gone
    /\ \A y \in Sessions : seen[y][s] = Gone /\ wrote[y][s] = Free
    /\ \A a \in Runs : assigned[a] # Gone => assigned[a].steps[s] = Gone

\* The session forgets what it read and releases its locks.
End(x) ==
    /\ Goto(x, "idle")
    /\ job' = [job EXCEPT ![x] = "none"]
    /\ seen' = [seen EXCEPT ![x] = Empty]
    /\ rev' = [rev EXCEPT ![x] = 0]
    /\ wrote' = [wrote EXCEPT ![x] = Nothing]
    /\ shared' = [shared EXCEPT ![x] = {}]
    /\ holds' = [holds EXCEPT ![x] = FALSE]

\* Refused, a failed statement (a row that is gone, a position or assignment
\* that exists), a deadlock that PostgreSQL breaks, a lost client.
RollBack(x) ==
    /\ pc[x] # "idle"
    /\ End(x)
    /\ fresh' = [fresh EXCEPT ![x] = FALSE]
    /\ UNCHANGED rowVars

CommitEdit(x) ==
    /\ pc[x] = "commit"
    /\ job[x] \in Edits
    /\ course' = [s \in Steps |-> IF wrote[x][s] = Free THEN course[s] ELSE wrote[x][s]]
    /\ revision' = rev[x] + 1
    /\ End(x)
    /\ fresh' = [y \in Sessions |->
           fresh[y] /\ y # x /\ course' = course /\ revision' = revision]
    /\ UNCHANGED <<published, assigned>>

CommitSwitch(x) ==
    /\ pc[x] = "commit"
    /\ job[x] \in Switches
    /\ published' = (job[x] = "publish")
    /\ End(x)
    /\ fresh' = [y \in Sessions |-> fresh[y] /\ y # x /\ published' = published]
    /\ UNCHANGED <<course, revision, assigned>>

CommitAssign(x) ==
    /\ pc[x] = "commit"
    /\ job[x] = "assign"
    /\ \E a \in Runs :
           /\ assigned[a] = Gone
           /\ assigned' = [assigned EXCEPT ![a] =
                  [status |-> "active", revision |-> rev[x], steps |-> seen[x]]]
    /\ End(x)
    /\ fresh' = [y \in Sessions |-> FALSE]
    /\ UNCHANGED <<course, revision, published>>

-----------------------------------------------------------------------------
(* Reading.                                                                *)

\* A request about one step reads it first; the others read the program.
Begin(x, what, found) ==
    /\ pc[x] = "idle"
    /\ what \in Edits => revision < MaxRevision
    /\ job' = [job EXCEPT ![x] = what]
    /\ seen' = [seen EXCEPT ![x] = found]
    /\ fresh' = [fresh EXCEPT ![x] = TRUE]
    /\ Goto(x, "program")
    /\ UNCHANGED <<rowVars, lockVars, rev>>

BeginStep(x, what, s) ==
    /\ course[s] # Gone
    /\ Begin(x, what, [Empty EXCEPT ![s] = course[s]])

\* Only a published course is assigned.  Publishing and archiving a course
\* that is already so writes nothing, and ends like a refusal.
ReadProgram(x) ==
    /\ pc[x] = "program"
    /\ job[x] \in {"assign", "archive"} => published
    /\ job[x] = "publish" => ~published
    /\ rev' = [rev EXCEPT ![x] = revision]
    /\ Goto(x, CASE job[x] \in {"reorder", "assign", "publish"} -> "list"
                 [] job[x] = "archive" -> "programRow"
                 [] OTHER -> "check")
    /\ UNCHANGED <<rowVars, lockVars, job, seen, fresh>>

\* list_by_program_id: the steps as this transaction sees them.  All but a
\* deletion, which numbers the rest again, need some.
List(x) ==
    /\ pc[x] = "list"
    /\ job[x] # "delete" => Live(course) # {}
    /\ seen' = [seen EXCEPT ![x] = [s \in Steps |->
           IF wrote[x][s] = Gone THEN Gone ELSE course[s]]]
    /\ Goto(x, CASE job[x] = "delete" -> "renumber"
                 [] job[x] = "assign" -> "relist"
                 [] job[x] = "publish" -> "programRow"
                 [] OTHER -> "check")
    /\ UNCHANGED <<rowVars, lockVars, job, rev, fresh>>

MutantRelist(x) ==
    /\ pc[x] = "relist"
    /\ \E s \in Live(seen[x]) : seen' = [seen EXCEPT ![x][s] = Gone]
    /\ Goto(x, "reread")
    /\ UNCHANGED <<rowVars, lockVars, job, rev, fresh>>

\* create_many reads both again.  Nothing kept the objects its validation
\* loaded, so that these are the rows of now, published or not and with or
\* without steps: the steps are the snapshot, the revision its generation.
Relist(x) ==
    /\ pc[x] = "relist"
    /\ seen' = [seen EXCEPT ![x] = course]
    /\ Goto(x, "reread")
    /\ UNCHANGED <<rowVars, lockVars, job, rev, fresh>>

Reread(x) ==
    /\ pc[x] = "reread"
    /\ rev' = [rev EXCEPT ![x] = revision]
    /\ Goto(x, "insert")
    /\ UNCHANGED <<rowVars, lockVars, job, seen, fresh>>

MutantCheck(x) ==
    /\ pc[x] = "check"
    /\ job[x] = "update" \/ Active = {}
    /\ Goto(x, CASE job[x] = "create" -> "insertStep"
                 [] job[x] = "update" -> "write"
                 [] job[x] = "delete" -> "remove"
                 [] OTHER -> "renumber")
    /\ UNCHANGED <<rowVars, lockVars, memoryVars, fresh>>
\* assert_program_structure_editable
Check(x) ==
    /\ pc[x] = "check"
    /\ Active = {}
    /\ Goto(x, CASE job[x] = "create" -> "insertStep"
                 [] job[x] = "update" -> "write"
                 [] job[x] = "delete" -> "remove"
                 [] OTHER -> "renumber")
    /\ UNCHANGED <<rowVars, lockVars, memoryVars, fresh>>

-----------------------------------------------------------------------------
(* Writing.                                                                *)

Write(x, rows) ==
    /\ wrote' = [wrote EXCEPT ![x] = [s \in Steps |->
           IF rows[s] = Free THEN wrote[x][s] ELSE rows[s]]]
    /\ UNCHANGED <<rowVars, memoryVars, shared, holds, fresh>>

InsertStep(x) ==
    /\ pc[x] = "insertStep"
    /\ \E s \in Steps, row \in Rows :
           Unused(s) /\ Write(x, [Nothing EXCEPT ![s] = row])
    /\ Goto(x, "programRow")

\* Values equal to those in memory are not sent, but the row is read again and
\* the revision counts the request.
WriteStep(x) ==
    /\ pc[x] = "write"
    /\ \E s \in Live(seen[x]) :
           /\ course[s] # Gone
           /\ \/ Write(x, Nothing)
              \/ \E row \in Rows \ {seen[x][s]} :
                     RowFree(x, s) /\ Write(x, [Nothing EXCEPT ![s] = row])
    /\ Goto(x, "programRow")

\* A DELETE that finds no row is not an error.
Remove(x) ==
    /\ pc[x] = "remove"
    /\ \E s \in Live(seen[x]) :
           /\ KeyFree(x, s)
           /\ ~Referenced(s)
           /\ Write(x, IF course[s] = Gone THEN Nothing ELSE [Nothing EXCEPT ![s] = Gone])
    /\ Goto(x, "list")

\* The listed rows get new positions, each in an UPDATE of its own; none
\* depends on another, so that they are one step here.
Renumber(x) ==
    /\ pc[x] = "renumber"
    /\ \A s \in Live(seen[x]) : course[s] # Gone /\ KeyFree(x, s)
    /\ \E rows \in [Steps -> Rows \cup {Free}] :
           /\ \A s \in Steps : rows[s] # Free <=> s \in Live(seen[x])
           /\ Write(x, rows)
    /\ Goto(x, "programRow")

\* bump_program_revision, or the UPDATE of is_active.
WriteProgram(x) ==
    /\ pc[x] = "programRow"
    /\ \A y \in Sessions \ {x} : ~holds[y]
    /\ holds' = [holds EXCEPT ![x] = TRUE]
    /\ Goto(x, "commit")
    /\ UNCHANGED <<rowVars, memoryVars, wrote, shared, fresh>>

\* The assignment and its progress rows.
Insert(x) ==
    /\ pc[x] = "insert"
    /\ \A s \in Live(seen[x]) : Referable(x, s)
    /\ shared' = [shared EXCEPT ![x] = Live(seen[x])]
    /\ Goto(x, "commit")
    /\ UNCHANGED <<rowVars, memoryVars, wrote, holds, fresh>>

Request(x) ==
    \/ Begin(x, "create", Empty)
    \/ Begin(x, "reorder", Empty)
    \/ Begin(x, "assign", Empty)
    \/ \E switch \in Switches : Begin(x, switch, Empty)
    \/ \E s \in Steps : BeginStep(x, "update", s)
    \/ \E s \in Steps : BeginStep(x, "delete", s)
    \/ ReadProgram(x)
    \/ List(x)
    \/ Relist(x)
    \/ Reread(x)
    \/ Check(x)
    \/ InsertStep(x)
    \/ WriteStep(x)
    \/ Remove(x)
    \/ Renumber(x)
    \/ WriteProgram(x)
    \/ Insert(x)
    \/ CommitEdit(x)
    \/ CommitSwitch(x)
    \/ CommitAssign(x)
    \/ RollBack(x)

\* Requests about an assignment (module Assignment) complete and cancel it,
\* and may reopen or cancel a completed one; cancelled is final.
SetStatus(a, status) ==
    /\ assigned[a] # Gone
    /\ assigned[a].status # "cancelled"
    /\ assigned' = [assigned EXCEPT ![a].status = status]
    /\ fresh' = [y \in Sessions |-> fresh[y] /\ status # "active"]
    /\ UNCHANGED <<course, revision, published, pc, memoryVars, lockVars>>

Next ==
    \/ \E x \in Sessions : Request(x)
    \/ \E a \in Runs, status \in {"active", "completed", "cancelled"} : SetStatus(a, status)

Spec == Init /\ [][Next]_vars

-----------------------------------------------------------------------------
(* Properties.                                                             *)

\* However editing and assigning overlap, the steps of an assignment that was
\* not cancelled exist: its progress rows never lose their step.
AssignedStepsExist ==
    \A a \in Runs :
        (assigned[a] # Gone /\ assigned[a].status # "cancelled")
            => Live(assigned[a].steps) \subseteq Live(course)

\* The request that commits in this step read something that had changed when
\* it committed.
Overlapped == \E x \in Sessions : pc[x] = "commit" /\ pc'[x] = "idle" /\ ~fresh[x]

\* course_edit_policy.py: "pending / in_progress assignments lock structure and
\* training content".  Only an edit that overlapped another request changes a
\* course that has an active assignment.
LockHolds == [][(course' # course /\ Active # {}) => Overlapped]_vars

\* course_edit_policy.py: the revision "increments once per successful
\* structure/content mutation", and "program_revision is the generation id; the
\* snapshot is the content that generation actually contained"; assignment.py:
\* "Cannot assign an unpublished/archived program", nor one "without steps".
GenerationNamesContent ==
    [][\/ /\ course' # course => revision' = revision + 1
          /\ \A a \in Runs : assigned[a] = Gone /\ assigned'[a] # Gone
                 => /\ published /\ Live(course) # {}
                    /\ assigned'[a].revision = revision /\ assigned'[a].steps = course
       \/ Overlapped]_vars
=============================================================================
