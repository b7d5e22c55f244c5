------------------------------ MODULE Reminder ------------------------------
(***************************************************************************)
(* Telegram reminders of one assignment (app/services/reminder.py,         *)
(* app/services/reminder_policy.py), while its employee and its managers   *)
(* work on the assignment itself (module Acknowledgement).                 *)
(*                                                                         *)
(* Bot processes scan for due reminders, managers press "remind now", the  *)
(* employee acknowledges, reduces or disables reminders.  Each request     *)
(* takes its clock once, reads the assignment, then the preference row,    *)
(* and decides from what it read.  Times count from 1, and 0 is "never".   *)
(***************************************************************************)
EXTENDS Acknowledgement, Sequences

CONSTANTS Important,    \* priority is important or critical
          DayLength, Window, Midpoint, \* the company's local day and its hours
          Spacing,      \* MIN_AUTOMATED_SPACING
          Cooldown,     \* MANUAL_REMIND_COOLDOWN
          MaxTime,      \* bound: the last moment considered
          MaxLog,       \* bound: reminders considered
          NoRow         \* there is no preference row

ASSUME ReminderAssumption ==
    /\ Important \in BOOLEAN
    /\ DayLength \in Nat \ {0}
    /\ Window \subseteq Nat
    /\ Midpoint \in Nat
    /\ Spacing \in Nat \ {0}
    /\ Cooldown \in Nat \ {0}
    /\ MaxTime \in Nat
    /\ MaxLog \in Nat

Modes == {"default", "reduced", "disabled"}
Choices == {"acknowledgeReminders", "reduce", "disable"}
Jobs == {"scan", "remind"} \cup Choices
Slots == {1, 2}

\* mode, acknowledged_until_date, last_automated/last_manual_reminder_at
Preference == [mode : Modes, until : Nat, scan : Nat, remind : Nat]
Default == [mode |-> "default", until |-> 0, scan |-> 0, remind |-> 0]

\* What stamped the preference row: a request, its clock, for a scan the slot
\* of its day; whether it enqueued the message itself; whether nothing it had
\* read changed before it committed.
Entry == [job : {"scan", "remind"}, at : Nat, slot : Slots \cup {0},
          new : BOOLEAN, fresh : BOOLEAN]

ASSUME NoRowAssumption == NoRow \notin Preference /\ Free \notin Preference

VARIABLES
    now,            \* the time
    pref,           \* the preference row, committed
    log,            \* telegram_outbound rows and stamps, committed, in order
    rpc, job,       \* the request of each session and where it is
    clock,          \* its clock
    seenP,          \* the preference in its memory
    slot,           \* the slot it decided to remind in
    inserted,       \* it inserted that slot's message and has not committed
    heldP,          \* the preference row as it wrote it and has not committed
    fresh           \* history: nothing it read has changed since

dbVars == <<now, pref, log>>
requestVars == <<job, clock, seenP, slot>>
holdVars == <<inserted, heldP>>
reminderVars == <<dbVars, rpc, requestVars, holdVars, fresh>>
vars == <<ackVars, reminderVars>>

RPoints == {"idle", "load", "preference", "create", "choose", "enqueue",
            "stamp", "choice", "commit"}

TypeOK ==
    /\ AckTypeOK
    /\ now \in Nat
    /\ pref \in Preference \cup {NoRow}
    /\ log \in Seq(Entry)
    /\ rpc \in [Sessions -> RPoints]
    /\ job \in [Sessions -> Jobs \cup {"none"}]
    /\ clock \in [Sessions -> Nat]
    /\ seenP \in [Sessions -> Preference \cup {NoRow}]
    /\ slot \in [Sessions -> Slots \cup {0}]
    /\ inserted \in [Sessions -> BOOLEAN]
    /\ heldP \in [Sessions -> Preference \cup {Free}]
    /\ fresh \in [Sessions -> BOOLEAN]

\* Assignments are created with a preference row (enqueue_initial_in_uow);
\* those older than the table have none.
Init ==
    /\ AckInit
    /\ now = 1
    /\ pref \in {NoRow, Default}
    /\ log = <<>>
    /\ rpc = [x \in Sessions |-> "idle"]
    /\ job = [x \in Sessions |-> "none"]
    /\ clock = [x \in Sessions |-> 0]
    /\ seenP = [x \in Sessions |-> NoRow]
    /\ slot = [x \in Sessions |-> 0]
    /\ inserted = [x \in Sessions |-> FALSE]
    /\ heldP = [x \in Sessions |-> Free]
    /\ fresh = [x \in Sessions |-> FALSE]

-----------------------------------------------------------------------------
(* reminder_policy.py.                                                     *)

Day(t) == 1 + (t \div DayLength)
TimeOfDay(t) == t % DayLength

OpenSlots(t) ==
    {s \in Slots : TimeOfDay(t) \in Window /\ (s = 2 => TimeOfDay(t) >= Midpoint)}

AllowedSlots(mode) ==
    {s \in Slots : mode # "disabled" /\ (s = 2 => Important /\ mode # "reduced")}

Spaced(p, t) == p.scan = 0 \/ t >= p.scan + Spacing

\* A reduced preference of a normal assignment: every other day.
ReducedInterval(p, t) ==
    /\ p.mode = "reduced"
    /\ ~Important
    /\ p.scan # 0
    /\ Day(p.scan) + 1 >= Day(t)

\* decide_automated_slot: the slots to remind in, none or one.
Due(p, t, taken) ==
    {s \in OpenSlots(t) \cap AllowedSlots(p.mode) :
        /\ p.until < Day(t)
        /\ ~ReducedInterval(p, t)
        /\ s \notin taken
        /\ Spaced(p, t)
        /\ s = 2 => 1 \in taken}

\* manual_remind_blocked, manual_cooldown_active
MutantMayRemind(p, t) == p.mode # "disabled"
MayRemind(p, t) ==
    /\ p.mode # "disabled"
    /\ p.remind = 0 \/ t >= p.remind + Cooldown

\* The slots of a day whose message is in the outbox.
Taken(day) ==
    {s \in Slots : \E i \in DOMAIN log :
        log[i].job = "scan" /\ log[i].new /\ log[i].slot = s /\ Day(log[i].at) = day}

-----------------------------------------------------------------------------
(* Units of work.                                                          *)

RGoto(x, point) == rpc' = [rpc EXCEPT ![x] = point]

REnd(x) ==
    /\ RGoto(x, "idle")
    /\ job' = [job EXCEPT ![x] = "none"]
    /\ clock' = [clock EXCEPT ![x] = 0]
    /\ seenP' = [seenP EXCEPT ![x] = NoRow]
    /\ slot' = [slot EXCEPT ![x] = 0]
    /\ inserted' = [inserted EXCEPT ![x] = FALSE]
    /\ heldP' = [heldP EXCEPT ![x] = Free]

\* Refused, a failed statement, a caught exception or a lost process.
RRollBack(x) ==
    /\ rpc[x] # "idle"
    /\ REnd(x)
    /\ fresh' = [fresh EXCEPT ![x] = FALSE]
    /\ UNCHANGED dbVars

Stamps(x) == job[x] = "remind" \/ slot[x] # 0

RCommit(x) ==
    /\ rpc[x] = "commit"
    /\ pref' = IF heldP[x] = Free THEN pref ELSE heldP[x]
    /\ log' = IF Stamps(x)
              THEN Append(log, [job |-> job[x], at |-> clock[x], slot |-> slot[x],
                                new |-> inserted[x], fresh |-> fresh[x]])
              ELSE log
    /\ fresh' = [y \in Sessions |-> fresh[y] /\ y # x /\ heldP[x] = Free]
    /\ REnd(x)
    /\ UNCHANGED now

PreferenceFree(x) == \A y \in Sessions \ {x} : heldP[y] = Free

\* The row an UPDATE by x changes: its own if it created it.
Base(x) == IF heldP[x] = Free THEN pref ELSE heldP[x]

-----------------------------------------------------------------------------
(* Requests.                                                               *)

\* scan_due takes its clock and lists the assignments; the others just begin.
RBegin(x, what) ==
    /\ rpc[x] = "idle"
    /\ what = "scan" =>
           status \in Open /\ ~(pref # NoRow /\ pref.mode = "disabled")
    /\ job' = [job EXCEPT ![x] = what]
    /\ clock' = [clock EXCEPT ![x] = now]
    /\ RGoto(x, "load")
    /\ UNCHANGED <<dbVars, holdVars, seenP, slot, fresh>>

MutantLoad(x) ==
    /\ rpc[x] = "load"
    /\ fresh' = [fresh EXCEPT ![x] = job[x] \notin Choices]
    /\ RGoto(x, "preference")
    /\ UNCHANGED <<dbVars, requestVars, holdVars>>

\* The assignment is read.  Choices are taken until it is cancelled.
Load(x) ==
    /\ rpc[x] = "load"
    /\ status \in Open \/ (job[x] \in Choices /\ status = "completed")
    /\ fresh' = [fresh EXCEPT ![x] = job[x] \notin Choices]
    /\ RGoto(x, "preference")
    /\ UNCHANGED <<dbVars, requestVars, holdVars>>

Continue(x, p) ==
    /\ job[x] = "remind" => MayRemind(p, clock[x])
    /\ RGoto(x, CASE job[x] = "scan" -> "choose"
                  [] job[x] = "remind" -> "stamp"
                  [] OTHER -> "choice")
    /\ seenP' = [seenP EXCEPT ![x] = IF job[x] = "remind" THEN NoRow ELSE p]

\* _ensure_preference: SELECT, and INSERT if there was no row.
ReadPreference(x) ==
    /\ rpc[x] = "preference"
    /\ \/ pref # NoRow /\ Continue(x, pref)
       \/ pref = NoRow /\ RGoto(x, "create") /\ UNCHANGED seenP
    /\ UNCHANGED <<dbVars, job, clock, slot, holdVars, fresh>>

MutantCreatePreference(x) ==
    /\ rpc[x] = "create"
    /\ heldP' = [heldP EXCEPT ![x] = Default]
    /\ Continue(x, Default)
    /\ UNCHANGED <<dbVars, job, clock, slot, inserted, fresh>>

\* uq_assignment_reminder_assignment_id: the INSERT waits for another one, and
\* fails if that one commits (then only RRollBack is left).
CreatePreference(x) ==
    /\ rpc[x] = "create"
    /\ pref = NoRow
    /\ PreferenceFree(x)
    /\ heldP' = [heldP EXCEPT ![x] = Default]
    /\ Continue(x, Default)
    /\ UNCHANGED <<dbVars, job, clock, slot, inserted, fresh>>

\* The two slots of the day are read, the decision is made, its slot is read
\* again.  If none is due there is at most the new preference row to commit.
Choose(x) ==
    /\ rpc[x] = "choose"
    /\ LET due == Due(seenP[x], clock[x], Taken(Day(clock[x]))) IN
       \/ \E s \in due : slot' = [slot EXCEPT ![x] = s] /\ RGoto(x, "enqueue") /\ UNCHANGED clock
       \/ /\ due = {}
          /\ RGoto(x, "commit")
          /\ clock' = [clock EXCEPT ![x] = 0]
          /\ UNCHANGED slot
    /\ seenP' = [seenP EXCEPT ![x] = NoRow]
    /\ UNCHANGED <<dbVars, job, holdVars, fresh>>

MutantEnqueue(x) ==
    /\ rpc[x] = "enqueue"
    /\ inserted' = [inserted EXCEPT ![x] = TRUE]
    /\ RGoto(x, "stamp")
    /\ UNCHANGED <<dbVars, requestVars, heldP, fresh>>

\* INSERT ... ON CONFLICT (source) DO NOTHING waits for an uncommitted row of
\* the same source.  A conflicting row with another body raises (RRollBack).
Enqueue(x) ==
    /\ rpc[x] = "enqueue"
    /\ \A y \in Sessions \ {x} :
           ~(inserted[y] /\ slot[y] = slot[x] /\ Day(clock[y]) = Day(clock[x]))
    /\ inserted' = [inserted EXCEPT ![x] = slot[x] \notin Taken(Day(clock[x]))]
    /\ RGoto(x, "stamp")
    /\ UNCHANGED <<dbVars, requestVars, heldP, fresh>>

MutantStamp(x) ==
    /\ rpc[x] = "stamp"
    /\ PreferenceFree(x)
    /\ heldP' = [heldP EXCEPT ![x] = [Base(x) EXCEPT ![job[x]] = clock[x], !.until = 0]]
    /\ inserted' = [inserted EXCEPT ![x] = @ \/ job[x] = "remind"]
    /\ RGoto(x, "commit")
    /\ UNCHANGED <<dbVars, requestVars, fresh>>

\* last_automated_reminder_at or last_manual_reminder_at; the message of "remind
\* now" has a source of its own, so that nothing can conflict with it.
Stamp(x) ==
    /\ rpc[x] = "stamp"
    /\ PreferenceFree(x)
    /\ heldP' = [heldP EXCEPT ![x] = [Base(x) EXCEPT ![job[x]] = clock[x]]]
    /\ inserted' = [inserted EXCEPT ![x] = @ \/ job[x] = "remind"]
    /\ RGoto(x, "commit")
    /\ UNCHANGED <<dbVars, requestVars, fresh>>

\* An UPDATE writes the columns that differ from the row in memory.
Changed(x, column, value) ==
    IF seenP[x][column] = value THEN Base(x)
    ELSE [Base(x) EXCEPT ![column] = value]

\* acknowledge, reduce, disable
Choice(x) ==
    /\ rpc[x] = "choice"
    /\ PreferenceFree(x)
    /\ heldP' = [heldP EXCEPT ![x] =
           CASE job[x] = "reduce" -> Changed(x, "mode", "reduced")
             [] job[x] = "disable" -> Changed(x, "mode", "disabled")
             [] OTHER -> Changed(x, "until", Day(clock[x]))]
    /\ seenP' = [seenP EXCEPT ![x] = NoRow]
    /\ clock' = [clock EXCEPT ![x] = 0]
    /\ RGoto(x, "commit")
    /\ UNCHANGED <<dbVars, job, slot, inserted, fresh>>

ReminderStep(x) ==
    \/ pc[x] = "idle" /\ Len(log) < MaxLog /\ \E what \in Jobs : RBegin(x, what)
    \/ Load(x)
    \/ ReadPreference(x)
    \/ CreatePreference(x)
    \/ Choose(x)
    \/ Enqueue(x)
    \/ Stamp(x)
    \/ Choice(x)
    \/ RCommit(x)
    \/ RRollBack(x)

Tick ==
    /\ now < MaxTime
    /\ now' = now + 1
    /\ UNCHANGED <<pref, log, rpc, requestVars, holdVars, fresh, ackVars>>

\* A connection serves one request at a time.
Work(x) ==
    /\ rpc[x] = "idle"
    /\ AckStep(x)
    /\ fresh' = [y \in Sessions |-> fresh[y] /\ status' = status]
    /\ UNCHANGED <<dbVars, rpc, requestVars, holdVars>>

Next ==
    \/ \E x \in Sessions : ReminderStep(x) /\ UNCHANGED ackVars
    \/ \E x \in Sessions : Work(x)
    \/ Tick

Spec == Init /\ [][Next]_vars

-----------------------------------------------------------------------------
(* Properties.                                                             *)

\* reminder_scan.py: "Enqueue is DB-idempotent".  However many bots scan, and
\* however late, a slot of a day has one message.
OneMessagePerSlot ==
    \A i, j \in DOMAIN log :
        (/\ i < j /\ log[i].new /\ log[j].new
         /\ log[i].job = "scan" /\ log[j].job = "scan"
         /\ log[i].slot = log[j].slot) => Day(log[i].at) # Day(log[j].at)

Gap(what) == IF what = "scan" THEN Spacing ELSE Cooldown

\* Automated reminders keep their spacing and manual ones their cooldown,
\* unless the later one, or one between them, was sent by a request that
\* overlapped another: that one read a stamp that was no longer the last, or
\* put an older one in its place.
TooCloseOverlapped ==
    \A i, j \in DOMAIN log :
        (i < j /\ log[i].job = log[j].job /\ log[j].at < log[i].at + Gap(log[i].job))
            => \E k \in i + 1 .. j : log[k].job = log[i].job /\ ~log[k].fresh

\* A reminder for a closed assignment, for an employee who disabled reminders,
\* or (automated) on a day that was acknowledged, is enqueued only by a request
\* that had read the assignment before this was committed.
ReminderWasDue ==
    [][(log' # log /\ log'[Len(log')].fresh) =>
           /\ status \in Open
           /\ pref'.mode # "disabled"
           /\ log'[Len(log')].job = "scan" => pref'.until < Day(log'[Len(log')].at)]_vars

\* Stamps never undo a choice: mode and acknowledged day change only when an
\* employee's request commits.
ChoiceKept ==
    [][(pref # NoRow /\ (pref'.mode # pref.mode \/ pref'.until # pref.until))
           => \E x \in Sessions : job[x] \in Choices /\ rpc'[x] # rpc[x]]_vars

\* x is about to write a preference row or a message of which y has written
\* one and not committed.
WaitsForReminder(x, y) ==
    /\ x # y
    /\ \/ /\ rpc[x] \in {"stamp", "choice"} \/ (rpc[x] = "create" /\ pref = NoRow)
          /\ heldP[y] # Free
       \/ /\ rpc[x] = "enqueue"
          /\ inserted[y] /\ slot[y] = slot[x] /\ Day(clock[y]) = Day(clock[x])

WaitsFor(x, y) == WaitsForRow(x, y) \/ WaitsForReminder(x, y)

\* Requests that all wait for one another contain a double click: two
\* acknowledgements of one document, of which one has marked the assignment and
\* wants the document, and the other the reverse.  No other mixture of scans,
\* reminders, choices, acknowledgements and cancellations can deadlock.
DeadlockIsDoubleClick ==
    \A stuck \in (SUBSET Sessions) \ {{}} :
        (\A x \in stuck : \E y \in stuck : WaitsFor(x, y))
            => \E x, y \in stuck :
                   /\ item[x] \in Items /\ wroteItem[y] = item[x]
                   /\ wrote[x] # Free
                   /\ WaitsForRow(x, y) /\ WaitsForRow(y, x)
=============================================================================
