--------------------------- MODULE ReminderProofs ---------------------------
(***************************************************************************)
(* Reminder: how often an employee is reminded, and of what, for any       *)
(* number of sessions, any day, window, spacing and cooldown, beside       *)
(* requests that work on the assignment itself.                            *)
(***************************************************************************)
EXTENDS Reminder, AcknowledgementProofs

Stampers == {"scan", "remind"}

\* The preference row, or what a request would insert for it.
Current == IF pref = NoRow THEN Default ELSE pref

PreferenceLock == \A x, y \in Sessions : x # y => heldP[x] = Free \/ heldP[y] = Free

SlotLock ==
    \A x, y \in Sessions :
        x # y /\ inserted[x] /\ inserted[y] /\ slot[x] # 0 /\ slot[x] = slot[y]
            => Day(clock[x]) # Day(clock[y])

\* Where a request is tells what it is and what it has.
Shape(x) ==
    /\ rpc[x] \in {"idle", "load", "preference", "create"}
           => heldP[x] = Free /\ ~inserted[x] /\ slot[x] = 0
    /\ rpc[x] # "idle" => job[x] \in Jobs
    /\ rpc[x] \in {"choose", "enqueue"} => job[x] = "scan"
    /\ rpc[x] = "stamp" => job[x] \in Stampers /\ Stamps(x)
    /\ rpc[x] = "choice" => job[x] \in Choices
    /\ rpc[x] \in {"choose", "choice"} => seenP[x] # NoRow /\ slot[x] = 0
    /\ slot[x] # 0 => job[x] = "scan"
    /\ rpc[x] = "enqueue" => slot[x] # 0
    /\ inserted[x] => rpc[x] \in {"stamp", "commit"} /\ Stamps(x)
    /\ rpc[x] \in {"choose", "enqueue", "stamp", "choice"} => pref # NoRow \/ heldP[x] # Free
    /\ rpc[x] \in {"load", "preference", "create", "choose", "enqueue", "stamp"} => clock[x] > 0
    /\ rpc[x] = "commit" /\ Stamps(x) => clock[x] > 0

\* A row that is held is the committed one but for what its holder changed.
Held(x) ==
    /\ heldP[x] # Free =>
           /\ job[x] \in Choices \/ (/\ heldP[x].mode = Current.mode
                                     /\ heldP[x].until = Current.until)
           /\ \A k \in Stampers :
                  \/ heldP[x][k] = Current[k]
                  \/ k = job[x] /\ rpc[x] = "commit" /\ Stamps(x)
    /\ rpc[x] = "commit" /\ Stamps(x)
           => heldP[x] # Free /\ heldP[x][job[x]] = clock[x]

\* While nothing a stamper read has changed, its decision is right.
Fresh(x) ==
    fresh[x] =>
        /\ rpc[x] \notin {"idle", "load"}
        /\ job[x] \in Stampers
        /\ status \in Open
        /\ rpc[x] = "choose" => seenP[x] = Current
        /\ rpc[x] \in {"enqueue", "stamp", "commit"} /\ slot[x] # 0 =>
               /\ Current.mode # "disabled"
               /\ Current.until < Day(clock[x])
               /\ Spaced(Current, clock[x])
        /\ rpc[x] \in {"stamp", "commit"} /\ job[x] = "remind" => MayRemind(Current, clock[x])

SlotIsNew(x) == inserted[x] /\ slot[x] # 0 => slot[x] \notin Taken(Day(clock[x]))

\* The stamp of a reminder is not lost while only undisturbed ones follow.
StampStands ==
    \A i \in DOMAIN log :
        /\ log[i].at > 0
        /\ (\A k \in DOMAIN log : k > i /\ log[k].job = log[i].job => log[k].fresh)
               => pref # NoRow /\ pref[log[i].job] >= log[i].at

RLocal(x) == Shape(x) /\ Held(x) /\ Fresh(x) /\ SlotIsNew(x)

LogFacts == OneMessagePerSlot /\ TooCloseOverlapped /\ StampStands

ReminderInv ==
    /\ TypeOK
    /\ AckInv
    /\ now > 0
    /\ PreferenceLock
    /\ SlotLock
    /\ LogFacts
    /\ \A x \in Sessions : RLocal(x)

Assumptions == ReminderAssumption /\ NoRowAssumption /\ AcknowledgementAssumption

-----------------------------------------------------------------------------
LEMMA ReminderInitial == ASSUME Assumptions, Init PROVE ReminderInv
<1>1. AckInv BY AckInitial DEF Init, Assumptions
<1>2. TypeOK
  BY <1>1 DEF Init, TypeOK, AckInv, RPoints, Preference, Default, Modes
<1>3. LogFacts
  BY DEF Init, LogFacts, OneMessagePerSlot, TooCloseOverlapped, StampStands
<1>4. \A x \in Sessions : RLocal(x)
  BY DEF Init, RLocal, Shape, Held, Fresh, SlotIsNew
<1> QED BY <1>1, <1>2, <1>3, <1>4 DEF Init, ReminderInv, PreferenceLock, SlotLock

LEMMA DayIsNat == ASSUME Assumptions, NEW t \in Nat PROVE Day(t) \in Nat
BY DEF Day, Assumptions, ReminderAssumption

LEMMA DefaultType == Default \in Preference
BY DEF Default, Preference, Modes

LEMMA CurrentType == ASSUME ReminderInv PROVE Current \in Preference
BY DefaultType DEF ReminderInv, TypeOK, Current

\* A step that commits nothing leaves the facts of the other sessions.
LEMMA OthersStay ==
    ASSUME ReminderInv, NEW x \in Sessions, UNCHANGED <<pref, log, status>>,
           \A y \in Sessions \ {x} :
               /\ rpc'[y] = rpc[y] /\ job'[y] = job[y] /\ clock'[y] = clock[y]
               /\ seenP'[y] = seenP[y] /\ slot'[y] = slot[y] /\ inserted'[y] = inserted[y]
               /\ heldP'[y] = heldP[y] /\ fresh'[y] = fresh[y]
    PROVE  \A y \in Sessions \ {x} : RLocal(y)'
<1> TAKE y \in Sessions \ {x}
<1>1. Current' = Current BY DEF Current
<1>2. \A t : Taken(t)' = Taken(t) BY DEF Taken
<1>3. RLocal(y) BY DEF ReminderInv
<1>4. Shape(y)' BY <1>3 DEF RLocal, Shape, Stamps
<1>5. Held(y)' BY <1>1, <1>3 DEF RLocal, Held, Stamps
<1>6. Fresh(y)' BY <1>1, <1>3 DEF RLocal, Fresh
<1>7. SlotIsNew(y)' BY <1>2, <1>3 DEF RLocal, SlotIsNew
<1> QED BY <1>4, <1>5, <1>6, <1>7 DEF RLocal

LEMMA LogStays ==
    ASSUME ReminderInv, UNCHANGED <<pref, log>> PROVE LogFacts'
BY DEF ReminderInv, LogFacts, OneMessagePerSlot, TooCloseOverlapped, StampStands

\* A step of the other requests.
LEMMA WorkStep ==
    ASSUME Assumptions, ReminderInv, NEW x \in Sessions, Work(x)
    PROVE  ReminderInv'
<1>1. AckInv' BY AckStepInv DEF Work, ReminderInv, Assumptions
<1>2. TypeOK' BY <1>1 DEF ReminderInv, TypeOK, AckInv, Work, dbVars, requestVars, holdVars
<1>3. PreferenceLock' /\ SlotLock'
  BY DEF ReminderInv, PreferenceLock, SlotLock, Work, requestVars, holdVars
<1>4. LogFacts' BY LogStays DEF Work, dbVars
<1>5. ASSUME NEW y \in Sessions PROVE RLocal(y)'
  <2>1. RLocal(y) BY DEF ReminderInv
  <2>2. Current' = Current BY DEF Current, Work, dbVars
  <2>3. Shape(y)' BY <2>1 DEF RLocal, Shape, Stamps, Work, requestVars, holdVars, dbVars
  <2>4. Held(y)' BY <2>1, <2>2 DEF RLocal, Held, Stamps, Work, requestVars, holdVars
  <2>5. fresh'[y] => fresh[y] /\ status' = status BY DEF Work
  <2>6. Fresh(y)' BY <2>1, <2>2, <2>5 DEF RLocal, Fresh, Work, requestVars
  <2>7. SlotIsNew(y)'
    BY <2>1 DEF RLocal, SlotIsNew, Taken, Work, requestVars, holdVars, dbVars
  <2> QED BY <2>3, <2>4, <2>6, <2>7 DEF RLocal
<1> QED BY <1>1, <1>2, <1>3, <1>4, <1>5 DEF ReminderInv, Work, dbVars

\* What remains to be shown of a step that commits nothing.
LEMMA FromRLocal ==
    ASSUME ReminderInv, NEW x \in Sessions, UNCHANGED <<now, pref, log, ackVars>>,
           AckInv' => TypeOK', PreferenceLock', SlotLock',
           \A y \in Sessions \ {x} : RLocal(y)', RLocal(x)'
    PROVE  ReminderInv'
<1>1. AckInv' BY AckStutter DEF ReminderInv
<1> QED BY <1>1, LogStays DEF ReminderInv

LEMMA LocksStay ==
    ASSUME ReminderInv, NEW x \in Sessions,
           \A y \in Sessions \ {x} : /\ heldP'[y] = heldP[y] /\ inserted'[y] = inserted[y]
                                     /\ slot'[y] = slot[y] /\ clock'[y] = clock[y],
           heldP'[x] = Free \/ heldP'[x] = heldP[x] \/ PreferenceFree(x),
           ~inserted'[x] \/ slot'[x] = 0
               \/ (inserted[x] /\ slot'[x] = slot[x] /\ clock'[x] = clock[x])
    PROVE  PreferenceLock' /\ SlotLock'
BY DEF ReminderInv, PreferenceLock, PreferenceFree, SlotLock

-----------------------------------------------------------------------------
LEMMA RBeginStep ==
    ASSUME Assumptions, ReminderInv, NEW x \in Sessions, NEW what \in Jobs, RBegin(x, what), UNCHANGED ackVars
    PROVE  ReminderInv'
<1>0. RLocal(x) BY DEF ReminderInv
<1>1. AckInv' => TypeOK'
  BY DEF ReminderInv, TypeOK, AckInv, RBegin, RGoto, dbVars, requestVars, holdVars, RPoints
<1>2. PreferenceLock' /\ SlotLock'
  BY <1>0, LocksStay DEF RLocal, Shape, RBegin, RGoto, dbVars, requestVars, holdVars, ReminderInv, TypeOK
<1>3. \A y \in Sessions \ {x} : RLocal(y)'
  BY OthersStay DEF RBegin, RGoto, dbVars, requestVars, holdVars, ReminderInv, TypeOK, ackVars, rowVars
<1>5. Shape(x)'
  BY <1>0 DEF ReminderInv, TypeOK, RLocal, Shape, Stamps, RBegin, RGoto, dbVars, requestVars, holdVars
<1>6. Held(x)'
  BY <1>0 DEF ReminderInv, TypeOK, RLocal, Shape, Held, Current, Stamps, RBegin, RGoto, dbVars, requestVars, holdVars
<1>7. Fresh(x)'
  BY <1>0 DEF ReminderInv, TypeOK, RLocal, Shape, Held, Fresh, Current, Stamps, RBegin, RGoto, dbVars, requestVars, holdVars, ackVars, rowVars
<1>8. SlotIsNew(x)'
  BY <1>0 DEF ReminderInv, TypeOK, RLocal, Shape, SlotIsNew, Taken, RBegin, RGoto, dbVars, requestVars, holdVars
<1>9. RLocal(x)' BY <1>5, <1>6, <1>7, <1>8 DEF RLocal
<1> QED BY <1>1, <1>2, <1>3, <1>9, FromRLocal DEF RBegin, dbVars

-----------------------------------------------------------------------------
LEMMA LoadStep ==
    ASSUME Assumptions, ReminderInv, NEW x \in Sessions, Load(x), UNCHANGED ackVars
    PROVE  ReminderInv'
<1>0. RLocal(x) BY DEF ReminderInv
<1>1. AckInv' => TypeOK'
  BY DEF ReminderInv, TypeOK, AckInv, Load, RGoto, dbVars, requestVars, holdVars, RPoints
<1>2. PreferenceLock' /\ SlotLock'
  BY <1>0, LocksStay DEF RLocal, Shape, Load, RGoto, dbVars, requestVars, holdVars, ReminderInv, TypeOK
<1>3. \A y \in Sessions \ {x} : RLocal(y)'
  BY OthersStay DEF Load, RGoto, dbVars, requestVars, holdVars, ReminderInv, TypeOK, ackVars, rowVars
<1>5. Shape(x)'
  BY <1>0 DEF ReminderInv, TypeOK, RLocal, Shape, Stamps, Load, RGoto, dbVars, requestVars, holdVars
<1>6. Held(x)'
  BY <1>0 DEF ReminderInv, TypeOK, RLocal, Shape, Held, Current, Stamps, Load, RGoto, dbVars, requestVars, holdVars
<1>7. Fresh(x)'
  BY <1>0 DEF ReminderInv, TypeOK, RLocal, Shape, Held, Fresh, Current, Stamps, Load, RGoto, dbVars, requestVars, holdVars, ackVars, rowVars, Jobs, Stampers, Choices
<1>8. SlotIsNew(x)'
  BY <1>0 DEF ReminderInv, TypeOK, RLocal, Shape, SlotIsNew, Taken, Load, RGoto, dbVars, requestVars, holdVars
<1>9. RLocal(x)' BY <1>5, <1>6, <1>7, <1>8 DEF RLocal
<1> QED BY <1>1, <1>2, <1>3, <1>9, FromRLocal DEF Load, dbVars

-----------------------------------------------------------------------------
LEMMA ReadPreferenceStep ==
    ASSUME Assumptions, ReminderInv, NEW x \in Sessions, ReadPreference(x), UNCHANGED ackVars
    PROVE  ReminderInv'
<1>0. RLocal(x) BY DEF ReminderInv
<1>a. rpc' = [rpc EXCEPT ![x] = rpc'[x]] /\ rpc'[x] \in RPoints
  BY DEF ReadPreference, Continue, RGoto, RPoints, ReminderInv, TypeOK
<1>b. seenP' = [seenP EXCEPT ![x] = seenP'[x]] /\ seenP'[x] \in Preference \cup {NoRow}
  BY DEF ReadPreference, Continue, ReminderInv, TypeOK
<1>1. AckInv' => TypeOK'
  BY <1>a, <1>b DEF ReminderInv, TypeOK, AckInv, ReadPreference, dbVars, holdVars
<1>2. PreferenceLock' /\ SlotLock'
  BY <1>0, LocksStay DEF RLocal, Shape, ReadPreference, RGoto, dbVars, requestVars, holdVars, Continue, ReminderInv, TypeOK
<1>3. \A y \in Sessions \ {x} : RLocal(y)'
  BY OthersStay DEF ReadPreference, RGoto, dbVars, requestVars, holdVars, Continue, ReminderInv, TypeOK, ackVars, rowVars
<1>5. Shape(x)'
  BY <1>0 DEF ReminderInv, TypeOK, RLocal, Shape, Stamps, ReadPreference, RGoto, dbVars, requestVars, holdVars, Continue, Jobs, Stampers, Choices
<1>6. Held(x)'
  BY <1>0 DEF ReminderInv, TypeOK, RLocal, Shape, Held, Current, Stamps, ReadPreference, RGoto, dbVars, requestVars, holdVars, Continue, Stampers
<1>7. Fresh(x)'
  BY <1>0 DEF ReminderInv, TypeOK, RLocal, Shape, Held, Fresh, Current, Stamps, ReadPreference, RGoto, dbVars, requestVars, holdVars, ackVars, rowVars, Continue, Jobs, Stampers, Choices
<1>8. SlotIsNew(x)'
  BY <1>0 DEF ReminderInv, TypeOK, RLocal, Shape, SlotIsNew, Taken, ReadPreference, RGoto, dbVars, requestVars, holdVars, Continue
<1>9. RLocal(x)' BY <1>5, <1>6, <1>7, <1>8 DEF RLocal
<1> QED BY <1>1, <1>2, <1>3, <1>9, FromRLocal DEF ReadPreference, dbVars, Continue

-----------------------------------------------------------------------------
LEMMA CreatePreferenceStep ==
    ASSUME Assumptions, ReminderInv, NEW x \in Sessions, CreatePreference(x), UNCHANGED ackVars
    PROVE  ReminderInv'
<1>0. RLocal(x) BY DEF ReminderInv
<1>1. AckInv' => TypeOK'
  BY CurrentType, DefaultType, DayIsNat DEF ReminderInv, TypeOK, AckInv, CreatePreference, RGoto, dbVars, requestVars, holdVars, RPoints, Continue
<1>2. PreferenceLock' /\ SlotLock'
  BY <1>0, LocksStay DEF RLocal, Shape, CreatePreference, RGoto, dbVars, requestVars, holdVars, Continue, ReminderInv, TypeOK
<1>3. \A y \in Sessions \ {x} : RLocal(y)'
  BY OthersStay DEF CreatePreference, RGoto, dbVars, requestVars, holdVars, Continue, ReminderInv, TypeOK, ackVars, rowVars
<1>5. Shape(x)'
  BY <1>0, DefaultType DEF Assumptions, NoRowAssumption, ReminderInv, TypeOK, RLocal, Shape, Stamps, CreatePreference, RGoto, dbVars, requestVars, holdVars, Continue, Jobs, Stampers, Choices
<1>6. Held(x)'
  BY <1>0 DEF ReminderInv, TypeOK, RLocal, Shape, Held, Current, Stamps, CreatePreference, RGoto, dbVars, requestVars, holdVars, Continue, Stampers
<1>7. Fresh(x)'
  BY <1>0 DEF ReminderInv, TypeOK, RLocal, Shape, Held, Fresh, Current, Stamps, CreatePreference, RGoto, dbVars, requestVars, holdVars, ackVars, rowVars, Continue, Jobs, Stampers, Choices
<1>8. SlotIsNew(x)'
  BY <1>0 DEF ReminderInv, TypeOK, RLocal, Shape, SlotIsNew, Taken, CreatePreference, RGoto, dbVars, requestVars, holdVars, Continue
<1>9. RLocal(x)' BY <1>5, <1>6, <1>7, <1>8 DEF RLocal
<1> QED BY <1>1, <1>2, <1>3, <1>9, FromRLocal DEF CreatePreference, dbVars, Continue

-----------------------------------------------------------------------------
LEMMA ChooseStep ==
    ASSUME Assumptions, ReminderInv, NEW x \in Sessions, Choose(x), UNCHANGED ackVars
    PROVE  ReminderInv'
<1>0. RLocal(x) BY DEF ReminderInv
<1>a. slot'[x] \in Slots \cup {0}
  BY DEF Choose, Due, OpenSlots, ReminderInv, TypeOK
<1>b. /\ slot' = [slot EXCEPT ![x] = slot'[x]]
      /\ clock' = [clock EXCEPT ![x] = clock'[x]] /\ clock'[x] \in Nat
      /\ rpc' = [rpc EXCEPT ![x] = rpc'[x]] /\ rpc'[x] \in RPoints
  BY DEF Choose, RGoto, RPoints, ReminderInv, TypeOK
<1>1. AckInv' => TypeOK'
  BY <1>a, <1>b DEF ReminderInv, TypeOK, AckInv, Choose, dbVars, holdVars
<1>2. PreferenceLock' /\ SlotLock'
  BY <1>0, LocksStay DEF RLocal, Shape, Choose, RGoto, dbVars, requestVars, holdVars, ReminderInv, TypeOK
<1>3. \A y \in Sessions \ {x} : RLocal(y)'
  BY OthersStay DEF Choose, RGoto, dbVars, requestVars, holdVars, ReminderInv, TypeOK, ackVars, rowVars
<1>5. Shape(x)'
  BY <1>0 DEF ReminderInv, TypeOK, RLocal, Shape, Stamps, Choose, RGoto, dbVars, requestVars, holdVars, Due, OpenSlots, Slots, Stampers, Choices
<1>6. Held(x)'
  BY <1>0 DEF ReminderInv, TypeOK, RLocal, Shape, Held, Current, Stamps, Choose, RGoto, dbVars, requestVars, holdVars, Stampers
<1>7. Fresh(x)'
  BY <1>0 DEF ReminderInv, TypeOK, RLocal, Shape, Held, Fresh, Current, Stamps, Choose, RGoto, dbVars, requestVars, holdVars, ackVars, rowVars, Due, AllowedSlots, OpenSlots, Stampers, Choices
<1>8. SlotIsNew(x)'
  BY <1>0 DEF ReminderInv, TypeOK, RLocal, Shape, SlotIsNew, Taken, Choose, RGoto, dbVars, requestVars, holdVars
<1>9. RLocal(x)' BY <1>5, <1>6, <1>7, <1>8 DEF RLocal
<1> QED BY <1>1, <1>2, <1>3, <1>9, FromRLocal DEF Choose, dbVars

-----------------------------------------------------------------------------
LEMMA EnqueueStep ==
    ASSUME Assumptions, ReminderInv, NEW x \in Sessions, Enqueue(x), UNCHANGED ackVars
    PROVE  ReminderInv'
<1>0. RLocal(x) BY DEF ReminderInv
<1>1. AckInv' => TypeOK'
  BY DEF ReminderInv, TypeOK, AckInv, Enqueue, RGoto, dbVars, requestVars, holdVars, RPoints
<1>2. PreferenceLock' /\ SlotLock'
  <2>1. PreferenceLock'
    BY DEF ReminderInv, PreferenceLock, Enqueue
  <2>2. \A y \in Sessions \ {x} : inserted'[y] = inserted[y]
    BY DEF Enqueue, ReminderInv, TypeOK
  <2>3. \A y \in Sessions \ {x} :
            inserted[y] /\ slot[y] = slot[x] => Day(clock[y]) # Day(clock[x])
    BY DEF Enqueue
  <2>4. slot' = slot /\ clock' = clock BY DEF Enqueue, requestVars
  <2>5. ASSUME NEW y \in Sessions, NEW z \in Sessions, y # z, inserted'[y], inserted'[z],
               slot[y] # 0, slot[y] = slot[z]
        PROVE  Day(clock[y]) # Day(clock[z])
    BY <2>2, <2>3, <2>5 DEF ReminderInv, SlotLock
  <2>6. SlotLock'
    BY <2>4, <2>5 DEF SlotLock, Day
  <2> QED BY <2>1, <2>6
<1>3. \A y \in Sessions \ {x} : RLocal(y)'
  BY OthersStay DEF Enqueue, RGoto, dbVars, requestVars, holdVars, ReminderInv, TypeOK, ackVars, rowVars
<1>5. Shape(x)'
  BY <1>0 DEF ReminderInv, TypeOK, RLocal, Shape, Stamps, Stampers, Enqueue, RGoto, dbVars, requestVars, holdVars
<1>6. Held(x)'
  BY <1>0 DEF ReminderInv, TypeOK, RLocal, Shape, Held, Current, Stamps, Enqueue, RGoto, dbVars, requestVars, holdVars
<1>7. Fresh(x)'
  BY <1>0 DEF ReminderInv, TypeOK, RLocal, Shape, Held, Fresh, Current, Stamps, Enqueue, RGoto, dbVars, requestVars, holdVars, ackVars, rowVars
<1>8. SlotIsNew(x)'
  BY <1>0 DEF ReminderInv, TypeOK, RLocal, Shape, SlotIsNew, Taken, Enqueue, RGoto, dbVars, requestVars, holdVars
<1>9. RLocal(x)' BY <1>5, <1>6, <1>7, <1>8 DEF RLocal
<1> QED BY <1>1, <1>2, <1>3, <1>9, FromRLocal DEF Enqueue, dbVars

-----------------------------------------------------------------------------
LEMMA StampStep ==
    ASSUME Assumptions, ReminderInv, NEW x \in Sessions, Stamp(x), UNCHANGED ackVars
    PROVE  ReminderInv'
<1>0. RLocal(x) BY DEF ReminderInv
<1>a. Base(x) \in Preference
  BY <1>0 DEF ReminderInv, TypeOK, RLocal, Shape, Base, Stamp
<1>b. clock[x] \in Nat /\ job[x] \in Stampers
  BY <1>0 DEF ReminderInv, TypeOK, RLocal, Shape, Stamp
<1>c. [Base(x) EXCEPT ![job[x]] = clock[x]] \in Preference
  <2>1. CASE job[x] = "scan"
    <3>1. [Base(x) EXCEPT !["scan"] = clock[x]] \in Preference BY <1>a, <1>b DEF Preference
    <3> QED BY <2>1, <3>1
  <2>2. CASE job[x] = "remind"
    <3>1. [Base(x) EXCEPT !["remind"] = clock[x]] \in Preference BY <1>a, <1>b DEF Preference
    <3> QED BY <2>2, <3>1
  <2> QED BY <1>b, <2>1, <2>2 DEF Stampers
<1>1. AckInv' => TypeOK'
  BY <1>c DEF ReminderInv, TypeOK, AckInv, Stamp, RGoto, dbVars, requestVars, RPoints
<1>2. PreferenceLock' /\ SlotLock'
  BY <1>0, LocksStay DEF RLocal, Shape, Stamp, RGoto, dbVars, requestVars, holdVars, ReminderInv, TypeOK
<1>3. \A y \in Sessions \ {x} : RLocal(y)'
  BY OthersStay DEF Stamp, RGoto, dbVars, requestVars, holdVars, ReminderInv, TypeOK, ackVars, rowVars
<1>5. Shape(x)'
  BY <1>0 DEF ReminderInv, TypeOK, RLocal, Shape, Stamps, Stamp, RGoto, dbVars, requestVars, holdVars
<1>6. Held(x)'
  <2>1. Current' = Current /\ heldP'[x] = [Base(x) EXCEPT ![job[x]] = clock[x]]
    BY DEF Stamp, dbVars, Current, ReminderInv, TypeOK
  <2>2. /\ Base(x).mode = Current.mode /\ Base(x).until = Current.until
        /\ \A k \in Stampers : Base(x)[k] = Current[k]
    BY <1>0, <1>a, <1>b DEF RLocal, Shape, Held, Base, Current, Stamp, Stampers, Choices,
           Assumptions, NoRowAssumption
  <2>3. /\ heldP'[x].mode = Base(x).mode /\ heldP'[x].until = Base(x).until
        /\ heldP'[x][job[x]] = clock[x]
        /\ \A k \in Stampers \ {job[x]} : heldP'[x][k] = Base(x)[k]
    <3>1. CASE job[x] = "scan" BY <1>a, <2>1, <3>1 DEF Preference, Stampers
    <3>2. CASE job[x] = "remind" BY <1>a, <2>1, <3>2 DEF Preference, Stampers
    <3> QED BY <1>b, <3>1, <3>2 DEF Stampers
  <2>4. heldP'[x] # Free
    BY <1>c, <2>1 DEF Assumptions, NoRowAssumption
  <2>5. job' = job /\ clock' = clock /\ slot' = slot /\ rpc'[x] = "commit" /\ Stamps(x)
    BY <1>0 DEF Stamp, requestVars, RGoto, ReminderInv, TypeOK, RLocal, Shape
  <2> QED BY <2>1, <2>2, <2>3, <2>4, <2>5, <1>b DEF Held, Stamps
<1>7. Fresh(x)'
  BY <1>0 DEF ReminderInv, TypeOK, RLocal, Shape, Held, Fresh, Current, Stamps, Stamp, RGoto, dbVars, requestVars, holdVars, ackVars, rowVars, Jobs, Choices, Stampers
<1>8. SlotIsNew(x)'
  BY <1>0 DEF ReminderInv, TypeOK, RLocal, Shape, SlotIsNew, Taken, Stamp, RGoto, dbVars, requestVars, holdVars
<1>9. RLocal(x)' BY <1>5, <1>6, <1>7, <1>8 DEF RLocal
<1> QED BY <1>1, <1>2, <1>3, <1>9, FromRLocal DEF Stamp, dbVars

-----------------------------------------------------------------------------
LEMMA ChoiceStep ==
    ASSUME Assumptions, ReminderInv, NEW x \in Sessions, Choice(x), UNCHANGED ackVars
    PROVE  ReminderInv'
<1>0. RLocal(x) BY DEF ReminderInv
<1>a. Base(x) \in Preference
  BY <1>0 DEF ReminderInv, TypeOK, RLocal, Shape, Base, Choice
<1>b. Day(clock[x]) \in Nat
  BY DayIsNat DEF ReminderInv, TypeOK
<1>c. heldP' = [heldP EXCEPT ![x] = heldP'[x]] /\ heldP'[x] \in Preference
  BY <1>a, <1>b DEF Choice, Changed, ReminderInv, TypeOK, Preference, Modes
<1>1. AckInv' => TypeOK'
  BY <1>c DEF ReminderInv, TypeOK, AckInv, Choice, RGoto, dbVars, RPoints
<1>2. PreferenceLock' /\ SlotLock'
  BY <1>0, LocksStay DEF RLocal, Shape, Choice, RGoto, dbVars, requestVars, holdVars, ReminderInv, TypeOK
<1>3. \A y \in Sessions \ {x} : RLocal(y)'
  BY OthersStay DEF Choice, RGoto, dbVars, requestVars, holdVars, ReminderInv, TypeOK, ackVars, rowVars
<1>5. Shape(x)'
  BY <1>0 DEF ReminderInv, TypeOK, RLocal, Shape, Stamps, Choice, RGoto, dbVars, requestVars, holdVars, Choices
<1>6. Held(x)'
  BY <1>0 DEF ReminderInv, TypeOK, RLocal, Shape, Held, Current, Stamps, Choice, RGoto, dbVars, requestVars, holdVars, Changed, Base, Stampers, Choices
<1>7. Fresh(x)'
  BY <1>0 DEF ReminderInv, TypeOK, RLocal, Shape, Held, Fresh, Current, Stamps, Choice, RGoto, dbVars, requestVars, holdVars, ackVars, rowVars, Choices, Stampers
<1>8. SlotIsNew(x)'
  BY <1>0 DEF ReminderInv, TypeOK, RLocal, Shape, SlotIsNew, Taken, Choice, RGoto, dbVars, requestVars, holdVars
<1>9. RLocal(x)' BY <1>5, <1>6, <1>7, <1>8 DEF RLocal
<1> QED BY <1>1, <1>2, <1>3, <1>9, FromRLocal DEF Choice, dbVars

-----------------------------------------------------------------------------
LEMMA RRollBackStep ==
    ASSUME Assumptions, ReminderInv, NEW x \in Sessions, RRollBack(x), UNCHANGED ackVars
    PROVE  ReminderInv'
<1>0. RLocal(x) BY DEF ReminderInv
<1>1. AckInv' => TypeOK'
  BY DEF ReminderInv, TypeOK, AckInv, RRollBack, RGoto, dbVars, requestVars, holdVars, RPoints, REnd
<1>2. PreferenceLock' /\ SlotLock'
  BY <1>0, LocksStay DEF RLocal, Shape, RRollBack, RGoto, dbVars, requestVars, holdVars, REnd, ReminderInv, TypeOK
<1>3. \A y \in Sessions \ {x} : RLocal(y)'
  BY OthersStay DEF RRollBack, RGoto, dbVars, requestVars, holdVars, REnd, ReminderInv, TypeOK, ackVars, rowVars
<1>5. Shape(x)'
  BY <1>0 DEF ReminderInv, TypeOK, RLocal, Shape, Stamps, RRollBack, RGoto, dbVars, requestVars, holdVars, REnd
<1>6. Held(x)'
  BY <1>0 DEF ReminderInv, TypeOK, RLocal, Shape, Held, Current, Stamps, RRollBack, RGoto, dbVars, requestVars, holdVars, REnd
<1>7. Fresh(x)'
  BY <1>0 DEF ReminderInv, TypeOK, RLocal, Shape, Held, Fresh, Current, Stamps, RRollBack, RGoto, dbVars, requestVars, holdVars, ackVars, rowVars, REnd
<1>8. SlotIsNew(x)'
  BY <1>0 DEF ReminderInv, TypeOK, RLocal, Shape, SlotIsNew, Taken, RRollBack, RGoto, dbVars, requestVars, holdVars, REnd
<1>9. RLocal(x)' BY <1>5, <1>6, <1>7, <1>8 DEF RLocal
<1> QED BY <1>1, <1>2, <1>3, <1>9, FromRLocal DEF RRollBack, dbVars, REnd

-----------------------------------------------------------------------------
(* Commit.                                                                 *)

LEMMA Appended ==
    ASSUME NEW S, NEW q \in Seq(S), NEW e \in S
    PROVE  /\ Append(q, e) \in Seq(S)
           /\ Len(q) \in Nat
           /\ DOMAIN q = 1 .. Len(q)
           /\ DOMAIN Append(q, e) = 1 .. Len(q) + 1
           /\ Len(Append(q, e)) = Len(q) + 1
           /\ \A i \in 1 .. Len(q) : Append(q, e)[i] = q[i]
           /\ Append(q, e)[Len(q) + 1] = e
OBVIOUS

\* What a session about to commit has, and what it leaves behind.
LEMMA CommitFacts ==
    ASSUME Assumptions, ReminderInv, NEW x \in Sessions, RCommit(x)
    PROVE  /\ rpc[x] = "commit" /\ rpc'[x] = "idle"
           /\ job[x] \in Jobs /\ clock[x] \in Nat
           /\ Stamps(x) => job[x] \in Stampers /\ clock[x] > 0 /\ heldP[x] # Free
           /\ heldP[x] = Free => pref' = pref /\ log' = log
           /\ heldP[x] # Free => pref' = heldP[x] /\ pref' \in Preference /\ pref' # NoRow
<1>1. rpc[x] = "commit" /\ RLocal(x) /\ job[x] \in Jobs
  BY DEF RCommit, ReminderInv, RLocal, Shape
<1>2. Stamps(x) => job[x] \in Stampers /\ clock[x] > 0 /\ heldP[x] # Free
  BY <1>1 DEF RLocal, Shape, Held, Stamps, Stampers
<1> QED BY <1>1, <1>2 DEF RCommit, REnd, RGoto, ReminderInv, TypeOK, Assumptions, NoRowAssumption

LEMMA CommitTypes ==
    ASSUME Assumptions, ReminderInv, NEW x \in Sessions, RCommit(x), AckTypeOK'
    PROVE  TypeOK'
<1>1. log' \in Seq(Entry)
  <2>1. CASE ~Stamps(x) BY <2>1 DEF RCommit, ReminderInv, TypeOK
  <2>2. CASE Stamps(x)
    <3> DEFINE e == [job |-> job[x], at |-> clock[x], slot |-> slot[x],
                     new |-> inserted[x], fresh |-> fresh[x]]
    <3>1. e \in Entry
      BY <2>2, CommitFacts DEF Entry, Stampers, ReminderInv, TypeOK
    <3>2. log' = Append(log, e) BY <2>2 DEF RCommit
    <3>3. log \in Seq(Entry) BY DEF ReminderInv, TypeOK
    <3> QED BY <3>1, <3>2, <3>3, Appended
  <2> QED BY <2>1, <2>2
<1>2. pref' \in Preference \cup {NoRow}
  BY CommitFacts DEF ReminderInv, TypeOK
<1> QED
  BY <1>1, <1>2 DEF RCommit, REnd, RGoto, ReminderInv, TypeOK, RPoints

\* The columns x did not stamp are those that were committed.
LEMMA OtherStamp ==
    ASSUME Assumptions, ReminderInv, NEW x \in Sessions, RCommit(x), pref # NoRow,
           NEW k \in Stampers, ~Stamps(x) \/ k # job[x]
    PROVE  pref'[k] = pref[k]
<1>1. CASE heldP[x] = Free BY <1>1, CommitFacts
<1>2. CASE heldP[x] # Free
  BY <1>2, CommitFacts DEF ReminderInv, RLocal, Held, Current
<1> QED BY <1>1, <1>2

LEMMA CommitLogUnchanged ==
    ASSUME Assumptions, ReminderInv, NEW x \in Sessions, RCommit(x), ~Stamps(x)
    PROVE  LogFacts'
<1>1. log' = log BY DEF RCommit
<1>2. OneMessagePerSlot' /\ TooCloseOverlapped'
  BY <1>1 DEF ReminderInv, LogFacts, OneMessagePerSlot, TooCloseOverlapped
<1>3. ASSUME NEW i \in DOMAIN log,
             \A k \in DOMAIN log : k > i /\ log[k].job = log[i].job => log[k].fresh
      PROVE  pref' # NoRow /\ pref'[log[i].job] >= log[i].at
  <2>1. pref # NoRow /\ pref[log[i].job] >= log[i].at
    BY <1>3 DEF ReminderInv, LogFacts, StampStands
  <2>2. log[i].job \in Stampers
    <3>1. log \in Seq(Entry) BY DEF ReminderInv, TypeOK
    <3>2. log[i] \in Entry BY <1>3, <3>1
    <3> QED BY <3>2 DEF Entry, Stampers
  <2>3. pref'[log[i].job] = pref[log[i].job] BY <2>1, <2>2, OtherStamp
  <2> QED BY <2>1, <2>3, CommitFacts
<1>4. StampStands'
  BY <1>1, <1>3 DEF ReminderInv, LogFacts, StampStands
<1> QED BY <1>2, <1>4 DEF LogFacts

\* An undisturbed stamper kept the gap to the stamp it read.
LEMMA GapKept ==
    ASSUME Assumptions, ReminderInv, NEW x \in Sessions, RCommit(x), Stamps(x), fresh[x],
           pref # NoRow, pref[job[x]] # 0
    PROVE  clock[x] >= pref[job[x]] + Gap(job[x])
<1>1. Fresh(x) /\ Shape(x) /\ job[x] \in Stampers /\ rpc[x] = "commit"
  BY CommitFacts DEF ReminderInv, RLocal
<1>2. Current = pref BY DEF Current
<1>3. CASE job[x] = "remind"
  BY <1>1, <1>2, <1>3 DEF Fresh, MayRemind, Gap
<1>4. CASE job[x] = "scan"
  BY <1>1, <1>2, <1>4 DEF Fresh, Spaced, Gap, Stamps
<1> QED BY <1>1, <1>3, <1>4 DEF Stampers

LEMMA CommitLogExtended ==
    ASSUME Assumptions, ReminderInv, NEW x \in Sessions, RCommit(x), Stamps(x)
    PROVE  LogFacts'
<1> DEFINE n == Len(log) + 1
<1> DEFINE e == [job |-> job[x], at |-> clock[x], slot |-> slot[x],
                 new |-> inserted[x], fresh |-> fresh[x]]
<1>1. log' = Append(log, e) BY DEF RCommit
<1>2. log \in Seq(Entry) /\ e \in Entry
  BY CommitFacts DEF Entry, Stampers, ReminderInv, TypeOK
<1>3. /\ Len(log) \in Nat /\ DOMAIN log = 1 .. Len(log) /\ DOMAIN log' = 1 .. n
      /\ \A i \in 1 .. Len(log) : log'[i] = log[i]
      /\ log'[n] = e
  BY <1>1, <1>2, Appended
<1>4. /\ job[x] \in Stampers /\ clock[x] > 0 /\ clock[x] \in Nat
      /\ pref' # NoRow /\ pref'[job[x]] = clock[x]
  <2>1. heldP[x][job[x]] = clock[x]
    BY CommitFacts DEF ReminderInv, RLocal, Held
  <2> QED BY <2>1, CommitFacts
<1>5. /\ e.job = job[x] /\ e.at = clock[x] /\ e.slot = slot[x] /\ e.new = inserted[x]
      /\ e.fresh = fresh[x]
  OBVIOUS
<1> HIDE DEF e
<1>6. \A i \in 1 .. Len(log) : log[i] \in Entry BY <1>2, <1>3
<1>7. OneMessagePerSlot'
  <2> SUFFICES ASSUME NEW i \in 1 .. n, NEW j \in 1 .. n, i < j, log'[i].new, log'[j].new,
                      log'[i].job = "scan", log'[j].job = "scan",
                      log'[i].slot = log'[j].slot
               PROVE  Day(log'[i].at) # Day(log'[j].at)
    BY <1>3 DEF OneMessagePerSlot, Day
  <2>1. i \in 1 .. Len(log) BY <1>3
  <2>2. CASE j \in 1 .. Len(log)
    BY <1>3, <2>1, <2>2 DEF ReminderInv, LogFacts, OneMessagePerSlot
  <2>3. CASE j = n
    <3>1. inserted[x] /\ slot[x] # 0
      BY <1>3, <1>5, <2>3 DEF Stamps
    <3>2. slot[x] \notin Taken(Day(clock[x])) /\ slot[x] \in Slots
      BY <3>1 DEF ReminderInv, RLocal, SlotIsNew, TypeOK
    <3> QED BY <1>3, <1>5, <2>1, <2>3, <3>2 DEF Taken
  <2> QED BY <1>3, <2>2, <2>3
<1>8. ASSUME NEW i \in 1 .. Len(log), log[i].job = job[x], fresh[x],
             \A k \in 1 .. Len(log) : k > i /\ log[k].job = log[i].job => log[k].fresh
      PROVE  clock[x] >= log[i].at + Gap(job[x])
  <2>1. pref # NoRow /\ pref[job[x]] >= log[i].at /\ log[i].at > 0
    BY <1>3, <1>8 DEF ReminderInv, LogFacts, StampStands
  <2>2. log[i].at \in Nat /\ pref[job[x]] \in Nat
    BY <1>4, <1>6, <2>1 DEF Entry, ReminderInv, TypeOK, Preference, Stampers
  <2>3. Gap(job[x]) \in Nat
    BY DEF Gap, Assumptions, ReminderAssumption
  <2>4. clock[x] >= pref[job[x]] + Gap(job[x]) BY <1>8, <2>1, <2>2, GapKept
  <2> QED BY <1>4, <2>1, <2>2, <2>3, <2>4
<1>9. TooCloseOverlapped'
  <2> SUFFICES ASSUME NEW i \in 1 .. n, NEW j \in 1 .. n, i < j, log'[i].job = log'[j].job,
                      log'[j].at < log'[i].at + Gap(log'[i].job)
               PROVE  \E k \in i + 1 .. j : log'[k].job = log'[i].job /\ ~log'[k].fresh
    BY <1>3 DEF TooCloseOverlapped, Gap
  <2>1. i \in 1 .. Len(log) /\ log'[i] = log[i] BY <1>3
  <2>2. CASE j \in 1 .. Len(log)
    <3>1. PICK k \in i + 1 .. j : log[k].job = log[i].job /\ ~log[k].fresh
      BY <1>3, <2>1, <2>2 DEF ReminderInv, LogFacts, TooCloseOverlapped
    <3>2. k \in 1 .. Len(log) BY <1>3, <2>1, <2>2
    <3> QED BY <1>3, <2>1, <3>1, <3>2
  <2>3. CASE j = n
    <3>1. log[i].job = job[x] /\ clock[x] < log[i].at + Gap(job[x])
      BY <1>3, <1>5, <2>1, <2>3
    <3>2. log[i].at \in Nat /\ Gap(job[x]) \in Nat
      BY <1>6, <2>1 DEF Entry, Gap, Assumptions, ReminderAssumption
    <3>3. ~fresh[x] \/ \E k \in 1 .. Len(log) : k > i /\ log[k].job = log[i].job /\ ~log[k].fresh
      BY <1>4, <1>8, <2>1, <3>1, <3>2
    <3>4. CASE ~fresh[x]
      BY <1>3, <1>5, <2>1, <2>3, <3>1, <3>4
    <3>5. ASSUME NEW k \in 1 .. Len(log), k > i, log[k].job = log[i].job, ~log[k].fresh
          PROVE  \E l \in i + 1 .. j : log'[l].job = log'[i].job /\ ~log'[l].fresh
      <4>1. k \in i + 1 .. j BY <1>3, <2>3, <3>5
      <4> QED BY <1>3, <2>1, <3>5, <4>1
    <3> QED BY <3>3, <3>4, <3>5
  <2> QED BY <1>3, <2>2, <2>3
<1>10. StampStands'
  <2> SUFFICES ASSUME NEW i \in 1 .. n
               PROVE  /\ log'[i].at > 0
                      /\ (\A k \in 1 .. n : k > i /\ log'[k].job = log'[i].job => log'[k].fresh)
                             => pref' # NoRow /\ pref'[log'[i].job] >= log'[i].at
    BY <1>3 DEF StampStands
  <2>1. CASE i = n BY <1>3, <1>4, <1>5, <2>1
  <2>2. CASE i \in 1 .. Len(log)
    <3>1. log'[i] = log[i] /\ log[i].at > 0
      BY <1>3, <2>2 DEF ReminderInv, LogFacts, StampStands
    <3>2. ASSUME \A k \in 1 .. n : k > i /\ log'[k].job = log'[i].job => log'[k].fresh
          PROVE  pref'[log[i].job] >= log[i].at
      <4>1. \A k \in 1 .. Len(log) : k > i /\ log[k].job = log[i].job => log[k].fresh
        BY <1>3, <2>2, <3>1, <3>2
      <4>2. pref # NoRow /\ pref[log[i].job] >= log[i].at
        BY <1>3, <2>2, <4>1 DEF ReminderInv, LogFacts, StampStands
      <4>3. log[i].job \in Stampers /\ log[i].at \in Nat
        BY <1>6, <2>2 DEF Entry, Stampers
      <4>4. CASE log[i].job # job[x] BY <4>2, <4>3, <4>4, OtherStamp
      <4>5. CASE log[i].job = job[x]
        <5>1. fresh[x] BY <1>3, <1>5, <2>2, <3>1, <3>2, <4>5
        <5>2. clock[x] >= log[i].at + Gap(job[x]) BY <1>8, <2>2, <4>1, <4>5, <5>1
        <5>3. Gap(job[x]) \in Nat BY DEF Gap, Assumptions, ReminderAssumption
        <5> QED BY <1>4, <4>3, <4>5, <5>2, <5>3
      <4> QED BY <4>4, <4>5
    <3> QED BY <1>4, <3>1, <3>2
  <2> QED BY <1>3, <2>1, <2>2
<1> QED BY <1>7, <1>9, <1>10 DEF LogFacts

LEMMA CommitTaken ==
    ASSUME Assumptions, ReminderInv, NEW x \in Sessions, RCommit(x), NEW d \in Nat,
           NEW s \in Taken(d)', s \notin Taken(d)
    PROVE  inserted[x] /\ slot[x] = s /\ s # 0 /\ Day(clock[x]) = d /\ Stamps(x)
<1> DEFINE e == [job |-> job[x], at |-> clock[x], slot |-> slot[x],
                 new |-> inserted[x], fresh |-> fresh[x]]
<1>1. s \in Slots /\ s # 0 BY DEF Taken, Slots
<1>2. PICK i \in DOMAIN log' : /\ log'[i].job = "scan" /\ log'[i].new /\ log'[i].slot = s
                               /\ Day(log'[i].at) = d
  BY DEF Taken, Day
<1>3. Stamps(x) /\ log' = Append(log, e)
  <2>1. log' # log BY <1>1, <1>2 DEF Taken
  <2> QED BY <2>1 DEF RCommit
<1>4. log \in Seq(Entry) /\ e \in Entry
  BY <1>3, CommitFacts DEF Entry, Stampers, ReminderInv, TypeOK
<1>5. /\ Len(log) \in Nat /\ DOMAIN log = 1 .. Len(log) /\ DOMAIN log' = 1 .. Len(log) + 1
      /\ \A k \in 1 .. Len(log) : log'[k] = log[k]
      /\ log'[Len(log) + 1] = e
  BY <1>3, <1>4, Appended
<1>6. i \notin 1 .. Len(log)
  BY <1>1, <1>2, <1>5 DEF Taken
<1>7. log'[i] = e BY <1>2, <1>5, <1>6
<1> QED BY <1>1, <1>2, <1>3, <1>7

LEMMA CommitOthers ==
    ASSUME Assumptions, ReminderInv, NEW x \in Sessions, RCommit(x), UNCHANGED ackVars,
           NEW y \in Sessions \ {x}
    PROVE  RLocal(y)'
<1>1. /\ rpc'[y] = rpc[y] /\ job'[y] = job[y] /\ clock'[y] = clock[y] /\ seenP'[y] = seenP[y]
      /\ slot'[y] = slot[y] /\ inserted'[y] = inserted[y] /\ heldP'[y] = heldP[y]
  BY DEF RCommit, REnd, RGoto, ReminderInv, TypeOK
<1>2. RLocal(y) BY DEF ReminderInv
<1>3. Shape(y)'
  BY <1>1, <1>2, CommitFacts DEF RLocal, Shape, Stamps
<1>4. CASE heldP[x] = Free
  <2>1. pref' = pref /\ log' = log /\ (fresh'[y] => fresh[y]) /\ status' = status
    BY <1>4, CommitFacts DEF RCommit, ackVars, rowVars
  <2>2. Current' = Current BY <2>1 DEF Current
  <2>3. Held(y)' BY <1>1, <1>2, <2>2 DEF RLocal, Held, Stamps
  <2>4. Fresh(y)' BY <1>1, <1>2, <2>1, <2>2 DEF RLocal, Fresh
  <2>5. SlotIsNew(y)' BY <1>1, <1>2, <2>1 DEF RLocal, SlotIsNew, Taken
  <2> QED BY <1>3, <2>3, <2>4, <2>5 DEF RLocal
<1>5. CASE heldP[x] # Free
  <2>1. heldP[y] = Free BY <1>5 DEF ReminderInv, PreferenceLock
  <2>2. Held(y)' BY <1>1, <1>2, <2>1 DEF RLocal, Held, Stamps
  <2>3. Fresh(y)' BY <1>5 DEF Fresh, RCommit
  <2>4. SlotIsNew(y)'
    <3> SUFFICES ASSUME inserted[y], slot[y] # 0
                 PROVE  slot[y] \notin Taken(Day(clock[y]))'
      BY <1>1 DEF SlotIsNew, Taken, Day
    <3>1. slot[y] \notin Taken(Day(clock[y])) BY <1>2 DEF RLocal, SlotIsNew
    <3>2. Day(clock[y]) \in Nat BY DayIsNat DEF ReminderInv, TypeOK
    <3>3. ~(inserted[x] /\ slot[x] = slot[y] /\ Day(clock[x]) = Day(clock[y]))
      BY DEF ReminderInv, SlotLock
    <3>4. ASSUME slot[y] \in Taken(Day(clock[y]))' PROVE FALSE
      <4> PICK d \in Nat : d = Day(clock[y]) BY <3>2
      <4> PICK s \in Slots : s = slot[y] BY DEF ReminderInv, TypeOK
      <4>1. s \in Taken(d)' /\ s \notin Taken(d)
        BY <3>1, <3>4, <1>1 DEF Taken, Day
      <4>2. inserted[x] /\ slot[x] = s /\ Day(clock[x]) = d
        BY <4>1, CommitTaken
      <4> QED BY <3>3, <4>2
    <3> QED BY <3>4
  <2> QED BY <1>3, <2>2, <2>3, <2>4 DEF RLocal
<1> QED BY <1>4, <1>5

LEMMA RCommitStep ==
    ASSUME Assumptions, ReminderInv, NEW x \in Sessions, RCommit(x), UNCHANGED ackVars
    PROVE  ReminderInv'
<1>1. AckInv' BY AckStutter DEF ReminderInv
<1>2. TypeOK' BY <1>1, CommitTypes DEF AckInv
<1>3. PreferenceLock' /\ SlotLock'
  BY LocksStay DEF RCommit, REnd, ReminderInv, TypeOK
<1>4. LogFacts' BY CommitLogUnchanged, CommitLogExtended
<1>5. RLocal(x)'
  BY DEF RCommit, REnd, RGoto, ReminderInv, TypeOK, RLocal, Shape, Held, Fresh, SlotIsNew
<1>6. \A y \in Sessions \ {x} : RLocal(y)' BY CommitOthers
<1>7. now' > 0 BY DEF RCommit, ReminderInv
<1> QED BY <1>1, <1>2, <1>3, <1>4, <1>5, <1>6, <1>7 DEF ReminderInv

-----------------------------------------------------------------------------
LEMMA TickStep == ASSUME ReminderInv, Tick PROVE ReminderInv'
<1>1. AckInv' BY AckStutter DEF Tick, ReminderInv
<1>2. TypeOK' BY <1>1 DEF Tick, ReminderInv, TypeOK, AckInv, requestVars, holdVars
<1>3. \A x \in Sessions : RLocal(x)'
  BY DEF Tick, ReminderInv, RLocal, Shape, Held, Fresh, SlotIsNew, Stamps, Current, Taken,
         requestVars, holdVars, ackVars, rowVars
<1>4. LogFacts' BY LogStays DEF Tick
<1>5. PreferenceLock' /\ SlotLock'
  BY DEF Tick, ReminderInv, PreferenceLock, SlotLock, requestVars, holdVars
<1>6. now' > 0 BY DEF Tick, ReminderInv, TypeOK
<1> QED BY <1>1, <1>2, <1>3, <1>4, <1>5, <1>6 DEF ReminderInv

LEMMA ReminderStepInv ==
    ASSUME Assumptions, ReminderInv, NEW x \in Sessions, ReminderStep(x), UNCHANGED ackVars
    PROVE  ReminderInv'
BY RBeginStep, LoadStep, ReadPreferenceStep, CreatePreferenceStep, ChooseStep, EnqueueStep,
   StampStep, ChoiceStep, RCommitStep, RRollBackStep DEF ReminderStep

LEMMA ReminderStutter == ASSUME ReminderInv, UNCHANGED vars PROVE ReminderInv'
<1>1. AckInv' BY AckStutter DEF vars, ReminderInv
<1>2. TypeOK'
  BY <1>1 DEF vars, reminderVars, dbVars, requestVars, holdVars, ReminderInv, TypeOK, AckInv
<1>3. \A x \in Sessions : RLocal(x)'
  BY DEF vars, reminderVars, dbVars, ReminderInv, RLocal, Shape, Held, Fresh, SlotIsNew,
         Stamps, Current, Taken, requestVars, holdVars, ackVars, rowVars
<1>4. LogFacts' BY LogStays DEF vars, reminderVars, dbVars
<1>5. PreferenceLock' /\ SlotLock'
  BY DEF vars, reminderVars, ReminderInv, PreferenceLock, SlotLock, requestVars, holdVars
<1>6. now' > 0 BY DEF vars, reminderVars, dbVars, ReminderInv
<1> QED BY <1>1, <1>2, <1>3, <1>4, <1>5, <1>6 DEF ReminderInv

LEMMA ReminderSpecInv == ASSUME Assumptions PROVE Spec => []ReminderInv
<1>1. Init => ReminderInv BY ReminderInitial
<1>2. ReminderInv /\ [Next]_vars => ReminderInv'
  BY ReminderStepInv, WorkStep, TickStep, ReminderStutter DEF Next
<1> QED BY <1>1, <1>2, PTL DEF Spec

\* Types, for every instance.
THEOREM ReminderTypes == ASSUME Assumptions PROVE Spec => []TypeOK
<1>1. ReminderInv => TypeOK BY DEF ReminderInv
<1> QED BY <1>1, ReminderSpecInv, PTL

\* One message for each slot of a day (scan_due, the source key of the outbox).
THEOREM OneReminderPerSlot == ASSUME Assumptions PROVE Spec => []OneMessagePerSlot
<1>1. ReminderInv => OneMessagePerSlot BY DEF ReminderInv, LogFacts
<1> QED BY <1>1, ReminderSpecInv, PTL

\* Spacing and cooldown, unless requests overlapped.
THEOREM RemindersKeepTheirDistance ==
    ASSUME Assumptions PROVE Spec => []TooCloseOverlapped
<1>1. ReminderInv => TooCloseOverlapped BY DEF ReminderInv, LogFacts
<1> QED BY <1>1, ReminderSpecInv, PTL

\* What the assignment itself promises holds beside its reminders.
THEOREM CompletionWasEarnedBesideReminders ==
    ASSUME Assumptions PROVE Spec => []CompletedMeansAcknowledged
<1>1. ReminderInv => CompletedMeansAcknowledged BY DEF ReminderInv, AckInv
<1> QED BY <1>1, ReminderSpecInv, PTL

\* Only a commit changes the preference or the log.
LEMMA OnlyRCommitWrites ==
    ASSUME NEW x \in Sessions, ReminderStep(x), pref' # pref \/ log' # log
    PROVE  RCommit(x)
BY DEF ReminderStep, RBegin, Load, ReadPreference, CreatePreference, Choose, Enqueue, Stamp,
       Choice, RRollBack, dbVars

LEMMA CommitWriter ==
    ASSUME Next, pref' # pref \/ log' # log
    PROVE  \E x \in Sessions : RCommit(x) /\ UNCHANGED ackVars
BY OnlyRCommitWrites DEF Next, Work, Tick, dbVars

LEMMA ChoiceKeptStep ==
    ASSUME Assumptions, ReminderInv, Next, pref # NoRow,
           pref'.mode # pref.mode \/ pref'.until # pref.until
    PROVE  \E x \in Sessions : job[x] \in Choices /\ rpc'[x] # rpc[x]
<1>1. PICK x \in Sessions : RCommit(x) BY CommitWriter
<1>2. heldP[x] # Free /\ pref' = heldP[x] BY <1>1, CommitFacts
<1>3. job[x] \in Choices
  BY <1>2 DEF ReminderInv, RLocal, Held, Current
<1> QED BY <1>1, <1>3, CommitFacts

LEMMA ReminderWasDueStep ==
    ASSUME Assumptions, ReminderInv, Next, log' # log, log'[Len(log')].fresh
    PROVE  /\ status \in Open
           /\ pref'.mode # "disabled"
           /\ log'[Len(log')].job = "scan" => pref'.until < Day(log'[Len(log')].at)
<1>1. PICK x \in Sessions : RCommit(x) BY CommitWriter
<1> DEFINE e == [job |-> job[x], at |-> clock[x], slot |-> slot[x],
                 new |-> inserted[x], fresh |-> fresh[x]]
<1>2. Stamps(x) /\ log' = Append(log, e) BY <1>1 DEF RCommit
<1>3. /\ job[x] \in Stampers /\ heldP[x] # Free /\ pref' = heldP[x] /\ rpc[x] = "commit"
  BY <1>1, <1>2, CommitFacts
<1>4. log \in Seq(Entry) /\ e \in Entry
  BY <1>1, <1>2, CommitFacts DEF Entry, Stampers, ReminderInv, TypeOK
<1>5. log'[Len(log')] = e BY <1>2, <1>4, Appended
<1>6. fresh[x] BY <1>5
<1>7. Fresh(x) /\ Held(x) BY DEF ReminderInv, RLocal
<1>8. pref'.mode = Current.mode /\ pref'.until = Current.until
  BY <1>3, <1>7 DEF Held, Stampers, Choices
<1>9. CASE job[x] = "scan"
  BY <1>2, <1>3, <1>5, <1>6, <1>7, <1>8, <1>9 DEF Fresh, Stamps
<1>10. CASE job[x] = "remind"
  BY <1>3, <1>5, <1>6, <1>7, <1>8, <1>10 DEF Fresh, MayRemind
<1> QED BY <1>3, <1>9, <1>10 DEF Stampers

\* Choices of the employee are never undone by a stamp.
THEOREM ChoicesAreKept == ASSUME Assumptions PROVE Spec => ChoiceKept
<1>1. ReminderInv /\ [Next]_vars
          => [(pref # NoRow /\ (pref'.mode # pref.mode \/ pref'.until # pref.until))
                  => \E x \in Sessions : job[x] \in Choices /\ rpc'[x] # rpc[x]]_vars
  BY ChoiceKeptStep
<1> QED BY <1>1, ReminderSpecInv, PTL DEF Spec, ChoiceKept

\* A request that nothing overlapped reminds only of an open assignment, and
\* only an employee who wants to be reminded.
THEOREM RemindersAreDue == ASSUME Assumptions PROVE Spec => ReminderWasDue
<1>1. ReminderInv /\ [Next]_vars
          => [(log' # log /\ log'[Len(log')].fresh) =>
                  /\ status \in Open
                  /\ pref'.mode # "disabled"
                  /\ log'[Len(log')].job = "scan" =>
                         pref'.until < Day(log'[Len(log')].at)]_vars
  BY ReminderWasDueStep
<1> QED BY <1>1, ReminderSpecInv, PTL DEF Spec, ReminderWasDue

-----------------------------------------------------------------------------
(* Deadlocks.                                                              *)

\* A connection serves one request at a time.
OneRequest == \A x \in Sessions : rpc[x] = "idle" \/ pc[x] = "idle"

\* Who holds the preference row before its last statement has created it.
Created == \A x \in Sessions : rpc[x] # "commit" /\ heldP[x] # Free => pref = NoRow

DeadlockInv == ReminderInv /\ OneRequest /\ Created

LEMMA OneRequestKept ==
    ASSUME ReminderInv, OneRequest, [Next]_vars PROVE OneRequest'
<1>1. CASE \E x \in Sessions : ReminderStep(x) /\ UNCHANGED ackVars
  <2> PICK x \in Sessions : ReminderStep(x) /\ UNCHANGED ackVars BY <1>1
  <2>1. pc' = pc BY DEF ackVars
  <2>2. \A y \in Sessions \ {x} : rpc'[y] = rpc[y]
    BY DEF ReminderInv, TypeOK, ReminderStep, RBegin, Load, ReadPreference, CreatePreference,
           Continue, Choose, Enqueue, Stamp, Choice, RCommit, RRollBack, REnd, RGoto
  <2>3. rpc[x] # "idle" \/ pc[x] = "idle"
    BY DEF ReminderStep, Load, ReadPreference, CreatePreference, Choose, Enqueue, Stamp,
           Choice, RCommit, RRollBack
  <2> QED BY <2>1, <2>2, <2>3 DEF OneRequest
<1>2. CASE \E x \in Sessions : Work(x)
  <2> PICK x \in Sessions : Work(x) BY <1>2
  <2>1. rpc' = rpc /\ rpc[x] = "idle" BY DEF Work
  <2>2. \A y \in Sessions \ {x} : pc'[y] = pc[y]
    BY DEF ReminderInv, AckInv, AckTypeOK, Work, AckStep, OpenDocument, Acknowledge, Cancel,
           Begin, ReadItem, MarkInProgress, AckItem, Tally, Close, MarkCancelled, Commit,
           RollBack, End, Goto
  <2> QED BY <2>1, <2>2 DEF OneRequest
<1>3. CASE Tick BY <1>3 DEF Tick, ackVars, OneRequest
<1>4. CASE UNCHANGED vars BY <1>4 DEF vars, ackVars, reminderVars, OneRequest
<1> QED BY <1>1, <1>2, <1>3, <1>4 DEF Next

\* Only a commit stores the row, and then nobody else holds it.
LEMMA CreatedKept ==
    ASSUME Assumptions, ReminderInv, Created, [Next]_vars PROVE Created'
<1>1. ASSUME NEW x \in Sessions, RCommit(x) PROVE Created'
  <2>1. heldP' = [heldP EXCEPT ![x] = Free] BY <1>1 DEF RCommit, REnd
  <2>2. rpc' = [rpc EXCEPT ![x] = "idle"] BY <1>1 DEF RCommit, REnd, RGoto
  <2>3. pref' = IF heldP[x] = Free THEN pref ELSE heldP[x] BY <1>1 DEF RCommit
  <2> QED BY <2>1, <2>2, <2>3 DEF Created, ReminderInv, TypeOK, PreferenceLock
<1>2. ASSUME NEW x \in Sessions, ReminderStep(x), ~RCommit(x) PROVE Created'
  <2>1. pref' = pref
    BY <1>2 DEF ReminderStep, RBegin, Load, ReadPreference, CreatePreference, Choose, Enqueue,
           Stamp, Choice, RRollBack, dbVars
  <2>2. \A y \in Sessions \ {x} : rpc'[y] = rpc[y] /\ heldP'[y] = heldP[y]
    BY <1>2 DEF ReminderInv, TypeOK, ReminderStep, RBegin, Load, ReadPreference,
           CreatePreference, Continue, Choose, Enqueue, Stamp, Choice, RRollBack, REnd, RGoto,
           holdVars
  <2>3. rpc'[x] = "commit" \/ heldP'[x] = Free \/ pref = NoRow
             \/ (heldP'[x] = heldP[x] /\ rpc[x] # "commit")
    BY <1>2 DEF ReminderInv, TypeOK, ReminderStep, RBegin, Load, ReadPreference,
           CreatePreference, Continue, Choose, Enqueue, Stamp, Choice, RRollBack, REnd, RGoto,
           holdVars
  <2> QED BY <2>1, <2>2, <2>3 DEF Created
<1>3. CASE \E x \in Sessions : Work(x)
  BY <1>3 DEF Work, Created, dbVars, holdVars
<1>4. CASE Tick BY <1>4 DEF Tick, holdVars, Created
<1>5. CASE UNCHANGED vars BY <1>5 DEF vars, reminderVars, dbVars, holdVars, Created
<1> QED BY <1>1, <1>2, <1>3, <1>4, <1>5 DEF Next

LEMMA DeadlockSpecInv == ASSUME Assumptions PROVE Spec => []DeadlockInv
<1>1. Init => OneRequest /\ Created BY DEF Init, AckInit, OneRequest, Created
<1>2. ReminderInv /\ OneRequest /\ Created /\ [Next]_vars => OneRequest' /\ Created'
  BY OneRequestKept, CreatedKept
<1> QED BY <1>1, <1>2, ReminderSpecInv, PTL DEF Spec, DeadlockInv

\* Who holds the preference row waits, if at all, to enqueue; but then it has
\* just created the row, and nobody else is past reading it.
LEMMA HolderOfPreference ==
    ASSUME Assumptions, DeadlockInv, NEW x \in Sessions, NEW y \in Sessions,
           heldP[x] # Free, WaitsForReminder(x, y)
    PROVE  FALSE
<1>1. heldP[y] = Free
  BY DEF DeadlockInv, ReminderInv, PreferenceLock, WaitsForReminder
<1>2. rpc[x] = "enqueue" /\ inserted[y]
  BY <1>1 DEF WaitsForReminder, DeadlockInv, ReminderInv, RLocal, Shape
<1>3. pref = NoRow
  BY <1>2 DEF DeadlockInv, Created
<1>4. rpc[y] = "stamp" \/ (rpc[y] = "commit" /\ Stamps(y))
  BY <1>2 DEF DeadlockInv, ReminderInv, RLocal, Shape
<1> QED BY <1>1, <1>3, <1>4 DEF DeadlockInv, ReminderInv, RLocal, Shape, Held

\* A scan or a reminder, or a choice, that waits does not close a cycle: the
\* one it waits for waits for nobody, or for one that does not.
LEMMA NoReminderStuck ==
    ASSUME Assumptions, DeadlockInv, NEW stuck \in SUBSET Sessions,
           \A x \in stuck : \E y \in stuck : WaitsFor(x, y),
           NEW x \in stuck, NEW y \in stuck
    PROVE  ~WaitsForReminder(x, y)
<1>1. ASSUME NEW z \in stuck, heldP[z] # Free PROVE FALSE
  <2>1. PICK w \in stuck : WaitsFor(z, w) OBVIOUS
  <2>2. pc[z] = "idle"
    BY <1>1 DEF DeadlockInv, OneRequest, ReminderInv, RLocal, Shape
  <2>3. WaitsForReminder(z, w)
    BY <2>1, <2>2 DEF WaitsFor, WaitsForRow
  <2> QED BY <1>1, <2>3, HolderOfPreference
<1>2. ASSUME NEW z \in stuck, inserted[z] PROVE FALSE
  <2>1. PICK w \in stuck : WaitsFor(z, w) OBVIOUS
  <2>2. rpc[z] \in {"stamp", "commit"} /\ pc[z] = "idle"
    BY <1>2 DEF DeadlockInv, OneRequest, ReminderInv, RLocal, Shape
  <2>3. heldP[w] # Free
    BY <2>1, <2>2 DEF WaitsFor, WaitsForRow, WaitsForReminder
  <2> QED BY <1>1, <2>3
<1> QED BY <1>1, <1>2 DEF WaitsForReminder

\* Among requests on the assignment, who holds an item waits to close.
LEMMA HolderOfItem ==
    ASSUME Assumptions, DeadlockInv, NEW stuck \in SUBSET Sessions,
           \A x \in stuck : \E y \in stuck : WaitsFor(x, y),
           NEW x \in stuck, wroteItem[x] # Free
    PROVE  pc[x] = "close"
<1>1. PICK y \in stuck : WaitsForRow(x, y)
  BY NoReminderStuck DEF WaitsFor
<1> QED BY <1>1 DEF DeadlockInv, ReminderInv, AckInv, Local, WaitsForRow

\* Who holds the assignment waits for an item, and for one who waits for it.
LEMMA HolderOfAssignment ==
    ASSUME Assumptions, DeadlockInv, NEW stuck \in SUBSET Sessions,
           \A x \in stuck : \E y \in stuck : WaitsFor(x, y),
           NEW x \in stuck, wrote[x] # Free
    PROVE  \E y \in stuck :
               /\ item[x] \in Items /\ wroteItem[y] = item[x]
               /\ WaitsForRow(x, y) /\ WaitsForRow(y, x)
<1>1. PICK y \in stuck : WaitsForRow(x, y)
  BY NoReminderStuck DEF WaitsFor
<1>2. wrote[y] = Free
  BY <1>1 DEF DeadlockInv, ReminderInv, AckInv, StatusLock, WaitsForRow
<1>3. pc[x] = "ackItem" /\ wroteItem[y] = item[x] /\ item[x] \in Items
  BY <1>1, <1>2 DEF WaitsForRow, DeadlockInv, ReminderInv, AckInv, Local
<1>4. pc[y] = "close"
  BY <1>3, HolderOfItem DEF Assumptions, AcknowledgementAssumption
<1> QED BY <1>1, <1>3, <1>4 DEF WaitsForRow

LEMMA StuckIsDoubleClick ==
    ASSUME Assumptions, DeadlockInv PROVE DeadlockIsDoubleClick
<1> SUFFICES ASSUME NEW stuck \in SUBSET Sessions, stuck # {},
                    \A x \in stuck : \E y \in stuck : WaitsFor(x, y)
             PROVE  \E x, y \in stuck :
                        /\ item[x] \in Items /\ wroteItem[y] = item[x]
                        /\ wrote[x] # Free
                        /\ WaitsForRow(x, y) /\ WaitsForRow(y, x)
  BY DEF DeadlockIsDoubleClick
<1>1. PICK x \in stuck, y \in stuck : WaitsForRow(x, y)
  BY NoReminderStuck DEF WaitsFor
<1>2. \E z \in stuck : wrote[z] # Free
  <2>1. CASE wrote[y] # Free BY <2>1
  <2>2. CASE wrote[y] = Free
    <3>1. wroteItem[y] = item[x] /\ item[x] \in Items
      BY <1>1, <2>2 DEF WaitsForRow, DeadlockInv, ReminderInv, AckInv, Local
    <3>2. pc[y] = "close"
      BY <3>1, HolderOfItem DEF Assumptions, AcknowledgementAssumption
    <3>3. PICK z \in stuck : WaitsForRow(y, z)
      BY NoReminderStuck DEF WaitsFor
    <3> QED BY <3>2, <3>3 DEF WaitsForRow
  <2> QED BY <2>1, <2>2
<1> QED BY <1>2, HolderOfAssignment

\* Scans, reminders, choices, acknowledgements and cancellations deadlock in one
\* way only: two acknowledgements of one document, in opposite orders of the
\* assignment and the item (acknowledge_item).
THEOREM OnlyDoubleClicksDeadlock ==
    ASSUME Assumptions PROVE Spec => []DeadlockIsDoubleClick
<1>1. DeadlockInv => DeadlockIsDoubleClick BY StuckIsDoubleClick
<1> QED BY <1>1, DeadlockSpecInv, PTL

\* The reminders leave the assignment alone: with them it is still a behaviour
\* of Acknowledgement, whose theorems therefore hold here too.
THEOREM RemindersOnlyRead == Spec => AckSpec
<1>1. Init => AckInit BY DEF Init
<1>2. [Next]_vars => [AckNext]_ackVars
  BY DEF Next, Work, Tick, AckNext, vars
<1> QED BY <1>1, <1>2, PTL DEF Spec, AckSpec
=============================================================================
