# A formal model of onboard-ai

onboard-ai is a multi-tenant onboarding platform: a FastAPI application over
PostgreSQL, a Telegram bot that talks to it over HTTP, and a knowledge base with
an AI chat. This directory holds TLA+ models of its concurrent core, the TLC
configurations that check them on small instances, and proofs checked by TLAPS.
Paths below are relative to the repository (`src/`).

    tlc -workers 2 -config MCOutboundRace.cfg MCOutbound.tla
    tlc -workers 2 -config MCCourse.cfg MCCourse.tla        # likewise the other MC*.cfg
    tlapm OutboundProofs.tla                                # likewise the other *Proofs.tla

`PROJECT.json` lists the runs, the source lines behind every definition, the
hazards the properties are aimed at, and the theorems.

## 1. The system

| Component | State it keeps | Operations | Hard behaviour | Model |
|---|---|---|---|---|
| Telegram outbox (`app/services/telegram_outbound.py`, its repository, `app/bot/services/outbound_delivery.py`) | rows `pending/sending/sent/failed`, `attempt_count`, owner token, lease, back-off | enqueue, claim one, claim a batch, allow, send, mark sent, mark failed, expire | leases that run out, crashes, lost and late acknowledgements, ambiguous Telegram answers, two executors | `Outbound`, `AtLeastOnce`, `OutboundProofs` |
| Assignments and learning progress (`app/services/progress.py`, `learning_progress.py`, `assignment.py`) | assignment status, one progress row per step, quiz attempts | create, start, advance, read to the end, complete, cancel | concurrent READ COMMITTED transactions that decide from what they read first | `Assignment`, `AssignmentOverlap`, `OneByOne`, `AssignmentProofs`, `AssignmentOverlapProofs` |
| Idempotency receipts (`app/services/idempotency.py`, `app/bot/middlewares/idempotency.py`) | receipts `processing/completed/failed`, owner, lease | claim, complete, fail | redelivered updates, reclaim after a lease, stale owners | inside `ChatTurn` |
| AI chat turn (`app/services/ai/chat.py`, `conversations.py`, `app/bot/handlers/ai.py`) | conversations, messages, cached response, the bot's pointer in Redis | ask, answer, archive, complete turn | a time-out around a commit, replay, lost claim, archive in between | `ChatTurn`, `OneTurn`, `ChatTurnProofs` |
| Acknowledgements (`app/services/assignment.py:443-486, 606-829`) | items acknowledged per assignment | open, acknowledge, cancel | double clicks, write skew, lock order | `Acknowledgement`, `AcknowledgementProofs` |
| Reminders (`app/services/reminder.py`, `reminder_policy.py`) | preferences, last sent, slots of the day | scan, remind now, acknowledge, change mode | two scanners, cooldown read before write, a clock older than its transaction | `Reminder`, `ReminderProofs` |
| Knowledge articles and index (`app/services/knowledge/`, `app/services/ai/indexer.py`, the searches of `retriever.py`) | article status, current version, chunk sets, indexing lease | publish, archive, update, index, reindex, retrieve | embedding outlives the lease, failed refresh, publication in between | `KnowledgeIndex`, `ServedIndex`, `KnowledgeIndexProofs` |
| Programs and steps (`app/services/step.py`, `course_edit_policy.py`, `course_snapshot.py`, `onboarding_program.py`, `create_many`) | steps, revision, published flag, snapshots of assignments | create, update, reorder, delete, publish, archive, assign | a lock that is a read, snapshots taken in several statements, foreign keys to uncommitted rows | `Course`, `CourseProofs` |
| Unit of work (`app/db/uow.py`, `app/repositories/base.py`) | session identity map, open transaction | enter, commit, rollback, update | rows read once and not read again | inside `Assignment`, `Acknowledgement`, `Reminder`, `Course` |
| Refresh sessions; employees, invites, password reset; companies and subscriptions; organisation; ranking and language models; assistant routing; API routes; rate limits, metrics, readiness; bot handlers; analytics and audit; frontend, migrations, deployment | | | | not modelled (section 8) |

How they interact. A producer (assignment creation, a reminder, a quiz attempt in the bot,
a chat turn) inserts an outbox row in the transaction of its own effect. The
bot's polling loop, and the update handler that has just caused a message,
claim rows over HTTP, re-check the assignment for reminder-like messages, send,
and acknowledge over HTTP. `Assignment` contains the producer side of quiz
results (`outbound`, keyed by progress row and attempt number), `ChatTurn` that
of answers, `Reminder` that of reminders (one source key per slot of the day);
`Outbound` takes over from the row. `Reminder` extends `Acknowledgement` and runs
both kinds of request against one assignment. `Course` and `Assignment` divide a
program assignment at its creation: `Course` creates it and abstracts its later
life to `SetStatus`; `Assignment` starts from a created one whose steps do not
change, which `AssignedStepsExist` and `LockHolds` of `Course` justify as far as
they go (section 5 says where they stop).

## 2. Modules

### AtLeastOnce - what the outbox promises
For each message a fate (`unsubmitted`, `open`, `sent`, `failed`), the number of
attempts opened, and the copies each attempt put in the chat. At most
`MaxAttempts` attempts; one copy per attempt; "sent" only when the newest
attempt landed; nothing is opened after the end. A copy may land late: after a
newer attempt was opened, or after the message was settled.

### Outbound - the outbox
| State | Code |
|---|---|
| `status`, `attempts`, `owner` | columns of `telegram_outbound_messages` |
| `ripe` | `next_attempt_at <= now` of a pending row, `lease_expires_at < now` of a sending row |
| `pc`, `tok`, `batch`, `cur` | where `run()` or `deliver_source()` is, the owner token it claimed under, the rest of its batch, the delivery in hand |
| `calls` | `mark_telegram_outbound_sent/failed` requests sent and not yet committed |
| `closed`, `lastOpen` | the assignment behind a gated message; the attempt count when it closed (history) |
| `copies`, `excused` | history: what the chat received, and whether a cause for a duplicate occurred |

Time is not a number. `Ripen` may make a lease or a back-off run out at any
moment, so the results hold for every lease, back-off and network latency; the
price is that runs in which a lease outlives its holder are included too, which
they are in the code (a batch of 20 shares one 120 s lease and is sent one by
one). A claim (`expire_exhausted_stale`, the claiming UPDATE, commit) is one
step: its statements wait for a locked row or skip it, and a row skipped is one
that another claim is taking, which is the same as claiming after it.
`mark_failed` is two steps, because it reads `attempt_count` without a lock and
decides in the UPDATE that follows. Owner tokens (uuid4) are drawn from a finite
set: a fresh one is a token nothing carries any more.

### Assignment - one program assignment under concurrent requests
Every request is one unit of work: a READ COMMITTED transaction that reads,
decides in memory and writes. `assignment`, `progress`, `outbound` are
committed; `heldA`, `heldP` what a session has written (and so locked) and not
committed; `seenA`, `seenP` the objects of its identity map. One action per
statement that matters:

| Action | Code |
|---|---|
| `Complete`, `ReadProgress`, `WriteProgress`, `OpenAssignment`, `Tally`, `CloseAssignment` | the reads and UPDATEs of `complete_step` in their order |
| `Learn`, `ReadAssignment`, `StartStep`, `OpenStarted`, `Advance` | `_load_mutable`, `_ensure_started`, `advance_block` |
| `LeaveRead`, `CompleteAfterRead` | `complete_content_block` leaving its unit of work without a commit and entering `complete_step` |
| `Cancel`, `Discard`, `MarkCancelled` | the check, the DELETE row by row, and the UPDATE of `cancel_assignment` |
| `Commit`, `RollBack`, `Lose` | the end of a unit of work; a lost client, connection or process |

SQLAlchemy's part is modelled by what it does: `get` answers from the identity
map, an UPDATE writes the columns that differ from the object in memory and no
others (`QuizRow`, `ContentRow`, `StartedRow`), an UPDATE that matches no row
raises.

A completion names who posts it (`Clients`), because the code treats them
differently. The bot (`telegram`, header `X-Telegram-Delivery`) has a quiz result
enqueued under the attempt's number and is refused if that number's message says
something else (`Announced`, `QuizResultAccepted`). The web client posts the same
answers without the header: nothing is enqueued and nothing compared, the result
is in the response. Both send a payload with a content step, which replaces the
stored one and `block_index` with it, so that the cursor of a step completed this
way reads 0; a client that sends none (`bare`) leaves it; reading to the end
writes the last block (`ContentRow`). A structured quiz without answers is
refused.

Assumptions: quizzes are structured (other quizzes are completed like content,
and their one message, without an attempt number, is left out); nothing writes
the status `skipped` (no code does); the DELETE meets the rows in the same order
in every request; the steps of the program do not change under an active
assignment.

### OneByOne, AssignmentOverlap - what a request does when nothing overtakes it
`OneByOne` serves the same requests one at a time, each in a step that reads and
writes the committed rows: complete a content step with or without a payload or by
reading it, submit an attempt in the bot or in the web client, start, advance by
one block, cancel. `AssignmentOverlap` is `Assignment` with a history
variable: `fresh[x]` holds while nothing that the unit of work of session `x`
decides from has changed since it began (`SameFor`: the assignment; for a learner
also the row of its step, and which steps are done). Between its two units of
work a request has read nothing (`Unread`), so `complete_content_block` starts
anew at its second one. A request that commits without being fresh was
*overtaken*. Every commit of a request that was not overtaken is a step of
`OneByOne` (`UndisturbedIsAtomic`), whatever statements of other requests,
lock waits, lost connections and roll-backs lie in between. A quiz submission
and the last block of a content step are each the one step `Complete`: the row
and the assignment change together.

### OneTurn, ChatTurn - a question asked in Telegram
`OneTurn` is the promise: a question is answered at most once, and the cached
answer, the stored turn and the outbox row appear in one step and stay.
`ChatTurn` follows an update through the bot's receipt middleware, the AI
handler, the assistant endpoint and the chat service.

| State | Code |
|---|---|
| `uStatus`, `uOwner`, `uLate` | the receipt of the Telegram update, its owner, whether its lease ran out |
| `tStatus`, `tOwner`, `tLate`, `tConv` | the receipt of the turn and the conversation in its cached answer |
| `conv`, `pointer` | status of the conversations; the conversation open in Telegram (Redis) |
| `kept`, `places`, `outbox` | stored turns, where they are, and rows for the outbox |
| `hpc`, `hq`, `hconv`, `hreq`, `hgot` | handlers: a task of the bot with one delivery of an update |
| `rpc`, `rq`, `rconv` | requests inside the API, which outlive a handler that stopped waiting |

Leases and time-outs are not numbers: `uLate`, `tLate` and the handler's
time-out may turn true at any moment, also around a commit, which is then
stored or not before the claim is failed. Owner tokens are omitted: every UPDATE
of a receipt matches the receipt's id as well as the token, so the identity of
the claiming handler or request is enough. Routing, the language model and the
reads of the pointer touch nothing shared and are part of their neighbours. A
request from the web interface carries no key. An update's request hash is a
function of the update, so it never conflicts with itself.

### ServedIndex, KnowledgeIndex - what retrieval can see
`ServedIndex` is the promise: a version has no index or one complete index of
one embedding model, replaced whole. `KnowledgeIndex` has the article
(`status`, `current`, `newest`), the columns of each version (`ixStatus`,
`ixOwner`, `ixLive`, `ixModel`), its chunks - abstracted to the model that built
them - and requests that publish, edit, archive or reindex and then run the
indexer: `Check`, `Claim`, `Prepare`, `Embed`, `Recheck`, `Replace`, each a
transaction of its own. The check that precedes a claim and the claiming UPDATE
are separate steps; the batches of one embedding are one step. A reader lists
what it may read, embeds its question and then searches twice. Two history
variables: `fresh[r]` holds while the article has the status and the current
version that request `r` read, and `excused` says that the published text became
so by a request that was not fresh, or that a run for it was lost.

### Acknowledgement, Reminder - documents to confirm, and reminders of them
`Acknowledgement` is to an acknowledgement assignment what `Assignment` is to a
program: `status` and `acked` are committed, `wrote` and `wroteItem` locked,
`seen` and `seenItem` remembered. `Reminder` adds the preference row `pref`, the
log of what stamped it, and the scans, manual reminders and choices that use it.
A connection serves one request at a time, of either module. Decisions
translated from `reminder_policy.py`: `Due`, `MayRemind`, `OpenSlots`,
`AllowedSlots`, `Spaced`, `ReducedInterval`. A request takes its clock once,
before its transaction, and may be overtaken by time. `Load` looks at the
assignment again; the reads of the slot's message and of what came before it are
one step (nothing between them depends on the first). The deadlock of a double
click (item and assignment row in opposite orders) is broken by PostgreSQL,
which fails one of the statements: `RollBack`. `WaitsForRow` and
`WaitsForReminder` say for which session a request waits at its next statement,
the INSERT of a preference that another has inserted and not committed included;
`DeadlockIsDoubleClick` says that the double click is the only way to wait in
a circle.

### Course - steps, revision, snapshots
| State | Code |
|---|---|
| `course`, `revision`, `published` | the step rows; `onboarding_programs.revision`, `is_active` |
| `assigned` | assignments with `program_revision` and `structure_snapshot`; their progress rows exist until they are cancelled |
| `seen`, `rev` | steps and revision in the identity map of a request |
| `wrote`, `shared`, `holds` | step rows written, steps its new progress rows refer to (`FOR KEY SHARE`), the program row written - all uncommitted |
| `fresh` | history: nothing the request may have read has changed since it began |

A row is a step's position, type and content in one value. A position is part of
a unique key, so that an UPDATE of it, like a DELETE, waits for key-share locks
of uncommitted progress rows (`KeyFree`); an UPDATE of other columns does not
(`RowFree`). `create_many` reads program and steps twice: its validation keeps no
reference to the objects it loaded, and the identity map holds them weakly, so
that the second list (`Relist`) and the second look at the program (`Reread`)
return the rows of that moment, without the checks the validation made. A DELETE that matches no row is a warning, and the request
goes on; values that equal those in memory are not sent, but the revision counts
the request. The two phases of a renumbering read nothing and are one step.
`create_many` for several employees is one assignment here: they share one
transaction, one snapshot and one set of steps.

### MC modules
Instances for TLC and their symmetries. Operators whose name begins with
`Mutant` are variants of the operator below them with a plausible bug.
Substituting one for the original must break the property it was written for;
nothing else uses them.

## 3. Runs

| Configuration | Instance | Shows |
|---|---|---|
| `MCOutboundRace` | 1 gated message, 1 polling loop, 1 handler, 4 tokens, 3 attempts | every safety property of the outbox, refinement of `AtLeastOnce`, eventual settlement |
| `MCOutboundBatch` | 2 messages in one batch | one acknowledgement settles one row; both settle |
| `MCAssignmentRace` | 1 content step with 2 blocks and 1 quiz, both required, 3 connections that complete (bot, and without payload), advance, read and cancel, 2 attempts | cancellation and completion properties, no lock cycle |
| `MCAssignmentOverlap` | 1 content step with 2 blocks and 1 quiz, both required, 1 attempt number, 2 connections, all kinds of request (bot and web) | a request that nothing overtook does what it would have done alone; the bot tells what it stores; no request waits for ever |
| `MCAssignmentCancel`, `MCAssignmentSkew`, `MCAssignmentCursor` | each a minimal instance | three statements of the repository that the code does not keep (section 5) |
| `MCChatTurn` | 1 question, 2 handlers, 2 requests (one may come from the web), 2 conversations | one turn per question, answered through the outbox; refinement of `OneTurn` |
| `MCKnowledgeIndex` | 3 versions, 2 requests that may be lost anywhere, 2 embedding models, 1 reader | the index is honest and comparable, the newest text is current, a publication settles, archived is final; refinement of `ServedIndex` |
| `MCKnowledgePending` | 2 versions, 2 requests, none lost | a statement of the architecture the code does not keep (section 5) |
| `MCReminder` | 2 required documents, 2 connections, days of 3 hours with a window of 2, times up to 2, 2 log entries | everything said of acknowledgements and reminders, composed, and which requests can deadlock |
| `MCCourse` | 2 steps with 2 values, 1 assignment, 2 connections, revisions up to 3 | no assignment loses a step; lock and revision hold but for overlaps |

The type invariant is checked in `MCOutboundRace`. Those of the other models are
theorems (`AssignmentTypeOK`, `ChatTypeOK`, `KnowledgeTypes`, `AcknowledgementTypes`,
`ReminderTypes`, `CourseTypes`, and `OInv` for `AssignmentOverlap`), and the runs
leave them out.

Why these bounds are enough for what they show. Two executors are the least
that race, and a third adds nothing a fresh claim by the first does not (an
executor that abandoned its batch claims again). Three attempts separate the
first, a middle and the last one (back-off, reclaim, exhaustion); the code uses
more. Four tokens cover two executors and the calls left behind by two earlier
ones; a claim waits only when no token is free, and the proofs do not depend on
their number. In `Assignment` three connections are needed: two completions
and a cancellation, or a waiting chain of length two. Two steps are the least
for a write skew, a lock order and a partial DELETE. `MaxTries` bounds quiz
submissions in the guard `Completable`. Two runs divide the rest: three
connections without starts, the bot and completions without a payload, and two
attempts, of which the second may count from a stale 0 or 1 (`MCAssignmentRace`);
and two connections with starts, the bot and the web client, and attempts numbered
1, which is enough for two of the same number, of one client or of both, and for a
start that resets the count (`MCAssignmentOverlap`). The clients differ in what they
store and enqueue, which the properties of the first run do not look at; later
numbers, and all clients together, are proved. `MCAssignmentCursor` has
advances only and three blocks, the least for a cursor that was at 0, is at 2 and
goes back to 1. In `ChatTurn` two handlers and two requests are a
delivery and its redelivery, and each of them may be replaced after a crash;
`Convs` bounds the conversations created. In `KnowledgeIndex` three versions
separate an old, the indexed and the newest one. In `Reminder` one day, spacing
and cooldown of one hour and two log entries make each rule bite once; the other
priority, reduced reminders over days, three reminders in a row, and circles of
three and more waiting connections are left to the proofs. In `Course` two steps are the least that can be reordered and leave
one after a deletion; two edits (`MaxRevision`) are the least that overlap.

`CHECK_DEADLOCK FALSE`: an outbox with every message settled and no request,
and an assignment that is cancelled or completed, have nothing left to do; the
other models stop when their bounds (versions, revisions, time) are reached.
Whether something that should go on is stuck is what `EventuallySettled`,
`NoWaitCycle`, `DeadlockIsDoubleClick`, `PublicationSettles` and
`EveryRequestAnswered` say.

### Fairness
`Outbound`: clocks advance (`Ripen`); the polling loop polls again after every
pause, error and restart (`run()` catches everything but cancellation, and the
bot is restarted by its supervisor); a live executor goes on with what it holds;
the API answers a call it has received. Nothing is assumed of crashes, lost
calls, or handlers. `Assignment`: a request under way takes its next step if
that step is possible again and again (strong fairness), which is what
PostgreSQL's first come, first served lock queues give; clients need not send
anything, and may go away. The other specifications state safety only: what
their components must eventually do depends on people and redeliveries.

## 4. Properties and what could break them

Outbox. `OneCopyPerAttempt` bounds the copies an employee can receive by the
number of attempts, whatever crashes and late answers do. `SentByLatestAttempt`:
"sent" is never reported by an executor whose attempt was superseded.
`NoStrandedRetry`: the stale read in `mark_failed` cannot put a row back to
pending with no attempt left. `DuplicateHasCause`: a second copy has one of the
causes the runbook names (`docs/runbooks/safe-deployment.md:71-73`).
`ClosedStaysSilent`: no attempt claimed after the assignment closed is heard.
`SettledForGood`: sent and failed are final. `KeepsPromise`: all of it together
implements `AtLeastOnce`. `EventuallySettled`: every message is sent or given up.

Assignment. `CancelledIsClean` and `CancelledIsFinal`: requests that saw the
assignment open cannot reopen it or leave rows behind, because their UPDATE of a
deleted progress row fails before they touch the assignment. This is why the
order of the writes in `complete_step` matters. `CompletedWasEarned`: although a
tally is old by the time the assignment row is written, every required step had
been completed. `WorkShowsOnAssignment`: no work under a pending assignment.
`ResultToldIsStored`: an attempt made in the bot is stored only with a message of
its number that carries its verdict, although numbers are computed from stale
counts; the one commit that stores a verdict without a message is an attempt made
in the web client.
`NoWaitCycle`, `EveryRequestAnswered`: no deadlock on row locks.
`UndisturbedIsAtomic`: the statements of `Assignment` on a completion, a start,
an advance, a quiz result and a cancellation can only be broken by a request that
another one overtook. It is an invariant of the whole interleaving, not of one
request: what a request has written so far must be what it would write now.

Chat. `AnswersThroughOutbox`: a handler never sends a knowledge answer itself
beside the outbox, because the row is committed before anyone is told of it.
`PointerIsCommitted`: a conversation whose creation rolled back never gets out,
not even into Redis. `LateTurnWasRaced`: a turn lands in an archived conversation
only when the archival passed between the check and the commit of that very
turn; the check itself is made after the language model, so a slow answer is
refused. `KeepsPromise`: redelivery, reclaim, time-out and replay leave one turn.

Knowledge. `CurrentIsNewest`: editors that number versions without a lock never
hide a newer text. `IndexHonest`, `VectorsComparable`, `KeepsIndex`: whatever
leases lapse, a run that lost its claim changes nothing, a failed refresh leaves
the old index, a draft is never indexed, and a search compares vectors of one model.
`PublicationSettles`: when nothing is under way, the published text is indexed or
marked as failed; a rival run, a lapsed lease or an exception at any point leaves
no version claimed by nobody, but a request that had read an old article, or the
loss of a run, is an excuse - nothing in the code comes back to a version later.
`ArchivedIsFinal`: only a request that read the article before it was archived
publishes it again or gives it a version.

Acknowledgements and reminders. `CompletedMeansAcknowledged`: completion is
earned although every request decides from old reads. `LateChangeOverlapped`,
`LastAcknowledgementCloses`: a closed assignment is final, and the last
acknowledgement closes it, for every request that overlaps no other.
`OneMessagePerSlot`: however many bots scan with clocks however old.
`TooCloseOverlapped`, `ReminderWasDue`: reminders too close, or too late, were
decided by a request that something overtook. `ChoiceKept`: stamps write only
their column, so they never undo a choice. `DeadlockIsDoubleClick`: requests that
all wait for one another include two acknowledgements of one document; scans,
reminders, choices, cancellations and acknowledgements of different documents
never deadlock on rows.

Course. `AssignedStepsExist`: a step that a live assignment refers to is never
deleted, although the check of the edit lock, the foreign key and uncommitted
progress rows are three different mechanisms. `LockHolds`: only an edit that
overlapped another request changes a course with an active assignment.
`GenerationNamesContent`: without overlap each edit is the next revision, and an
assignment is of a published course, with the revision and the steps it has.

The properties that speak of overlap do so because the code takes no lock
between its checks and its writes: what they exclude is any further way to go
wrong, in particular for requests that run alone, however many came before.

## 5. Where the code and its documents differ

* `MCAssignmentCancel`: "Completed assignment cannot be cancelled"
  (`app/services/assignment.py:463`). The status is checked when the request
  begins; a completion that commits before the DELETE is overwritten.
* `MCAssignmentSkew`: "employee completes -> Assignment completed"
  (`ARCHITECTURE.md:660`). Two requests for the last two required steps do not
  see each other's row; the assignment stays in progress and no request can
  close it any more.
* `MCAssignmentCursor`: "Stale or double-click callbacks are no-ops"
  (`app/api/v1/progress.py:137-138`). The comparison is made with the cursor
  read at the start of the unit of work. Two advances read 0, one commits 1, a
  third commits 2, and then the other one of the first two commits: its callback
  is stale and moves the cursor from 2 to 1.
  These three happen only when a request commits that another one overtook.
  Without one the statements hold, for every program and any number of requests: a
  completed assignment is not cancelled (`ServedCompletedStays`), a stale advance
  changes nothing (`ServedStaleAdvance`), and an assignment whose required steps
  are done is closed (`ServedFinishedIsClosed`).
* `MCKnowledgePending`: "PUBLISH -> commit pending -> indexing -> indexed |
  failed" (`docs/ai/architecture.md:112-114`). In seven states: a publication
  reads the draft with version 1, an edit reads the draft, the publication
  commits, the edit commits version 2 with the status it still has in memory
  (sessions do not expire on commit) and skips the indexing of drafts, and the
  publication's own run is rejected because version 1 is no longer current. The
  published text stays pending until someone edits or reindexes it.
  `PublicationSettles` is the other side: where the request that made the text
  the published one had read the article as it was, and no run is lost, the
  text is indexed or marked as failed.

Behaviour the models contain that the repository words more strongly, without a
run of its own:

* A start that read a step not yet started writes `in_progress` and `block_index` 0
  over whatever it has become (`app/services/learning_progress.py:249-260`): it
  reopens a completed step, or sets a cursor back to the first block. Where no
  request is overtaken neither happens (`ServedRowsMoveOn`).
* A message of the bot says the verdict stored with its attempt when it is
  enqueued, but an attempt in the web client that counted from the same stale row
  has the same number, compares nothing and stores its own verdict
  (`app/services/progress.py:134-139`); the employee was then told another one.
  Where no request is overtaken message and row agree, from whichever client the
  attempts come (`ServedToldIsTrue`).
* A request that read an acknowledgement assignment pending marks it in progress
  after another completed or cancelled it (`app/services/assignment.py:813`), and
  two acknowledgements of the last two documents each miss the other (`:689`);
  acknowledging again recovers the latter. Hence `LateChangeOverlapped` and
  `LastAcknowledgementCloses` except overlapping requests.
* "Cannot update an archived article; create a new article instead"
  (`app/services/knowledge/article_service.py:354`), and likewise for a
  publication (`:472`): decided when the article is read. A request that read it
  before the archival still publishes it or adds a version, hence
  `ArchivedIsFinal` except for those.
* "with 3-hour spacing" (`app/services/reminder_policy.py:9`) and the manual
  cooldown hold between requests that do not overlap (`TooCloseOverlapped`).
* "While the assignment is active the course is locked"
  (`app/services/course_snapshot.py:7-9`): an edit and a `create_many` that
  overlap leave an active assignment whose snapshot differs from the course; two
  edits that overlap write the same revision, which "increments once per
  successful structure/content mutation" (`app/services/course_edit_policy.py:11`).
* Archived conversations are said to reject turns
  (`docs/ai/architecture.md:876, 1116`); the check is not repeated at the commit,
  hence `LateTurnWasRaced`.

## 6. Proofs

`OutboundProofs` proves every safety property of the outbox, and that it
implements `AtLeastOnce`, for any finite or infinite sets of messages,
executors and tokens and any number of attempts. Assumptions: those of
`Outbound` (`OutboundAssumption`, `NoDeliveryAssumption`), which TLC evaluates
on each instance.

The argument. None of the properties is inductive: whether "sent" is true
depends on a call that was posted when the copy landed, by an executor that may
be gone. The inductive invariant `IInv` says, beside the types, which attempt of
a message each holder has: a delivery in a batch, a delivery in hand, a posted
call. Attempts held by different holders differ; none is above the row's
count; the holder whose token the row carries has exactly the row's count, and
its attempt has a copy precisely if the holder is past the send. From that,
`Owns` implies that the acknowledgement is of the newest attempt, which gives
`SentByLatestAttempt` and `SettledForGood`; that an executor about to send holds
an attempt without a copy gives `OneCopyPerAttempt`; and `seen` in a call that
owns its row is the row's count, which gives `NoStrandedRetry`. There is one
lemma per action (`EnqueueStep`, ..., `MarkFailedStep`), with one step per
conjunct the action can disturb; `NextIInv` collects them, and the theorems
follow. `OutboxKeepsPromise` maps each step to a step of `AtLeastOnce` or a
stutter (`ClaimOpens`, `SettleOpens`, `StepKeepsPromise`).

`AssignmentProofs` proves the safety properties that hold of `Assignment` -
`CancelledIsClean`, `CancelledIsFinal`, `CompletedWasEarned`,
`WorkShowsOnAssignment`, `ResultToldIsStored`, `NoWaitCycle` - for every program
(`NumSteps`, `Required`, `Quizzes`, `Blocks`), every number of quiz attempts and
every set of sessions. Assumption: `AssignmentAssumption`.

The argument. A request decides from rows it read without locking, so nothing
it remembers is true any more; what is true is that the database only moved one
way since: an assignment never returns to pending, a row never to not_started
(`MemoryFacts`). What a request wrote is locked and so is as it wrote it
(`LearnerFacts`, `CancelFacts`): a learner holds nothing but the row of its
step, holds the assignment only with that row, and found the row not deleted; a
cancellation holds the first rows in scan order, and all that exist before it
writes the assignment. `LocksExclusive` then makes the two kinds of request
exclude each other at the row: while a learner may still write the assignment,
no cancellation can have deleted its row, which gives `CancelledIsFinal` and
`CancelledIsClean`; the tally of a learner finds no row missing, so what it
counts is committed or its own, which gives `CompletedWasEarned`. One lemma per
action shows that the session that moves keeps these facts (`LocalStep`), and
`CommitMovesOn` that the others do when it commits. `NoWaitCycle` follows: a
holder of the assignment waits for nobody, a holder of rows that waits is a
cancellation, and of two cancellations the one that holds the earlier row has
the later ones still to come. `NoWaitCycle` speaks of row locks only.

`AssignmentOverlapProofs` builds on that invariant and on the same assumption.
`OverlapUndisturbedIsAtomic` proves `UndisturbedIsAtomic`, and
`OverlapImplementsOneByOne` that behaviours in which no overtaken request
commits (`NoneOvertaken`) implement `OneByOne`. `NoneOvertaken` is a condition on
behaviours, never guaranteed by the code: it separates what follows from missing
locks from what would be wrong without any. The argument: the invariant `OInv`
says, for every session that is still fresh, that what it remembers is what is
committed, and that what it holds is what a request alone would write
(`Completion`, `Begun`, `Moved`, `Nothing`). An action of a session changes no
committed row unless it commits, so only its own facts need work (`Quiet...`, one
lemma per action); a commit of another session either leaves what `SameFor` names
as it was or ends the freshness (`StaysUndisturbed`). A commit of a fresh request
is then one step of `OneByOne` (`CommitsCompletion`, `CommitsStart`,
`CommitsAdvance`, `CommitsCancel`), and nothing but a commit changes committed
rows (`OnlyCommits`). The theorems whose names begin with `Served` follow from
`OneByOne` with the invariant `ServedInv`; only `ServedStaleAdvance`, which speaks
of one request's commit, looks at what that request remembers
(`UndisturbedAdvance`). They state properties that `Assignment` alone violates
(section 5). The cursor of `ServedRowsMoveOn` is that of a step that is not
completed: completing it replaces the payload.

`ChatTurnProofs` proves all properties of the chat, and that it implements
`OneTurn`, for any questions, handlers, requests and conversations. Assumption:
`ChatAssumption`. The inductive invariant says what a receipt stands for
(`Stored`: a completed one for exactly one turn in the cached conversation and
its outbox row, any other for nothing), whom a handler waits for and that what it
was told is there (`HandlerFacts`), what a request replays (`RequestFacts`), and
that a turn about to be committed to an archived conversation was overtaken
(`Overtaken`). `Stored` makes the commit of a turn the one step of `OneTurn`.

`KnowledgeIndexProofs` proves the properties of the knowledge index and that it
implements `ServedIndex`, for any number of versions, requests, readers and
models. Assumption: `KnowledgeAssumption`. Beside the properties the invariant
says that what is published was served (`ArticleFacts`), and that while a claim
stands nobody changes the status the run found (`RunFacts`): the run may outlive
its lease, but then another owner is in the row and its UPDATE matches nothing.
`PublicationSettles` needs a second invariant, `SettleInv`. A fresh request
remembers the status and the version that are there (`FreshFacts`); a version
that carries an owner token has a run that will finish or record its failure,
unless that run was lost (`Claimed`); and a published text that is neither
indexed nor failed, and not excused, is attended: some request is on its way to
run for it, or holds the claim (`Attended`). A run gives up a version only
because it settled it, because it is no longer the published text, or because
another live claim is there, which then attends to it.

`AcknowledgementProofs` proves the properties of `Acknowledgement` about its own
specification `AckSpec`, for any documents and sessions; `ReminderProofs` extends
it, shows that the composed system implements `AckSpec` (`RemindersOnlyRead`),
and proves the properties of reminders for any day, window, spacing, cooldown
and priority. Assumptions: `AcknowledgementAssumption`, `ReminderAssumption`,
`NoRowAssumption`. The argument of the former: what a request counted stays
counted, because acknowledgements only accumulate (`Counted`), and a request that
is still alone sees the assignment open. Of the latter: a held preference row is
the committed one but for the columns its holder changes (`Held`), a decision is
right while nothing read has changed (`Fresh`), and the stamp of a reminder
stands while only undisturbed ones follow (`StampStands`).
`OnlyDoubleClicksDeadlock` is about sets of sessions of which each waits for
another of the set. The session that holds the preference row waits for nobody
that waits for it: who inserted the row reads nothing more that is locked, and
nobody is past reading it (`HolderOfPreference`). Hence such a set has no request
about reminders (`NoReminderStuck`). The holder of an item waits only for the
assignment (`HolderOfItem`), the holder of the assignment only for an item
(`HolderOfAssignment`), and these two are the double click.

`CourseProofs` proves the properties of `Course`, for any steps, values,
assignments, sessions and revisions. Assumptions: `CourseAssumption`,
`GoneAssumption`. `AssignedStepsExist` is not inductive, since a deletion is
decided long before it is committed. The invariant adds that rows are written
exclusively (`RowsExclusive`), that a step marked as deleted is referred to by no
assignment, committed or not (`DeletedIsUnreferenced`: the marker waited for
key-share locks, and nobody can take one on its row), and that the steps of
uncommitted progress rows exist (`SharedExist`); `StepsSurvive` puts them
together. `Knows` says what a fresh request knows - the revision, that no
assignment is active past the check, that the course is published and its list
is the course - which gives `LockHolds` and `GenerationNamesContent`.

Only model-checked: liveness (`EventuallySettled`, `EveryRequestAnswered`),
which needs fairness and ENABLED and so is out of the prover's reach. The
properties of the runs that expect a violation are false of the code and have no
theorem without the condition `NoneOvertaken`. No
model uses RECURSIVE operators, and nothing is claimed by induction over data.

## 7. Order of the work

`Outbound` and `Assignment` came first: every other component hands its effect to
one of them. `ChatTurn` and `KnowledgeIndex` followed, then `Acknowledgement`
and `Reminder`, which compose, and `Course`. What would come next: the limits
of a subscription (counted before an insert, `app/services/subscription_guard.py`),
and liveness of knowledge indexing if it gets a job that retries.

## 8. Not modelled, and why

* Refresh sessions, employees, invites, password reset: signing in and out is
  left out of this development. Tokens are taken under `FOR UPDATE` in one
  transaction each.
* Companies, subscriptions, organisation: administrative rows, read and written
  in one transaction; nothing else decides from them but the limits named above.
* Row-level security: the models are of one company, and its rows are all a
  request sees.
* Ranking, chunking, prompts, intents, evaluation, language and embedding models:
  text processing and calls to providers. Their results are choices in the models, and
  their failures and latency may happen at any moment.
* API schemas, capabilities, bot keyboards, frontend, e-mail, analytics, audit,
  metrics, readiness, migrations, deployment: no shared state that anything
  modelled depends on.
* Inside modelled components: recipients of a bulk assignment, the content of
  steps and its validation, titles and descriptions, listings, the text of
  messages, and the length of leases, back-offs and time-outs.
