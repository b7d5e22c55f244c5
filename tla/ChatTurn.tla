------------------------------ MODULE ChatTurn ------------------------------
(***************************************************************************)
(* A question asked through Telegram, from the update to the stored turn:  *)
(* the bot's update middleware and its AI handler (app/bot), the assistant *)
(* and chat endpoints (app/api/v1, app/services/assistant,                 *)
(* app/services/ai), and the idempotency receipts they claim               *)
(* (app/services/idempotency.py and its repository).                       *)
(*                                                                         *)
(* One employee.  A handler is a task of the bot working on one delivery   *)
(* of an update; a request is an HTTP request inside the API, which        *)
(* outlives a handler that stopped waiting for it.  Two kinds of receipt   *)
(* guard a question: one of the update, owned by a handler, and one of the *)
(* turn, owned by a request.  uLate and tLate say that a lease has run     *)
(* out; they turn true at any moment, so what is checked holds for every   *)
(* lease, timeout and latency.                                             *)
(***************************************************************************)
EXTENDS Naturals, FiniteSets

CONSTANTS Questions,   \* Telegram updates that ask something
          Handlers,    \* concurrent deliveries inside the bot
          Requests,    \* concurrent HTTP requests inside the API
          WebRequests, \* those of them that may come from the web interface
          Convs,       \* conversation ids; a bound on how many are created
          NoQuestion,  \* a request from the web interface, without a key
          NoConv,      \* no conversation, no pointer
          Nobody       \* owner_token IS NULL, or nobody to wait for

ASSUME ChatAssumption ==
    /\ WebRequests \subseteq Requests
    /\ NoQuestion \notin Questions
    /\ NoConv \notin Convs
    /\ Nobody \notin Handlers \cup Requests

VARIABLES
    uStatus, uOwner, uLate,         \* receipt of the update
    tStatus, tOwner, tLate, tConv,  \* receipt of the turn, cached conversation
    conv,       \* status of each conversation
    pointer,    \* Redis: the conversation open in Telegram
    kept,       \* turns stored for each question
    places,     \* the conversations that hold them
    outbox,     \* the questions whose answer has an outbox row
    hpc, hq, hconv, hreq, hgot,     \* handlers
    rpc, rq, rconv,                 \* requests
    direct,     \* history: knowledge answers a handler sent by itself
    raced,      \* history: conversations archived under a checked turn
    late        \* history: conversations that got a turn once archived

updateVars == <<uStatus, uOwner, uLate>>
turnVars == <<tStatus, tOwner, tLate, tConv>>
storeVars == <<kept, places, outbox>>
handlerVars == <<hpc, hq, hconv, hreq, hgot>>
requestVars == <<rpc, rq, rconv>>
historyVars == <<direct, raced, late>>
vars == <<updateVars, turnVars, conv, pointer, storeVars, handlerVars,
          requestVars, historyVars>>

ReceiptStatus == {"absent", "processing", "completed", "failed"}
HandlerPoint == {"idle", "ask", "wait", "remember", "reply", "complete",
                 "fail"}
RequestPoint == {"idle", "claim", "replay", "load", "think", "commit", "fail"}
\* What a handler was told: an answer of the knowledge base, or anything else
\* (an error, a template, a list of tasks, a learning screen).
Reply == {"plain", "knowledge"}

\* Only a receipt that is being processed has an owner and a lease.
ReceiptShape ==
    \A q \in Questions :
        /\ uStatus[q] = "processing" <=> uOwner[q] # Nobody
        /\ tStatus[q] = "processing" <=> tOwner[q] # Nobody
        /\ uLate[q] => uStatus[q] = "processing"
        /\ tLate[q] => tStatus[q] = "processing"

TypeOK ==
    /\ ReceiptShape
    /\ uStatus \in [Questions -> ReceiptStatus]
    /\ uOwner \in [Questions -> Handlers \cup {Nobody}]
    /\ uLate \in [Questions -> BOOLEAN]
    /\ tStatus \in [Questions -> ReceiptStatus]
    /\ tOwner \in [Questions -> Requests \cup {Nobody}]
    /\ tLate \in [Questions -> BOOLEAN]
    /\ tConv \in [Questions -> Convs \cup {NoConv}]
    /\ conv \in [Convs -> {"absent", "active", "archived"}]
    /\ pointer \in Convs \cup {NoConv}
    /\ kept \in [Questions -> Nat]
    /\ places \in [Questions -> SUBSET Convs]
    /\ outbox \subseteq Questions
    /\ hpc \in [Handlers -> HandlerPoint]
    /\ hq \in [Handlers -> Questions \cup {NoQuestion}]
    /\ hconv \in [Handlers -> Convs \cup {NoConv}]
    /\ hreq \in [Handlers -> Requests \cup {Nobody}]
    /\ hgot \in [Handlers -> Reply]
    /\ rpc \in [Requests -> RequestPoint]
    /\ rq \in [Requests -> Questions \cup {NoQuestion}]
    /\ rconv \in [Requests -> Convs \cup {NoConv}]
    /\ direct \subseteq Questions
    /\ raced \subseteq Convs
    /\ late \subseteq Convs

Init ==
    /\ uStatus = [q \in Questions |-> "absent"]
    /\ uOwner = [q \in Questions |-> Nobody]
    /\ uLate = [q \in Questions |-> FALSE]
    /\ tStatus = [q \in Questions |-> "absent"]
    /\ tOwner = [q \in Questions |-> Nobody]
    /\ tLate = [q \in Questions |-> FALSE]
    /\ tConv = [q \in Questions |-> NoConv]
    /\ conv = [c \in Convs |-> "absent"]
    /\ pointer = NoConv
    /\ kept = [q \in Questions |-> 0]
    /\ places = [q \in Questions |-> {}]
    /\ outbox = {}
    /\ hpc = [h \in Handlers |-> "idle"]
    /\ hq = [h \in Handlers |-> NoQuestion]
    /\ hconv = [h \in Handlers |-> NoConv]
    /\ hreq = [h \in Handlers |-> Nobody]
    /\ hgot = [h \in Handlers |-> "plain"]
    /\ rpc = [r \in Requests |-> "idle"]
    /\ rq = [r \in Requests |-> NoQuestion]
    /\ rconv = [r \in Requests |-> NoConv]
    /\ direct = {}
    /\ raced = {}
    /\ late = {}

-----------------------------------------------------------------------------
(* Receipts.  A claim is INSERT ... ON CONFLICT DO UPDATE in one statement. *)

MutantReclaimable(status, lapsed) == status # "processing" \/ lapsed

\* There is no row yet, or the WHERE of the upsert holds: the receipt failed,
\* or it is processing past its lease.
Reclaimable(status, lapsed) ==
    status \in {"absent", "failed"} \/ (status = "processing" /\ lapsed)

\* complete and fail of a turn: the owner and the lease are cleared, and only
\* an answer leaves a cached response.
SettleTurn(q, status, c) ==
    /\ tStatus' = [tStatus EXCEPT ![q] = status]
    /\ tOwner' = [tOwner EXCEPT ![q] = Nobody]
    /\ tLate' = [tLate EXCEPT ![q] = FALSE]
    /\ tConv' = [tConv EXCEPT ![q] = c]

\* The WHERE of complete and fail: still processing, under the same token.
Held(status, owner, me) == status = "processing" /\ owner = me

-----------------------------------------------------------------------------
(* The bot.  hpc[h] is where the delivery is inside the middleware and the *)
(* ai_question handler; leaving the middleware makes the task idle again.  *)

HandlerIdle(h) ==
    /\ hpc' = [hpc EXCEPT ![h] = "idle"]
    /\ hq' = [hq EXCEPT ![h] = NoQuestion]
    /\ hconv' = [hconv EXCEPT ![h] = NoConv]
    /\ hreq' = [hreq EXCEPT ![h] = Nobody]
    /\ hgot' = [hgot EXCEPT ![h] = "plain"]

HandlerGoto(h, point) ==
    /\ hpc' = [hpc EXCEPT ![h] = point]
    /\ UNCHANGED <<hq, hconv, hreq, hgot>>

HandlerGets(h, reply) ==
    /\ hpc' = [hpc EXCEPT ![h] = "reply"]
    /\ hgot' = [hgot EXCEPT ![h] = reply]
    /\ hconv' = [hconv EXCEPT ![h] = NoConv]
    /\ hreq' = [hreq EXCEPT ![h] = Nobody]
    /\ UNCHANGED hq

\* Telegram delivers q, for the first time or again, and the claim of the
\* update is won.  A delivery that is refused is dropped without an effect.
ClaimUpdate(h, q) ==
    /\ hpc[h] = "idle"
    /\ Reclaimable(uStatus[q], uLate[q])
    /\ uStatus' = [uStatus EXCEPT ![q] = "processing"]
    /\ uOwner' = [uOwner EXCEPT ![q] = h]
    /\ uLate' = [uLate EXCEPT ![q] = FALSE]
    /\ hpc' = [hpc EXCEPT ![h] = "ask"]
    /\ hq' = [hq EXCEPT ![h] = q]
    /\ UNCHANGED <<hconv, hreq, hgot, turnVars, conv, pointer, storeVars,
                   requestVars, historyVars>>

\* Refused before the API is asked (not an employee, archived, too long), or
\* the Redis pointer cannot be read: the handler answers by itself.
Refuse(h) ==
    /\ hpc[h] = "ask"
    /\ HandlerGets(h, "plain")
    /\ UNCHANGED <<updateVars, turnVars, conv, pointer, storeVars,
                   requestVars, historyVars>>

\* ask_assistant reads the pointer and posts with it.
Post(h, r) ==
    /\ hpc[h] = "ask"
    /\ rpc[r] = "idle"
    /\ hpc' = [hpc EXCEPT ![h] = "wait"]
    /\ hreq' = [hreq EXCEPT ![h] = r]
    /\ rpc' = [rpc EXCEPT ![r] = "claim"]
    /\ rq' = [rq EXCEPT ![r] = hq[h]]
    /\ rconv' = [rconv EXCEPT ![r] = pointer]
    /\ UNCHANGED <<hq, hconv, hgot, updateVars, turnVars, conv, pointer,
                   storeVars, historyVars>>

\* The HTTP client gives up, or the connection breaks; the request runs on.
StopWaiting(h) ==
    /\ hpc[h] = "wait"
    /\ HandlerGets(h, "plain")
    /\ UNCHANGED <<updateVars, turnVars, conv, pointer, storeVars,
                   requestVars, historyVars>>

\* _remember_conversation; a Redis error is swallowed.
Remember(h) ==
    /\ hpc[h] = "remember"
    /\ pointer' \in {pointer, hconv[h]}
    /\ HandlerGets(h, hgot[h])
    /\ UNCHANGED <<updateVars, turnVars, conv, storeVars, requestVars,
                   historyVars>>

\* The reply: a learning screen or a text goes out at once; an answer of the
\* knowledge base goes through deliver_source, and only when that finds no
\* outbox row is it sent from here.  Telegram or the API may raise instead.
ReplyTo(h) ==
    /\ hpc[h] = "reply"
    /\ \/ /\ direct' = IF hgot[h] = "knowledge" /\ hq[h] \notin outbox
                       THEN direct \cup {hq[h]} ELSE direct
          /\ HandlerGoto(h, "complete")
       \/ /\ UNCHANGED direct
          /\ HandlerGoto(h, "fail")
    /\ UNCHANGED <<updateVars, turnVars, conv, pointer, storeVars,
                   requestVars, raced, late>>

\* The middleware marks the receipt, unless the claim is no longer its own.
SettleUpdate(h, status) ==
    LET q == hq[h] IN
    /\ IF Held(uStatus[q], uOwner[q], h)
       THEN /\ uStatus' = [uStatus EXCEPT ![q] = status]
            /\ uOwner' = [uOwner EXCEPT ![q] = Nobody]
            /\ uLate' = [uLate EXCEPT ![q] = FALSE]
       ELSE UNCHANGED updateVars
    /\ HandlerIdle(h)
    /\ UNCHANGED <<turnVars, conv, pointer, storeVars, requestVars,
                   historyVars>>

CompleteUpdate(h) == hpc[h] = "complete" /\ SettleUpdate(h, "completed")

FailUpdate(h) == hpc[h] = "fail" /\ SettleUpdate(h, "failed")

\* The bot dies or is redeployed, or the call that settles the receipt fails:
\* the receipt stays as it is until its lease runs out.
LoseHandler(h) ==
    /\ hpc[h] # "idle"
    /\ HandlerIdle(h)
    /\ UNCHANGED <<updateVars, turnVars, conv, pointer, storeVars,
                   requestVars, historyVars>>

\* /newchat, or the pointer's time to live is over.
NewChat ==
    /\ pointer # NoConv
    /\ pointer' = NoConv
    /\ UNCHANGED <<updateVars, turnVars, conv, storeVars, handlerVars,
                   requestVars, historyVars>>

-----------------------------------------------------------------------------
(* The API.                                                                *)

RequestGoto(r, point) ==
    /\ rpc' = [rpc EXCEPT ![r] = point]
    /\ UNCHANGED <<rq, rconv>>

\* The response: whoever still waits for it gets it.
Respond(r, reply, c) ==
    LET waiting == {h \in Handlers : hreq[h] = r} IN
    /\ rpc' = [rpc EXCEPT ![r] = "idle"]
    /\ rq' = [rq EXCEPT ![r] = NoQuestion]
    /\ rconv' = [rconv EXCEPT ![r] = NoConv]
    /\ hpc' = [h \in Handlers |-> IF h \notin waiting THEN hpc[h]
                                  ELSE IF c = NoConv THEN "reply"
                                  ELSE "remember"]
    /\ hgot' = [h \in Handlers |-> IF h \in waiting THEN reply ELSE hgot[h]]
    /\ hconv' = [h \in Handlers |-> IF h \in waiting THEN c ELSE hconv[h]]
    /\ hreq' = [h \in Handlers |-> IF h \in waiting THEN Nobody ELSE hreq[h]]
    /\ UNCHANGED hq

\* The assistant routes the question.  Greetings, tasks, status, learning and
\* responsibility are answered from templates and reads, without a receipt;
\* company knowledge goes on to the chat service.
AnswerWithoutTurn(r) ==
    /\ rpc[r] = "claim"
    /\ Respond(r, "plain", NoConv)
    /\ UNCHANGED <<updateVars, turnVars, conv, pointer, storeVars, historyVars>>

\* claim_ai_turn: won, already answered (replay), or running elsewhere (409).
\* The hash of one update is always the same, so it never conflicts.
ClaimTurn(r) ==
    LET q == rq[r] IN
    /\ rpc[r] = "claim"
    /\ \/ /\ Reclaimable(tStatus[q], tLate[q])
          /\ tStatus' = [tStatus EXCEPT ![q] = "processing"]
          /\ tOwner' = [tOwner EXCEPT ![q] = r]
          /\ tLate' = [tLate EXCEPT ![q] = FALSE]
          /\ tConv' = [tConv EXCEPT ![q] = NoConv]
          /\ RequestGoto(r, "load")
          /\ UNCHANGED handlerVars
       \/ /\ tStatus[q] = "completed"
          /\ rpc' = [rpc EXCEPT ![r] = "replay"]
          /\ rconv' = [rconv EXCEPT ![r] = NoConv]
          /\ UNCHANGED <<rq, turnVars, handlerVars>>
       \/ /\ tStatus[q] = "processing"
          /\ ~tLate[q]
          /\ Respond(r, "plain", NoConv)
          /\ UNCHANGED turnVars
    /\ UNCHANGED <<updateVars, conv, pointer, storeVars, historyVars>>

\* A replay enqueues the cached answer again, which inserts nothing when its
\* source has a row, and returns it.
Replay(r) ==
    /\ rpc[r] = "replay"
    /\ outbox' = outbox \cup {rq[r]}
    /\ Respond(r, "knowledge", tConv[rq[r]])
    /\ UNCHANGED <<updateVars, turnVars, conv, pointer, kept, places,
                   historyVars>>

\* The web interface continues conversation c, or starts one, without a key.
WebAsk(r, c) ==
    /\ r \in WebRequests
    /\ rpc[r] = "idle"
    /\ c \in {NoConv} \cup {d \in Convs : conv[d] # "absent"}
    /\ rpc' = [rpc EXCEPT ![r] = "load"]
    /\ rq' = [rq EXCEPT ![r] = NoQuestion]
    /\ rconv' = [rconv EXCEPT ![r] = c]
    /\ UNCHANGED <<updateVars, turnVars, conv, pointer, storeVars,
                   handlerVars, historyVars>>

Failed(r) ==
    IF rq[r] = NoQuestion THEN Respond(r, "plain", NoConv)
    ELSE /\ rpc' = [rpc EXCEPT ![r] = "fail"]
         /\ rconv' = [rconv EXCEPT ![r] = NoConv]
         /\ UNCHANGED <<rq, handlerVars>>

MutantLoadHistory(r) ==
    /\ rpc[r] = "load"
    /\ rpc' = [rpc EXCEPT ![r] = "think"]
    /\ rconv' = [rconv EXCEPT ![r] = IF @ # NoConv THEN @ ELSE CHOOSE c \in Convs : TRUE]
    /\ UNCHANGED <<rq, handlerVars, updateVars, turnVars, conv, pointer,
                   storeVars, historyVars>>

\* _load_history: an archived conversation refuses a web question; a Telegram
\* one drops the pointer and starts a new conversation.
LoadHistory(r) ==
    LET archived == rconv[r] # NoConv /\ conv[rconv[r]] = "archived" IN
    /\ rpc[r] = "load"
    /\ IF archived /\ rq[r] = NoQuestion
       THEN Failed(r)
       ELSE /\ rpc' = [rpc EXCEPT ![r] = "think"]
            /\ rconv' = [rconv EXCEPT ![r] = IF archived THEN NoConv ELSE @]
            /\ UNCHANGED <<rq, handlerVars>>
    /\ UNCHANGED <<updateVars, turnVars, conv, pointer, storeVars, historyVars>>

MutantCheck(r) ==
    /\ rpc[r] = "think"
    /\ RequestGoto(r, "commit") /\ UNCHANGED handlerVars
    /\ UNCHANGED <<updateVars, turnVars, conv, pointer, storeVars, historyVars>>

\* After retrieval and the language model ("think") complete_turn reads the
\* conversation again, without a lock.
Check(r) ==
    /\ rpc[r] = "think"
    /\ IF rconv[r] # NoConv /\ conv[rconv[r]] = "archived"
       THEN Failed(r)
       ELSE RequestGoto(r, "commit") /\ UNCHANGED handlerVars
    /\ UNCHANGED <<updateVars, turnVars, conv, pointer, storeVars, historyVars>>

MutantStore(q, c) ==
    /\ kept' = [kept EXCEPT ![q] = @ + 1]
    /\ places' = [places EXCEPT ![q] = @ \cup {c}]
    /\ UNCHANGED outbox

\* The rows of one turn: two messages and, for Telegram, the outbox row.
Store(q, c) ==
    /\ kept' = [kept EXCEPT ![q] = @ + 1]
    /\ places' = [places EXCEPT ![q] = @ \cup {c}]
    /\ outbox' = outbox \cup {q}

\* The conversation a turn is written to: the given one, or a new one.
Targets(r) ==
    IF rconv[r] = NoConv THEN {c \in Convs : conv[c] = "absent"} ELSE {rconv[r]}

\* The rest of complete_turn and its commit.  The messages, the outbox row and
\* the completed receipt are one transaction, which rolls back when the claim
\* was lost.  A timeout may hit the commit: it is then stored, or not, but
\* the request goes on to fail its claim.
CommitTurn(r) ==
    LET q == rq[r] IN
    /\ rpc[r] = "commit"
    /\ IF q # NoQuestion /\ ~Held(tStatus[q], tOwner[q], r)
       THEN /\ Failed(r)
            /\ UNCHANGED <<turnVars, conv, storeVars, late>>
       ELSE \E c \in Targets(r) :
            /\ conv' = [conv EXCEPT ![c] = IF @ = "absent" THEN "active" ELSE @]
            /\ late' = IF conv[c] = "archived" THEN late \cup {c} ELSE late
            /\ IF q = NoQuestion
               THEN UNCHANGED <<turnVars, storeVars>>
               ELSE Store(q, c) /\ SettleTurn(q, "completed", c)
            /\ Respond(r, "knowledge", c) \/ Failed(r)
    /\ UNCHANGED <<updateVars, pointer, direct, raced>>

\* The retriever or the model fails, or wait_for cancels the answer while it
\* works, before or during the commit.
Timeout(r) ==
    /\ rpc[r] \in {"load", "think", "commit"}
    /\ Failed(r)
    /\ UNCHANGED <<updateVars, turnVars, conv, pointer, storeVars, historyVars>>

\* _fail_owned_claim, and the error response.
FailClaim(r) ==
    LET q == rq[r] IN
    /\ rpc[r] = "fail"
    /\ IF Held(tStatus[q], tOwner[q], r)
       THEN SettleTurn(q, "failed", NoConv)
       ELSE UNCHANGED turnVars
    /\ Respond(r, "plain", NoConv)
    /\ UNCHANGED <<updateVars, conv, pointer, storeVars, historyVars>>

\* The API dies or shuts down, a claim is cancelled before its answer is seen,
\* or failing the claim fails: the receipt is left to its lease.
LoseRequest(r) ==
    /\ rpc[r] # "idle"
    /\ Respond(r, "plain", NoConv)
    /\ UNCHANGED <<updateVars, turnVars, conv, pointer, storeVars, historyVars>>

-----------------------------------------------------------------------------
(* The web interface archives a conversation; time passes.                 *)

Archive(c) ==
    /\ conv[c] = "active"
    /\ conv' = [conv EXCEPT ![c] = "archived"]
    /\ raced' = IF \E r \in Requests : rpc[r] = "commit" /\ rconv[r] = c
                THEN raced \cup {c} ELSE raced
    /\ UNCHANGED <<updateVars, turnVars, pointer, storeVars, handlerVars,
                   requestVars, direct, late>>

LapseUpdate(q) ==
    /\ uStatus[q] = "processing"
    /\ uLate' = [uLate EXCEPT ![q] = TRUE]
    /\ UNCHANGED <<uStatus, uOwner, turnVars, conv, pointer, storeVars,
                   handlerVars, requestVars, historyVars>>

LapseTurn(q) ==
    /\ tStatus[q] = "processing"
    /\ tLate' = [tLate EXCEPT ![q] = TRUE]
    /\ UNCHANGED <<tStatus, tOwner, tConv, updateVars, conv, pointer,
                   storeVars, handlerVars, requestVars, historyVars>>

HandlerStep(h) ==
    \/ \E q \in Questions : ClaimUpdate(h, q)
    \/ Refuse(h)
    \/ \E r \in Requests : Post(h, r)
    \/ StopWaiting(h)
    \/ Remember(h)
    \/ ReplyTo(h)
    \/ CompleteUpdate(h)
    \/ FailUpdate(h)
    \/ LoseHandler(h)

RequestStep(r) ==
    \/ AnswerWithoutTurn(r)
    \/ ClaimTurn(r)
    \/ Replay(r)
    \/ \E c \in Convs \cup {NoConv} : WebAsk(r, c)
    \/ LoadHistory(r)
    \/ Check(r)
    \/ CommitTurn(r)
    \/ Timeout(r)
    \/ FailClaim(r)
    \/ LoseRequest(r)

Environment ==
    \/ NewChat
    \/ \E c \in Convs : Archive(c)
    \/ \E q \in Questions : LapseUpdate(q) \/ LapseTurn(q)

Next ==
    \/ \E h \in Handlers : HandlerStep(h)
    \/ \E r \in Requests : RequestStep(r)
    \/ Environment

Spec == Init /\ [][Next]_vars

-----------------------------------------------------------------------------
(* Properties.                                                             *)

\* An answer of the knowledge base leaves through the outbox only: whenever a
\* handler is told that the retriever was used, the row is there, so
\* deliver_source finds it and the handler never sends a second copy itself
\* (bot/handlers/ai.py, the end of ai_question).
AnswersThroughOutbox == direct = {}

\* The Redis pointer, a handler and a request only ever name conversations
\* that were committed: one created by a turn that rolled back never gets out.
PointerIsCommitted ==
    /\ pointer # NoConv => conv[pointer] # "absent"
    /\ \A h \in Handlers : hconv[h] # NoConv => conv[hconv[h]] # "absent"
    /\ \A r \in Requests : rconv[r] # NoConv => conv[rconv[r]] # "absent"

\* A conversation gets a turn after it was archived only when that turn had
\* passed complete_turn's check before the archival committed; a question
\* whose history was loaded earlier, however long ago, is refused.
LateTurnWasRaced == late \subseteq raced

\* Redelivered updates, reclaimed leases, timeouts around the commit, crashes
\* and replays together leave at most one turn per question, and its cached
\* answer, its conversation and its outbox row appear in one step for good.
Promise == INSTANCE OneTurn WITH
    answered <- {q \in Questions : tStatus[q] = "completed"},
    queued <- outbox

KeepsPromise == Promise!Spec
=============================================================================
