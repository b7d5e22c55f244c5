------------------------------ MODULE Outbound ------------------------------
(***************************************************************************)
(* The durable Telegram outbox: rows of telegram_outbound_messages, the    *)
(* API transactions that claim and settle them (app/services and           *)
(* app/repositories telegram_outbound.py), and the bot-side executors that *)
(* claim, re-check, send and acknowledge                                   *)
(* (app/bot/services/outbound_delivery.py).                                *)
(*                                                                         *)
(* A poller is the bot's background run() loop and claims batches under    *)
(* one owner token; a handler is an update handler that calls              *)
(* deliver_source for the one message it has just caused.  Executors reach *)
(* the rows through HTTP calls: a call may be lost, may be answered after  *)
(* its caller is gone, and its effect may be applied late.                 *)
(*                                                                         *)
(* Time is the boolean ripe[m]: the lease of a sending row has run out, or *)
(* the back-off of a pending row is over.  It turns true at any moment, so *)
(* what is checked holds for every lease, back-off and Telegram latency.   *)
(***************************************************************************)
EXTENDS Naturals, FiniteSets

CONSTANTS Messages,      \* (source_type, source_key) pairs; one row each
          Gated,         \* the messages whose source is an assignment
          Pollers,       \* bot processes running the polling loop
          Handlers,      \* update handlers delivering one source
          Tokens,        \* owner tokens (uuid4)
          MaxAttempts,   \* OUTBOUND_MAX_ATTEMPTS
          BatchLimit,    \* OUTBOUND_WORKER_BATCH_SIZE
          NoToken,       \* owner_token IS NULL
          NoDelivery     \* an executor with nothing in hand

ASSUME OutboundAssumption ==
    /\ Gated \subseteq Messages
    /\ Pollers \cap Handlers = {}
    /\ MaxAttempts \in Nat \ {0}
    /\ BatchLimit \in Nat \ {0}
    /\ NoToken \notin Tokens

Workers == Pollers \cup Handlers
Attempts == 1..MaxAttempts

\* What a claim returns for one row (OutboundDelivery), less the content.
Delivery == [msg : Messages, attempt : Attempts]

ASSUME NoDeliveryAssumption == NoDelivery \notin Delivery

VARIABLES
    status,     \* row status; "absent" before the row is inserted
    attempts,   \* row attempt_count
    owner,      \* row owner_token
    ripe,       \* lease_expires_at < now, or next_attempt_at <= now
    pc,         \* where each executor is
    tok,        \* the owner token an executor claimed under
    batch,      \* deliveries claimed and not begun
    cur,        \* the delivery in hand
    calls,      \* acknowledgements travelling to, or running in, the API
    closed,     \* the assignment behind a gated message is closed
    lastOpen,   \* history: attempt_count when the assignment closed
    copies,     \* history: copies[m][a] that attempt a put in the chat
    excused     \* history: a lease of m ran out, or Telegram was ambiguous

rowVars == <<status, attempts, owner, ripe>>
workerVars == <<pc, tok, batch, cur>>
gateVars == <<closed, lastOpen>>
chatVars == <<copies, excused>>
vars == <<rowVars, workerVars, calls, gateVars, chatVars>>

Statuses == {"absent", "pending", "sending", "sent", "failed"}
Settled == {"sent", "failed"}
Verdicts == {"sent", "retry", "fatal"}

Call == [msg : Messages, attempt : Attempts, tok : Tokens, verdict : Verdicts,
         phase : {"posted", "read"}, seen : 0..MaxAttempts]

TypeOK ==
    /\ status \in [Messages -> Statuses]
    /\ attempts \in [Messages -> 0..MaxAttempts]
    /\ owner \in [Messages -> Tokens \cup {NoToken}]
    /\ ripe \in [Messages -> BOOLEAN]
    /\ pc \in [Workers -> {"idle", "loop", "allow", "send", "ack"}]
    /\ tok \in [Workers -> Tokens \cup {NoToken}]
    /\ batch \in [Workers -> SUBSET Delivery]
    /\ cur \in [Workers -> Delivery \cup {NoDelivery}]
    /\ calls \subseteq Call
    /\ closed \in [Messages -> BOOLEAN]
    /\ lastOpen \in [Messages -> 0..MaxAttempts]
    /\ copies \in [Messages -> [Attempts -> Nat]]
    /\ excused \in [Messages -> BOOLEAN]

Init ==
    /\ status = [m \in Messages |-> "absent"]
    /\ attempts = [m \in Messages |-> 0]
    /\ owner = [m \in Messages |-> NoToken]
    /\ ripe = [m \in Messages |-> FALSE]
    /\ pc = [w \in Workers |-> "idle"]
    /\ tok = [w \in Workers |-> NoToken]
    /\ batch = [w \in Workers |-> {}]
    /\ cur = [w \in Workers |-> NoDelivery]
    /\ calls = {}
    /\ closed = [m \in Messages |-> FALSE]
    /\ lastOpen = [m \in Messages |-> 0]
    /\ copies = [m \in Messages |-> [a \in Attempts |-> 0]]
    /\ excused = [m \in Messages |-> FALSE]

-----------------------------------------------------------------------------
(* Producers and the environment.                                          *)

MutantEnqueueUpserts(m) ==
    /\ status' = [status EXCEPT ![m] = "pending"]
    /\ ripe' = [ripe EXCEPT ![m] = TRUE]
    /\ UNCHANGED <<attempts, owner, workerVars, calls, gateVars, chatVars>>

\* enqueue_in_uow: INSERT ... ON CONFLICT DO NOTHING, due at once.  When the
\* source already has a row nothing is written.
Enqueue(m) ==
    /\ status[m] = "absent"
    /\ status' = [status EXCEPT ![m] = "pending"]
    /\ ripe' = [ripe EXCEPT ![m] = TRUE]
    /\ UNCHANGED <<attempts, owner, workerVars, calls, gateVars, chatVars>>

\* Time: a back-off is over, or a lease has run out.
Ripen(m) ==
    /\ status[m] \in {"pending", "sending"}
    /\ ~ripe[m]
    /\ ripe' = [ripe EXCEPT ![m] = TRUE]
    /\ excused' = [excused EXCEPT ![m] = @ \/ status[m] = "sending"]
    /\ UNCHANGED <<status, attempts, owner, workerVars, calls, gateVars, copies>>

\* The assignment is completed, cancelled or deleted elsewhere.
CloseAssignment(m) ==
    /\ m \in Gated
    /\ ~closed[m]
    /\ closed' = [closed EXCEPT ![m] = TRUE]
    /\ lastOpen' = [lastOpen EXCEPT ![m] = attempts[m]]
    /\ UNCHANGED <<rowVars, workerVars, calls, chatVars>>

-----------------------------------------------------------------------------
(* Claims.  expire_exhausted_stale and the claiming UPDATE are one         *)
(* transaction whose statements wait for, or skip, locked rows: atomic.    *)

MutantClaimableIgnoresLease(m) ==
    /\ attempts[m] < MaxAttempts
    /\ \/ status[m] = "pending" /\ ripe[m]
       \/ status[m] = "sending"
MutantClaimableOffByOne(m) ==
    /\ attempts[m] <= MaxAttempts
    /\ status[m] \in {"pending", "sending"}
    /\ ripe[m]
MutantClaimableForgetsStale(m) ==
    /\ attempts[m] < MaxAttempts
    /\ status[m] = "pending"
    /\ ripe[m]

Claimable(m) ==
    /\ attempts[m] < MaxAttempts
    /\ status[m] \in {"pending", "sending"}
    /\ ripe[m]

MutantExhaustedOffByOne(m) ==
    /\ status[m] = "sending"
    /\ ripe[m]
    /\ attempts[m] > MaxAttempts

Exhausted(m) ==
    /\ status[m] = "sending"
    /\ ripe[m]
    /\ attempts[m] >= MaxAttempts

\* uuid4: a token no row, executor or call still carries; which is immaterial.
FreshToken(t) ==
    /\ \A m \in Messages : owner[m] # t
    /\ \A w \in Workers : tok[w] # t
    /\ \A c \in calls : c.tok # t

NewToken == CHOOSE t \in Tokens : FreshToken(t)

MutantClaimKeepsCount(ms, t) ==
    /\ status' = [m \in Messages |-> IF m \in ms THEN "sending"
                                     ELSE IF Exhausted(m) THEN "failed" ELSE status[m]]
    /\ owner' = [m \in Messages |-> IF m \in ms THEN t
                                    ELSE IF Exhausted(m) THEN NoToken ELSE owner[m]]
    /\ ripe' = [m \in Messages |-> ripe[m] /\ m \notin ms /\ ~Exhausted(m)]
    /\ UNCHANGED attempts

ClaimRows(ms, t) ==
    /\ status' = [m \in Messages |-> IF m \in ms THEN "sending"
                                     ELSE IF Exhausted(m) THEN "failed" ELSE status[m]]
    /\ owner' = [m \in Messages |-> IF m \in ms THEN t
                                    ELSE IF Exhausted(m) THEN NoToken ELSE owner[m]]
    /\ attempts' = [m \in Messages |-> IF m \in ms THEN attempts[m] + 1 ELSE attempts[m]]
    /\ ripe' = [m \in Messages |-> ripe[m] /\ m \notin ms /\ ~Exhausted(m)]

\* The executor receives what was claimed, or the response is lost and the
\* rows stay "sending" under a token nobody holds.
Receive(w, ms, t) ==
    \/ /\ ms # {}
       /\ pc' = [pc EXCEPT ![w] = "loop"]
       /\ tok' = [tok EXCEPT ![w] = t]
       /\ batch' = [batch EXCEPT ![w] =
                        {[msg |-> m, attempt |-> attempts[m] + 1] : m \in ms}]
       /\ UNCHANGED cur
    \/ UNCHANGED workerVars

\* run() -> claim_due_batch: as many claimable rows as the limit admits.
Poll(w) ==
    /\ pc[w] = "idle"
    /\ \E t \in Tokens : FreshToken(t)
    /\ \E ms \in SUBSET {m \in Messages : Claimable(m)} :
        /\ Cardinality(ms) <= BatchLimit
        /\ \/ Cardinality(ms) = BatchLimit
           \/ ms = {m \in Messages : Claimable(m)}
        /\ ClaimRows(ms, NewToken)
        /\ Receive(w, ms, NewToken)
    /\ UNCHANGED <<calls, gateVars, chatVars>>

\* deliver_source -> claim_source: the one row, if it is claimable.
ClaimSource(w, m) ==
    /\ pc[w] = "idle"
    /\ \E t \in Tokens : FreshToken(t)
    /\ LET ms == IF Claimable(m) THEN {m} ELSE {} IN
        /\ ClaimRows(ms, NewToken)
        /\ Receive(w, ms, NewToken)
    /\ UNCHANGED <<calls, gateVars, chatVars>>

-----------------------------------------------------------------------------
(* Executors.                                                              *)

\* The next delivery of the batch, or the end of it.
Begin(w) ==
    /\ pc[w] = "loop"
    /\ \/ \E d \in batch[w] :
            /\ cur' = [cur EXCEPT ![w] = d]
            /\ batch' = [batch EXCEPT ![w] = @ \ {d}]
            /\ pc' = [pc EXCEPT ![w] = IF d.msg \in Gated THEN "allow" ELSE "send"]
            /\ UNCHANGED tok
       \/ /\ batch[w] = {}
          /\ pc' = [pc EXCEPT ![w] = "idle"]
          /\ tok' = [tok EXCEPT ![w] = NoToken]
          /\ UNCHANGED <<batch, cur>>
    /\ UNCHANGED <<rowVars, calls, gateVars, chatVars>>

\* mark_telegram_outbound_sent / mark_telegram_outbound_failed is posted.
Post(w, verdict) ==
    /\ pc' = [pc EXCEPT ![w] = "ack"]
    /\ calls' = calls \cup
           {[msg |-> cur[w].msg, attempt |-> cur[w].attempt, tok |-> tok[w],
             verdict |-> verdict, phase |-> "posted", seen |-> 0]}
    /\ UNCHANGED <<tok, batch, cur>>

MutantAllowSkipsCheck(w) ==
    /\ pc[w] = "allow"
    /\ pc' = [pc EXCEPT ![w] = "send"]
    /\ UNCHANGED <<tok, batch, cur, calls, rowVars, gateVars, chatVars>>

\* allow_assignment_outbound: re-checked after the claim, before the send.
Allow(w) ==
    /\ pc[w] = "allow"
    /\ \/ closed[cur[w].msg] /\ Post(w, "fatal")
       \/ /\ ~closed[cur[w].msg]
          /\ pc' = [pc EXCEPT ![w] = "send"]
          /\ UNCHANGED <<tok, batch, cur, calls>>
    /\ UNCHANGED <<rowVars, gateVars, chatVars>>

\* What send_message can do to the chat, and what classify_telegram_failure
\* makes of what it raised: a lost answer is retryable although the message
\* may have landed, and an unclassified error is terminal although it may.
Outcomes ==
    {[landed |-> TRUE, verdict |-> "sent"]} \cup
    [landed : BOOLEAN, verdict : {"retry", "fatal"}]

Send(w) ==
    /\ pc[w] = "send"
    /\ \E o \in Outcomes :
        /\ copies' = IF o.landed
                     THEN [copies EXCEPT ![cur[w].msg][cur[w].attempt] = @ + 1]
                     ELSE copies
        /\ excused' = [excused EXCEPT ![cur[w].msg] = @ \/ (o.landed /\ o.verdict = "retry")]
        /\ Post(w, o.verdict)
    /\ UNCHANGED <<rowVars, gateVars>>

CallsOf(w) == {c \in calls : c.msg = cur[w].msg /\ c.tok = tok[w]}

\* The answer arrives: on to the rest of the batch.
Answered(w) ==
    /\ pc[w] = "ack"
    /\ CallsOf(w) = {}
    /\ pc' = [pc EXCEPT ![w] = "loop"]
    /\ cur' = [cur EXCEPT ![w] = NoDelivery]
    /\ UNCHANGED <<tok, batch, rowVars, calls, gateVars, chatVars>>

Drop(w) ==
    /\ pc' = [pc EXCEPT ![w] = "idle"]
    /\ tok' = [tok EXCEPT ![w] = NoToken]
    /\ batch' = [batch EXCEPT ![w] = {}]
    /\ cur' = [cur EXCEPT ![w] = NoDelivery]

\* A crash, a cancellation, a stop between deliveries, a claim or a call that
\* raised: the whole rest of the batch is abandoned.  A call stays under way.
Abandon(w) ==
    /\ pc[w] # "idle"
    /\ Drop(w)
    /\ UNCHANGED <<rowVars, calls, gateVars, chatVars>>

-----------------------------------------------------------------------------
(* Acknowledgements in the API.                                            *)

MutantOwnsById(c) == TRUE
MutantOwnsSending(c) == status[c.msg] = "sending"

\* WHERE id = ... AND status = 'sending' AND owner_token = ...
Owns(c) ==
    /\ status[c.msg] = "sending"
    /\ owner[c.msg] = c.tok

MutantSettleWholeBatch(m, s) ==
    /\ status' = [n \in Messages |-> IF owner[n] = owner[m] THEN s ELSE status[n]]
    /\ owner' = [n \in Messages |-> IF owner[n] = owner[m] THEN NoToken ELSE owner[n]]
    /\ ripe' = [ripe EXCEPT ![m] = FALSE]
    /\ UNCHANGED attempts

SettleRow(m, s) ==
    /\ status' = [status EXCEPT ![m] = s]
    /\ owner' = [owner EXCEPT ![m] = NoToken]
    /\ ripe' = [ripe EXCEPT ![m] = FALSE]
    /\ UNCHANGED attempts

MarkSent(c) ==
    /\ c.verdict = "sent"
    /\ calls' = calls \ {c}
    /\ IF Owns(c) THEN SettleRow(c.msg, "sent") ELSE UNCHANGED rowVars
    /\ UNCHANGED <<workerVars, gateVars, chatVars>>

\* mark_failed first reads attempt_count without a lock ...
ReadAttempts(c) ==
    /\ c.verdict # "sent"
    /\ c.phase = "posted"
    /\ calls' = (calls \ {c}) \cup {[c EXCEPT !.phase = "read", !.seen = attempts[c.msg]]}
    /\ UNCHANGED <<rowVars, workerVars, gateVars, chatVars>>

MutantShouldRetryOffByOne(c) == c.verdict = "retry" /\ c.seen <= MaxAttempts

ShouldRetry(c) == c.verdict = "retry" /\ c.seen < MaxAttempts

\* ... and decides from what it read in the UPDATE that follows.
MarkFailed(c) ==
    /\ c.phase = "read"
    /\ calls' = calls \ {c}
    /\ IF Owns(c) THEN SettleRow(c.msg, IF ShouldRetry(c) THEN "pending" ELSE "failed")
                  ELSE UNCHANGED rowVars
    /\ UNCHANGED <<workerVars, gateVars, chatVars>>

\* The request, or the API process serving it, is lost before the UPDATE
\* commits; an executor still waiting for it gets an error.
LoseCall(c) ==
    /\ calls' = calls \ {c}
    /\ \/ \E w \in Workers :
            /\ pc[w] = "ack"
            /\ c \in CallsOf(w)
            /\ Drop(w)
       \/ /\ \A w \in Workers : ~(pc[w] = "ack" /\ c \in CallsOf(w))
          /\ UNCHANGED workerVars
    /\ UNCHANGED <<rowVars, gateVars, chatVars>>

-----------------------------------------------------------------------------
WorkerStep(w) == Begin(w) \/ Allow(w) \/ Send(w) \/ Answered(w)
ApiStep(c) == MarkSent(c) \/ ReadAttempts(c) \/ MarkFailed(c)

Next ==
    \/ \E m \in Messages : Enqueue(m) \/ Ripen(m) \/ CloseAssignment(m)
    \/ \E w \in Pollers : Poll(w)
    \/ \E w \in Handlers, m \in Messages : ClaimSource(w, m)
    \/ \E w \in Workers : WorkerStep(w) \/ Abandon(w)
    \/ \E c \in calls : ApiStep(c) \/ LoseCall(c)

Spec == Init /\ [][Next]_vars

\* Clocks advance, the polling loop runs again after every pause or restart,
\* a live executor goes on with what it holds and the API answers a call it
\* received.  Nothing is assumed of crashes, lost calls or handlers.
Fairness ==
    /\ \A m \in Messages : WF_vars(Ripen(m))
    /\ \A w \in Pollers : WF_vars(Poll(w))
    /\ \A w \in Workers : WF_vars(WorkerStep(w))
    /\ WF_vars(\E c \in calls : ApiStep(c))

FairSpec == Spec /\ Fairness

-----------------------------------------------------------------------------
(* Properties.                                                             *)

\* One claim, one copy: an attempt number puts at most one copy in the chat,
\* and only once the claim that opened it has committed.  This is what bounds
\* the copies an employee can receive by OUTBOUND_MAX_ATTEMPTS whatever
\* crashes, late answers and reclaims do.
OneCopyPerAttempt ==
    \A m \in Messages, a \in Attempts :
        /\ copies[m][a] <= 1
        /\ a > attempts[m] => copies[m][a] = 0

\* "sent" is never a lie and never comes from a superseded executor: the
\* newest attempt of a sent row has reached the chat.
SentByLatestAttempt ==
    \A m \in Messages :
        status[m] = "sent" => /\ attempts[m] \in Attempts
                              /\ copies[m][attempts[m]] = 1

\* mark_failed decides from an attempt_count it read earlier; still no row
\* goes back to "pending" with its attempts used up, where no claim would
\* take it and expire_exhausted_stale would not see it.
NoStrandedRetry ==
    \A m \in Messages : status[m] = "pending" => attempts[m] < MaxAttempts

\* A second copy always has a cause named in the runbook: the lease ran out
\* before the acknowledgement, or Telegram's answer to a landed copy was lost.
DuplicateHasCause ==
    \A m \in Messages : \A a, b \in Attempts :
        copies[m][a] > 0 /\ copies[m][b] > 0 /\ a # b => excused[m]

\* A closed assignment stays silent: no attempt claimed after the assignment
\* closed reaches the chat (one claimed before may, between check and send).
ClosedStaysSilent ==
    \A m \in Gated, a \in Attempts :
        closed[m] /\ a > lastOpen[m] => copies[m][a] = 0

\* A sent or failed row is final: no late acknowledgement, reclaim or expiry
\* touches its status, its attempts or its owner again.
SettledForGood ==
    [][\A m \in Messages : status[m] \in Settled =>
            /\ status'[m] = status[m]
            /\ attempts'[m] = attempts[m]
            /\ owner'[m] = NoToken]_vars

\* The rows, calls and executors together implement the outbox's promise.
Fate(m) ==
    IF status[m] = "absent" THEN "unsubmitted"
    ELSE IF status[m] \in {"pending", "sending"} THEN "open" ELSE status[m]

Promise == INSTANCE AtLeastOnce WITH
    fate <- [m \in Messages |-> Fate(m)],
    issued <- attempts,
    copies <- copies

KeepsPromise == Promise!Spec

\* Every enqueued message is eventually sent or given up, even if executors
\* crash and calls are lost for ever: each claim consumes an attempt.
EventuallySettled ==
    \A m \in Messages : status[m] = "pending" ~> status[m] \in Settled
=============================================================================
