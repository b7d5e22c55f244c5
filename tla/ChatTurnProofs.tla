--------------------------- MODULE ChatTurnProofs ---------------------------
(***************************************************************************)
(* Proofs about ChatTurn, for any number of questions, handlers, requests  *)
(* and conversations.  The inductive invariant adds to the properties what *)
(* a receipt says about the rows (Stored), what a handler and a request    *)
(* know at each point, and which requests an archival overtook.            *)
(***************************************************************************)
EXTENDS ChatTurn, TLAPS

\* A completed receipt stands for exactly one stored turn, in the cached
\* conversation, and its outbox row; any other receipt stands for nothing.
Stored ==
    \A q \in Questions :
        IF tStatus[q] = "completed"
        THEN /\ kept[q] = 1
             /\ tConv[q] \in Convs
             /\ places[q] = {tConv[q]}
             /\ conv[tConv[q]] # "absent"
             /\ q \in outbox
        ELSE kept[q] = 0 /\ places[q] = {} /\ q \notin outbox

\* A handler waits for a running request about its own question, and what it
\* was told to be in the outbox is there.
HandlerFacts ==
    \A h \in Handlers :
        /\ hpc[h] # "idle" => hq[h] \in Questions
        /\ hpc[h] = "idle" => hreq[h] = Nobody /\ hgot[h] = "plain"
        /\ hreq[h] # Nobody => /\ rpc[hreq[h]] # "idle"
                               /\ rq[hreq[h]] = hq[h]
        /\ hgot[h] = "knowledge" => hq[h] \in outbox

RequestFacts ==
    \A r \in Requests :
        /\ rpc[r] \in {"claim", "replay", "fail"} => rq[r] \in Questions
        /\ rpc[r] = "replay" => tStatus[rq[r]] = "completed"

\* A turn about to be committed to an archived conversation was overtaken.
Overtaken ==
    \A r \in Requests :
        (rpc[r] = "commit" /\ rconv[r] # NoConv /\ conv[rconv[r]] = "archived")
            => rconv[r] \in raced

IInv ==
    /\ TypeOK
    /\ Stored
    /\ HandlerFacts
    /\ RequestFacts
    /\ PointerIsCommitted
    /\ AnswersThroughOutbox
    /\ LateTurnWasRaced
    /\ Overtaken

HandlerTypes ==
    /\ hpc \in [Handlers -> HandlerPoint]
    /\ hq \in [Handlers -> Questions \cup {NoQuestion}]
    /\ hconv \in [Handlers -> Convs \cup {NoConv}]
    /\ hreq \in [Handlers -> Requests \cup {Nobody}]
    /\ hgot \in [Handlers -> Reply]

RequestTypes ==
    /\ rpc \in [Requests -> RequestPoint]
    /\ rq \in [Requests -> Questions \cup {NoQuestion}]
    /\ rconv \in [Requests -> Convs \cup {NoConv}]

UpdateTypes ==
    /\ uStatus \in [Questions -> ReceiptStatus]
    /\ uOwner \in [Questions -> Handlers \cup {Nobody}]
    /\ uLate \in [Questions -> BOOLEAN]
    /\ \A q \in Questions :
          /\ uStatus[q] = "processing" <=> uOwner[q] # Nobody
          /\ uLate[q] => uStatus[q] = "processing"

TurnTypes ==
    /\ tStatus \in [Questions -> ReceiptStatus]
    /\ tOwner \in [Questions -> Requests \cup {Nobody}]
    /\ tLate \in [Questions -> BOOLEAN]
    /\ tConv \in [Questions -> Convs \cup {NoConv}]
    /\ \A q \in Questions :
          /\ tStatus[q] = "processing" <=> tOwner[q] # Nobody
          /\ tLate[q] => tStatus[q] = "processing"

StoreTypes ==
    /\ conv \in [Convs -> {"absent", "active", "archived"}]
    /\ pointer \in Convs \cup {NoConv}
    /\ kept \in [Questions -> Nat]
    /\ places \in [Questions -> SUBSET Convs]
    /\ outbox \subseteq Questions

HistoryTypes ==
    /\ direct \subseteq Questions
    /\ raced \subseteq Convs
    /\ late \subseteq Convs

LEMMA TypesTogether ==
    TypeOK <=> /\ HandlerTypes /\ RequestTypes /\ UpdateTypes /\ TurnTypes
               /\ StoreTypes /\ HistoryTypes
BY DEF TypeOK, ReceiptShape, HandlerTypes, RequestTypes, UpdateTypes,
       TurnTypes, StoreTypes, HistoryTypes

LEMMA TypesTogetherNext ==
    TypeOK' <=> /\ HandlerTypes' /\ RequestTypes' /\ UpdateTypes' /\ TurnTypes'
                /\ StoreTypes' /\ HistoryTypes'
BY DEF TypeOK, ReceiptShape, HandlerTypes, RequestTypes, UpdateTypes,
       TurnTypes, StoreTypes, HistoryTypes

\* What every step of a request does to what the others rely on: the outbox
\* only grows, a conversation stays, is not archived, and answers are final.
Grows ==
    /\ outbox \subseteq outbox'
    /\ \A c \in Convs : /\ conv[c] # "absent" => conv'[c] # "absent"
                        /\ conv'[c] = "archived" => conv[c] = "archived"
    /\ \A q \in Questions : tStatus[q] = "completed" => tStatus'[q] = "completed"

\* The part of the invariant that speaks of handlers and requests.
Flow ==
    /\ HandlerTypes
    /\ RequestTypes
    /\ HandlerFacts
    /\ RequestFacts
    /\ PointerIsCommitted
    /\ Overtaken

-----------------------------------------------------------------------------
(* What is left alone keeps its facts.                                     *)

LEMMA UpdatesKept == UpdateTypes /\ UNCHANGED updateVars => UpdateTypes'
BY DEF UpdateTypes, updateVars

LEMMA TurnsKept == TurnTypes /\ UNCHANGED turnVars => TurnTypes'
BY DEF TurnTypes, turnVars

LEMMA StoresKept ==
    StoreTypes /\ UNCHANGED <<conv, pointer, storeVars>> => StoreTypes'
BY DEF StoreTypes, storeVars

LEMMA HistoryKept == HistoryTypes /\ UNCHANGED historyVars => HistoryTypes'
BY DEF HistoryTypes, historyVars

LEMMA RequestTypesKept ==
    RequestTypes /\ UNCHANGED requestVars => RequestTypes'
BY DEF RequestTypes, requestVars

LEMMA HandlerTypesKept ==
    HandlerTypes /\ UNCHANGED handlerVars => HandlerTypes'
BY DEF HandlerTypes, handlerVars

LEMMA StoredKept ==
    Stored /\ UNCHANGED <<turnVars, conv, storeVars>> => Stored'
BY DEF Stored, turnVars, storeVars

LEMMA RequestFactsKept ==
    RequestFacts /\ UNCHANGED <<turnVars, requestVars>> => RequestFacts'
BY DEF RequestFacts, turnVars, requestVars

LEMMA OvertakenKept ==
    Overtaken /\ UNCHANGED <<conv, requestVars, historyVars>> => Overtaken'
BY DEF Overtaken, requestVars, historyVars

LEMMA HistoryFactsKept ==
    AnswersThroughOutbox /\ LateTurnWasRaced /\ UNCHANGED historyVars
    => AnswersThroughOutbox' /\ LateTurnWasRaced'
BY DEF AnswersThroughOutbox, LateTurnWasRaced, historyVars

-----------------------------------------------------------------------------
(* The steps of a handler.                                                 *)

\* A handler that stops, moves on or is told something plain.
LEMMA HandlerSettles ==
    ASSUME TypeOK, HandlerFacts, NEW h \in Handlers, hpc[h] # "idle",
           \/ HandlerIdle(h)
           \/ HandlerGets(h, "plain")
           \/ \E p \in {"complete", "fail"} : HandlerGoto(h, p),
           UNCHANGED <<requestVars, outbox>>
    PROVE  HandlerTypes' /\ HandlerFacts'
<1> USE DEF TypeOK, HandlerFacts, requestVars, HandlerPoint, Reply
<1>1. CASE HandlerIdle(h)
  <2>1. HandlerTypes'
    BY <1>1 DEF HandlerIdle, HandlerTypes
  <2>2. HandlerFacts'
    BY <1>1 DEF HandlerIdle
  <2> QED BY <2>1, <2>2
<1>2. CASE HandlerGets(h, "plain")
  <2>1. HandlerTypes'
    BY <1>2 DEF HandlerGets, HandlerTypes
  <2>2. HandlerFacts'
    BY <1>2 DEF HandlerGets
  <2> QED BY <2>1, <2>2
<1>3. ASSUME NEW p \in {"complete", "fail"}, HandlerGoto(h, p)
      PROVE  HandlerTypes' /\ HandlerFacts'
  <2>1. HandlerTypes'
    BY <1>3 DEF HandlerGoto, HandlerTypes
  <2>2. HandlerFacts'
    BY <1>3 DEF HandlerGoto
  <2> QED BY <2>1, <2>2
<1> QED BY <1>1, <1>2, <1>3

\* What such a step leaves of the invariant: only the handlers, the pointer
\* and perhaps the receipt of the update or a direct answer are to be shown.
LEMMA HandlerRest ==
    ASSUME IInv, UNCHANGED <<turnVars, conv, storeVars, requestVars>>,
           UpdateTypes', HandlerTypes', HandlerFacts',
           pointer' \in Convs \cup {NoConv},
           direct' = {}, UNCHANGED <<raced, late>>,
           PointerIsCommitted'
    PROVE  IInv'
<1>1. /\ RequestTypes' /\ TurnTypes' /\ Stored' /\ RequestFacts'
  BY TypesTogether, TurnsKept, RequestTypesKept, StoredKept, RequestFactsKept
     DEF IInv
<1>2. StoreTypes'
  BY TypesTogether DEF IInv, StoreTypes, storeVars
<1>3. HistoryTypes' /\ AnswersThroughOutbox' /\ LateTurnWasRaced'
  BY TypesTogether DEF IInv, HistoryTypes, AnswersThroughOutbox, LateTurnWasRaced
<1>4. Overtaken'
  BY DEF IInv, Overtaken, requestVars
<1>5. TypeOK'
  BY <1>1, <1>2, <1>3, TypesTogetherNext
<1> QED BY <1>1, <1>3, <1>4, <1>5 DEF IInv

LEMMA ClaimUpdateKeeps ==
    ASSUME IInv, NEW h \in Handlers, NEW q \in Questions, ClaimUpdate(h, q)
    PROVE  IInv'
<1>1. UpdateTypes'
  BY ChatAssumption
     DEF IInv, TypeOK, ReceiptShape, ClaimUpdate, UpdateTypes, ReceiptStatus
<1>2. HandlerTypes'
  BY DEF IInv, TypeOK, ClaimUpdate, HandlerTypes, HandlerPoint
<1>3. HandlerFacts'
  BY DEF IInv, TypeOK, HandlerFacts, ClaimUpdate, requestVars, storeVars
<1>4. PointerIsCommitted'
  BY DEF IInv, PointerIsCommitted, ClaimUpdate, requestVars
<1>5. pointer' \in Convs \cup {NoConv}
  BY DEF IInv, TypeOK, ClaimUpdate
<1>6. direct' = {}
  BY DEF IInv, AnswersThroughOutbox, ClaimUpdate, historyVars
<1> QED BY <1>1, <1>2, <1>3, <1>4, <1>5, <1>6, HandlerRest
        DEF ClaimUpdate, historyVars

LEMMA PlainHandlerKeeps ==
    ASSUME IInv, NEW h \in Handlers,
           Refuse(h) \/ StopWaiting(h) \/ LoseHandler(h)
    PROVE  IInv'
<1> USE DEF Refuse, StopWaiting, LoseHandler
<1>1. /\ hpc[h] # "idle"
      /\ HandlerIdle(h) \/ HandlerGets(h, "plain")
      /\ UNCHANGED <<updateVars, turnVars, conv, pointer, storeVars,
                     requestVars, historyVars>>
  OBVIOUS
<1>2. HandlerTypes' /\ HandlerFacts'
  BY <1>1, HandlerSettles DEF IInv, storeVars
<1>3. UpdateTypes'
  BY <1>1, TypesTogether, UpdatesKept DEF IInv
<1>4. PointerIsCommitted'
  <2>1. hconv' = [hconv EXCEPT ![h] = NoConv]
    BY <1>1 DEF HandlerIdle, HandlerGets
  <2> QED BY <1>1, <2>1 DEF IInv, TypeOK, PointerIsCommitted, requestVars
<1>5. pointer' \in Convs \cup {NoConv} /\ direct' = {} /\ UNCHANGED <<raced, late>>
  BY <1>1 DEF IInv, TypeOK, AnswersThroughOutbox, historyVars
<1> QED BY <1>1, <1>2, <1>3, <1>4, <1>5, HandlerRest

LEMMA RememberKeeps ==
    ASSUME IInv, NEW h \in Handlers, Remember(h)
    PROVE  IInv'
<1> USE DEF Remember
<1>1. HandlerTypes'
  BY DEF IInv, TypeOK, HandlerGets, HandlerTypes, HandlerPoint
<1>2. HandlerFacts'
  BY DEF IInv, TypeOK, HandlerFacts, HandlerGets, requestVars, storeVars
<1>3. UpdateTypes'
  BY TypesTogether, UpdatesKept DEF IInv
<1>4. PointerIsCommitted'
  BY DEF IInv, TypeOK, PointerIsCommitted, HandlerGets, requestVars
<1>5. pointer' \in Convs \cup {NoConv} /\ direct' = {} /\ UNCHANGED <<raced, late>>
  BY DEF IInv, TypeOK, AnswersThroughOutbox, historyVars
<1> QED BY <1>1, <1>2, <1>3, <1>4, <1>5, HandlerRest

\* A knowledge answer is in the outbox by then, so nothing is sent directly.
LEMMA ReplyToKeeps ==
    ASSUME IInv, NEW h \in Handlers, ReplyTo(h)
    PROVE  IInv'
<1> USE DEF ReplyTo
<1>1. /\ hpc[h] # "idle"
      /\ \E p \in {"complete", "fail"} : HandlerGoto(h, p)
      /\ UNCHANGED <<hconv, hq>>
  BY DEF HandlerGoto
<1>2. HandlerTypes' /\ HandlerFacts'
  BY <1>1, HandlerSettles DEF IInv, storeVars
<1>3. UpdateTypes'
  BY TypesTogether, UpdatesKept DEF IInv
<1>4. PointerIsCommitted'
  BY <1>1 DEF IInv, PointerIsCommitted, requestVars
<1>5. direct' = {}
  BY DEF IInv, HandlerFacts, AnswersThroughOutbox
<1>6. pointer' \in Convs \cup {NoConv} /\ UNCHANGED <<raced, late>>
  BY DEF IInv, TypeOK
<1> QED BY <1>2, <1>3, <1>4, <1>5, <1>6, HandlerRest

LEMMA SettleUpdateKeeps ==
    ASSUME IInv, NEW h \in Handlers, CompleteUpdate(h) \/ FailUpdate(h)
    PROVE  IInv'
<1>1. PICK s \in {"completed", "failed"} :
          hpc[h] # "idle" /\ SettleUpdate(h, s)
  BY DEF CompleteUpdate, FailUpdate
<1> USE DEF SettleUpdate
<1>2. HandlerTypes' /\ HandlerFacts'
  BY <1>1, HandlerSettles DEF IInv, storeVars
<1>3. UpdateTypes'
  <2>1. hq[h] \in Questions
    BY <1>1 DEF IInv, HandlerFacts
  <2>2. CASE Held(uStatus[hq[h]], uOwner[hq[h]], h)
    <3>1. /\ uStatus' = [uStatus EXCEPT ![hq[h]] = s]
          /\ uOwner' = [uOwner EXCEPT ![hq[h]] = Nobody]
          /\ uLate' = [uLate EXCEPT ![hq[h]] = FALSE]
      BY <1>1, <2>2
    <3>2. UpdateTypes
      BY TypesTogether DEF IInv
    <3> QED BY <3>1, <3>2, <2>1 DEF UpdateTypes, ReceiptStatus
  <2>3. CASE ~Held(uStatus[hq[h]], uOwner[hq[h]], h)
    BY <1>1, <2>3, TypesTogether, UpdatesKept DEF IInv
  <2> QED BY <2>2, <2>3
<1>4. PointerIsCommitted'
  <2>1. hconv' = [hconv EXCEPT ![h] = NoConv]
    BY <1>1 DEF HandlerIdle
  <2> QED BY <1>1, <2>1 DEF IInv, TypeOK, PointerIsCommitted, requestVars
<1>5. pointer' \in Convs \cup {NoConv} /\ direct' = {} /\ UNCHANGED <<raced, late>>
  BY <1>1 DEF IInv, TypeOK, AnswersThroughOutbox, historyVars
<1> QED BY <1>1, <1>2, <1>3, <1>4, <1>5, HandlerRest

-----------------------------------------------------------------------------
(* The steps of a request.                                                 *)

LEMMA Grown == UNCHANGED <<turnVars, conv, storeVars>> => Grows
BY DEF Grows, turnVars, storeVars

\* A request that answers.
LEMMA Answers ==
    ASSUME IInv, NEW r \in Requests, rpc[r] # "idle",
           NEW reply \in Reply, NEW c \in Convs \cup {NoConv},
           Respond(r, reply, c),
           Grows, UNCHANGED <<pointer, raced>>,
           c # NoConv => conv'[c] # "absent",
           reply = "knowledge" => rq[r] = NoQuestion \/ rq[r] \in outbox'
    PROVE  Flow'
<1> DEFINE waiting == {h \in Handlers : hreq[h] = r}
<1>1. HandlerTypes'
  BY DEF IInv, TypeOK, Respond, HandlerTypes, HandlerPoint
<1>2. RequestTypes'
  BY DEF IInv, TypeOK, Respond, RequestTypes, RequestPoint
<1>3. HandlerFacts'
  <2> SUFFICES ASSUME NEW h \in Handlers
               PROVE  /\ hpc'[h] # "idle" => hq'[h] \in Questions
                      /\ hpc'[h] = "idle" => hreq'[h] = Nobody /\ hgot'[h] = "plain"
                      /\ hreq'[h] # Nobody => /\ rpc'[hreq'[h]] # "idle"
                                              /\ rq'[hreq'[h]] = hq'[h]
                      /\ hgot'[h] = "knowledge" => hq'[h] \in outbox'
    BY DEF HandlerFacts
  <2>1. CASE h \in waiting
    <3>1. hq[h] \in Questions /\ hq[h] = rq[r]
      BY <2>1, ChatAssumption DEF IInv, HandlerFacts
    <3>2. hpc'[h] # "idle" /\ hreq'[h] = Nobody /\ hgot'[h] = reply /\ hq'[h] = hq[h]
      BY <2>1 DEF Respond
    <3> QED BY <3>1, <3>2, ChatAssumption
  <2>2. CASE h \notin waiting
    <3>1. /\ hpc'[h] = hpc[h] /\ hreq'[h] = hreq[h] /\ hgot'[h] = hgot[h]
          /\ hq'[h] = hq[h] /\ hreq[h] # r
      BY <2>2 DEF Respond
    <3>2. hreq[h] # Nobody => /\ rpc'[hreq[h]] = rpc[hreq[h]]
                              /\ rq'[hreq[h]] = rq[hreq[h]]
      BY <3>1 DEF Respond, IInv, TypeOK
    <3> QED BY <3>1, <3>2 DEF IInv, HandlerFacts, Grows
  <2> QED BY <2>1, <2>2
<1>4. RequestFacts'
  <2> SUFFICES ASSUME NEW x \in Requests, x # r
               PROVE  /\ rpc'[x] \in {"claim", "replay", "fail"} => rq'[x] \in Questions
                      /\ rpc'[x] = "replay" => tStatus'[rq'[x]] = "completed"
    BY DEF RequestFacts, Respond, IInv, TypeOK
  <2>1. rpc'[x] = rpc[x] /\ rq'[x] = rq[x]
    BY DEF Respond, IInv, TypeOK
  <2> QED BY <2>1 DEF IInv, RequestFacts, Grows
<1>5. PointerIsCommitted'
  <2>1. \A h \in Handlers : hconv'[h] = IF h \in waiting THEN c ELSE hconv[h]
    BY DEF Respond
  <2>2. \A x \in Requests : rconv'[x] = IF x = r THEN NoConv ELSE rconv[x]
    BY DEF Respond, IInv, TypeOK
  <2> QED BY <2>1, <2>2 DEF IInv, TypeOK, PointerIsCommitted, Grows
<1>6. Overtaken'
  <2>1. \A x \in Requests : /\ rpc'[x] = IF x = r THEN "idle" ELSE rpc[x]
                            /\ rconv'[x] = IF x = r THEN NoConv ELSE rconv[x]
    BY DEF Respond, IInv, TypeOK
  <2> QED BY <2>1 DEF IInv, TypeOK, Overtaken, Grows
<1> QED BY <1>1, <1>2, <1>3, <1>4, <1>5, <1>6 DEF Flow

\* A request that goes on, to point p with conversation c.
LEMMA GoesOn ==
    ASSUME IInv, NEW r \in Requests, rpc[r] # "idle",
           NEW p \in RequestPoint \ {"idle"}, NEW c \in Convs \cup {NoConv},
           rpc' = [rpc EXCEPT ![r] = p],
           rconv' = [rconv EXCEPT ![r] = c],
           UNCHANGED <<rq, handlerVars, pointer, raced>>,
           Grows,
           c # NoConv => conv'[c] # "absent",
           p \in {"claim", "replay", "fail"} => rq[r] \in Questions,
           p = "replay" => tStatus'[rq[r]] = "completed",
           p = "commit" /\ c # NoConv => conv'[c] # "archived" \/ c \in raced
    PROVE  Flow'
<1>0. \A x \in Requests : /\ rpc'[x] = IF x = r THEN p ELSE rpc[x]
                          /\ rconv'[x] = IF x = r THEN c ELSE rconv[x]
  BY DEF IInv, TypeOK
<1>1. HandlerTypes'
  BY TypesTogether, HandlerTypesKept DEF IInv
<1>2. RequestTypes'
  BY DEF IInv, TypeOK, RequestTypes
<1>3. HandlerFacts'
  <2>1. \A h \in Handlers : hreq[h] # Nobody => rpc'[hreq[h]] # "idle"
    BY <1>0 DEF IInv, TypeOK, HandlerFacts
  <2> QED BY <2>1 DEF IInv, HandlerFacts, handlerVars, Grows
<1>4. RequestFacts'
  BY <1>0 DEF IInv, RequestFacts, Grows
<1>5. PointerIsCommitted'
  BY <1>0 DEF IInv, TypeOK, PointerIsCommitted, Grows, handlerVars
<1>6. Overtaken'
  BY <1>0 DEF IInv, TypeOK, Overtaken, Grows
<1> QED BY <1>1, <1>2, <1>3, <1>4, <1>5, <1>6 DEF Flow

\* A request that fails: a keyed one goes on to fail its claim.
LEMMA Fails ==
    ASSUME IInv, NEW r \in Requests, rpc[r] # "idle", Failed(r),
           Grows, UNCHANGED <<pointer, raced>>
    PROVE  Flow'
<1>1. CASE rq[r] = NoQuestion
  <2>1. Respond(r, "plain", NoConv)
    BY <1>1 DEF Failed
  <2> QED BY <2>1, Answers DEF Reply
<1>2. CASE rq[r] # NoQuestion
  <2>1. /\ rpc' = [rpc EXCEPT ![r] = "fail"]
        /\ rconv' = [rconv EXCEPT ![r] = NoConv]
        /\ UNCHANGED <<rq, handlerVars>>
    BY <1>2 DEF Failed
  <2>2. rq[r] \in Questions
    BY <1>2 DEF IInv, TypeOK
  <2> QED BY <2>1, <2>2, GoesOn DEF RequestPoint
<1> QED BY <1>1, <1>2

LEMMA RequestRest ==
    ASSUME IInv, Flow', UNCHANGED <<updateVars, pointer, direct>>,
           TurnTypes', StoreTypes', Stored',
           raced \subseteq raced', raced' \subseteq Convs, late' \subseteq raced'
    PROVE  IInv'
<1>1. UpdateTypes'
  BY TypesTogether, UpdatesKept DEF IInv
<1>2. HistoryTypes' /\ AnswersThroughOutbox' /\ LateTurnWasRaced'
  BY DEF IInv, HistoryTypes, AnswersThroughOutbox, LateTurnWasRaced
<1>3. TypeOK'
  BY <1>1, <1>2, TypesTogetherNext DEF Flow
<1> QED BY <1>2, <1>3 DEF IInv, Flow

\* A step of a request that writes no row.
LEMMA NothingWritten ==
    ASSUME IInv, Flow',
           UNCHANGED <<updateVars, turnVars, conv, pointer, storeVars, historyVars>>
    PROVE  IInv'
<1>1. TurnTypes' /\ StoreTypes' /\ Stored'
  BY TypesTogether, TurnsKept, StoresKept, StoredKept DEF IInv
<1>2. raced' = raced /\ late' = late /\ direct' = direct
  BY DEF historyVars
<1> QED BY <1>1, <1>2, RequestRest DEF IInv, LateTurnWasRaced, TypeOK

LEMMA PlainRequestKeeps ==
    ASSUME IInv, NEW r \in Requests, AnswerWithoutTurn(r) \/ LoseRequest(r)
    PROVE  IInv'
<1>1. /\ rpc[r] # "idle"
      /\ Respond(r, "plain", NoConv)
      /\ UNCHANGED <<updateVars, turnVars, conv, pointer, storeVars, historyVars>>
  BY DEF AnswerWithoutTurn, LoseRequest
<1>2. Grows /\ UNCHANGED <<pointer, raced>>
  BY <1>1, Grown DEF historyVars
<1>3. Flow'
  BY <1>1, <1>2, Answers DEF Reply
<1> QED BY <1>1, <1>3, NothingWritten

LEMMA TimeoutKeeps ==
    ASSUME IInv, NEW r \in Requests, Timeout(r)
    PROVE  IInv'
<1>1. /\ rpc[r] # "idle"
      /\ Failed(r)
      /\ UNCHANGED <<updateVars, turnVars, conv, pointer, storeVars, historyVars>>
  BY DEF Timeout
<1>2. Grows /\ UNCHANGED <<pointer, raced>>
  BY <1>1, Grown DEF historyVars
<1> QED BY <1>1, <1>2, Fails, NothingWritten

LEMMA LoadHistoryKeeps ==
    ASSUME IInv, NEW r \in Requests, LoadHistory(r)
    PROVE  IInv'
<1> DEFINE archived == rconv[r] # NoConv /\ conv[rconv[r]] = "archived"
<1>1. /\ rpc[r] # "idle"
      /\ UNCHANGED <<updateVars, turnVars, conv, pointer, storeVars, historyVars>>
  BY DEF LoadHistory
<1>2. Grows /\ UNCHANGED <<pointer, raced>>
  BY <1>1, Grown DEF historyVars
<1>3. CASE Failed(r)
  BY <1>1, <1>2, <1>3, Fails, NothingWritten
<1>4. CASE ~Failed(r)
  <2> DEFINE c == IF archived THEN NoConv ELSE rconv[r]
  <2>1. /\ rpc' = [rpc EXCEPT ![r] = "think"]
        /\ rconv' = [rconv EXCEPT ![r] = c]
        /\ UNCHANGED <<rq, handlerVars>>
    BY <1>4 DEF LoadHistory
  <2>2. c \in Convs \cup {NoConv} /\ (c # NoConv => conv'[c] # "absent")
    BY <1>1 DEF IInv, TypeOK, PointerIsCommitted
  <2>3. Flow'
    <3> HIDE DEF c
    <3> QED BY <1>1, <1>2, <2>1, <2>2, GoesOn DEF RequestPoint
  <2> QED BY <1>1, <2>3, NothingWritten
<1> QED BY <1>3, <1>4

LEMMA CheckKeeps ==
    ASSUME IInv, NEW r \in Requests, Check(r)
    PROVE  IInv'
<1>1. /\ rpc[r] # "idle"
      /\ UNCHANGED <<updateVars, turnVars, conv, pointer, storeVars, historyVars>>
  BY DEF Check
<1>2. Grows /\ UNCHANGED <<pointer, raced>>
  BY <1>1, Grown DEF historyVars
<1>3. CASE Failed(r)
  BY <1>1, <1>2, <1>3, Fails, NothingWritten
<1>4. CASE ~Failed(r)
  <2>1. /\ rpc' = [rpc EXCEPT ![r] = "commit"]
        /\ rconv' = [rconv EXCEPT ![r] = rconv[r]]
        /\ UNCHANGED <<rq, handlerVars>>
        /\ rconv[r] # NoConv => conv[rconv[r]] # "archived"
    BY <1>4 DEF Check, RequestGoto, IInv, TypeOK
  <2>2. /\ rconv[r] \in Convs \cup {NoConv}
        /\ rconv[r] # NoConv => conv'[rconv[r]] # "absent"
        /\ rconv[r] # NoConv => conv'[rconv[r]] # "archived"
    BY <1>1, <2>1 DEF IInv, TypeOK, PointerIsCommitted
  <2>3. Flow'
    BY <1>1, <1>2, <2>1, <2>2, GoesOn DEF RequestPoint
  <2> QED BY <1>1, <2>3, NothingWritten
<1> QED BY <1>3, <1>4

LEMMA WebAskKeeps ==
    ASSUME IInv, NEW r \in Requests, NEW c \in Convs \cup {NoConv}, WebAsk(r, c)
    PROVE  IInv'
<1>1. UNCHANGED <<updateVars, turnVars, conv, pointer, storeVars, historyVars>>
  BY DEF WebAsk
<1>0. \A x \in Requests : /\ rpc'[x] = IF x = r THEN "load" ELSE rpc[x]
                          /\ rq'[x] = IF x = r THEN NoQuestion ELSE rq[x]
                          /\ rconv'[x] = IF x = r THEN c ELSE rconv[x]
  BY DEF WebAsk, IInv, TypeOK
<1>2. HandlerTypes'
  BY TypesTogether, HandlerTypesKept DEF IInv, WebAsk
<1>3. RequestTypes'
  BY DEF IInv, TypeOK, RequestTypes, WebAsk, RequestPoint
<1>4. HandlerFacts'
  <2>1. \A h \in Handlers : hreq[h] # Nobody => hreq[h] # r
    BY DEF IInv, HandlerFacts, WebAsk
  <2>2. UNCHANGED <<hpc, hq, hreq, hgot, outbox>>
    BY DEF WebAsk, handlerVars, storeVars
  <2>3. \A h \in Handlers : hreq[h] # Nobody => hreq[h] \in Requests
    BY DEF IInv, TypeOK
  <2> QED BY <1>0, <2>1, <2>2, <2>3 DEF IInv, HandlerFacts
<1>5. RequestFacts'
  BY <1>0, <1>1 DEF IInv, RequestFacts, turnVars
<1>6. PointerIsCommitted'
  <2>1. c # NoConv => conv[c] # "absent"
    BY DEF WebAsk
  <2>2. UNCHANGED <<hconv, conv, pointer>>
    BY DEF WebAsk, handlerVars
  <2> QED BY <1>0, <2>1, <2>2 DEF IInv, PointerIsCommitted
<1>7. Overtaken'
  BY <1>0, <1>1 DEF IInv, Overtaken, historyVars
<1> QED BY <1>1, <1>2, <1>3, <1>4, <1>5, <1>6, <1>7, NothingWritten DEF Flow

LEMMA PostKeeps ==
    ASSUME IInv, NEW h \in Handlers, NEW r \in Requests, Post(h, r)
    PROVE  IInv'
<1>1. UNCHANGED <<updateVars, turnVars, conv, pointer, storeVars, historyVars>>
  BY DEF Post
<1>0. \A x \in Requests : /\ rpc'[x] = IF x = r THEN "claim" ELSE rpc[x]
                          /\ rq'[x] = IF x = r THEN hq[h] ELSE rq[x]
                          /\ rconv'[x] = IF x = r THEN pointer ELSE rconv[x]
  BY DEF Post, IInv, TypeOK
<1>a. hq[h] \in Questions
  BY DEF IInv, HandlerFacts, Post
<1>2. HandlerTypes'
  BY DEF IInv, TypeOK, HandlerTypes, Post, HandlerPoint
<1>3. RequestTypes'
  BY <1>a DEF IInv, TypeOK, RequestTypes, Post, RequestPoint
<1>4. HandlerFacts'
  <2> SUFFICES ASSUME NEW g \in Handlers
               PROVE  /\ hpc'[g] # "idle" => hq'[g] \in Questions
                      /\ hpc'[g] = "idle" => hreq'[g] = Nobody /\ hgot'[g] = "plain"
                      /\ hreq'[g] # Nobody => /\ rpc'[hreq'[g]] # "idle"
                                              /\ rq'[hreq'[g]] = hq'[g]
                      /\ hgot'[g] = "knowledge" => hq'[g] \in outbox'
    BY DEF HandlerFacts
  <2>1. CASE g = h
    <3>1. /\ hpc'[g] = "wait" /\ hreq'[g] = r /\ hq'[g] = hq[g] /\ hgot'[g] = hgot[g]
      BY <2>1 DEF Post, IInv, TypeOK
    <3> QED BY <1>0, <1>1, <1>a, <2>1, <3>1 DEF IInv, HandlerFacts, storeVars
  <2>2. CASE g # h
    <3>1. /\ hpc'[g] = hpc[g] /\ hreq'[g] = hreq[g] /\ hq'[g] = hq[g] /\ hgot'[g] = hgot[g]
      BY <2>2 DEF Post, IInv, TypeOK
    <3>2. hreq[g] # Nobody => hreq[g] \in Requests /\ hreq[g] # r
      BY DEF IInv, TypeOK, HandlerFacts, Post
    <3> QED BY <1>0, <1>1, <3>1, <3>2 DEF IInv, HandlerFacts, storeVars
  <2> QED BY <2>1, <2>2
<1>5. RequestFacts'
  BY <1>0, <1>1, <1>a DEF IInv, RequestFacts, turnVars
<1>6. PointerIsCommitted'
  <2>1. UNCHANGED <<hconv, conv, pointer>>
    BY DEF Post
  <2> QED BY <1>0, <2>1 DEF IInv, PointerIsCommitted
<1>7. Overtaken'
  BY <1>0, <1>1 DEF IInv, Overtaken, historyVars
<1> QED BY <1>1, <1>2, <1>3, <1>4, <1>5, <1>6, <1>7, NothingWritten DEF Flow

LEMMA ClaimTurnKeeps ==
    ASSUME IInv, NEW r \in Requests, ClaimTurn(r)
    PROVE  IInv'
<1> DEFINE q == rq[r]
<1>1. /\ rpc[r] = "claim" /\ q \in Questions
      /\ UNCHANGED <<updateVars, conv, pointer, storeVars, historyVars>>
  BY DEF ClaimTurn, IInv, RequestFacts
<1>2. UNCHANGED <<pointer, raced>>
  BY <1>1 DEF historyVars
<1>3. rconv[r] \in Convs \cup {NoConv} /\ (rconv[r] # NoConv => conv[rconv[r]] # "absent")
  BY DEF IInv, TypeOK, PointerIsCommitted
<1>4. ASSUME Reclaimable(tStatus[q], tLate[q]),
             tStatus' = [tStatus EXCEPT ![q] = "processing"],
             tOwner' = [tOwner EXCEPT ![q] = r],
             tLate' = [tLate EXCEPT ![q] = FALSE],
             tConv' = [tConv EXCEPT ![q] = NoConv],
             RequestGoto(r, "load"), UNCHANGED handlerVars
      PROVE  IInv'
  <2>1. tStatus[q] # "completed"
    BY <1>4 DEF Reclaimable
  <2>2. TurnTypes'
    <3>1. TurnTypes
      BY TypesTogether DEF IInv
    <3> QED BY <1>1, <1>4, <3>1, ChatAssumption DEF TurnTypes, ReceiptStatus
  <2>3. Stored'
    BY <1>1, <1>4, <2>1 DEF IInv, TypeOK, Stored, storeVars
  <2>4. Grows
    BY <1>1, <1>4, <2>1 DEF IInv, TypeOK, Grows, storeVars
  <2>5. /\ rpc' = [rpc EXCEPT ![r] = "load"] /\ UNCHANGED rq
        /\ rconv' = [rconv EXCEPT ![r] = rconv[r]]
    BY <1>4 DEF RequestGoto, IInv, TypeOK
  <2>6. Flow'
    BY <1>1, <1>2, <1>3, <1>4, <2>4, <2>5, GoesOn DEF RequestPoint
  <2>7. StoreTypes'
    BY <1>1, TypesTogether, StoresKept DEF IInv
  <2>8. direct' = direct /\ raced' = raced /\ late' = late
    BY <1>1 DEF historyVars
  <2> QED BY <1>1, <2>2, <2>3, <2>6, <2>7, <2>8, RequestRest
          DEF IInv, TypeOK, LateTurnWasRaced
<1>5. ASSUME tStatus[q] = "completed", UNCHANGED <<turnVars, rq, handlerVars>>,
             rpc' = [rpc EXCEPT ![r] = "replay"],
             rconv' = [rconv EXCEPT ![r] = NoConv]
      PROVE  IInv'
  <2>1. Grows
    BY <1>1, <1>5, Grown
  <2>2. tStatus'[rq[r]] = "completed"
    BY <1>5 DEF turnVars
  <2>3. Flow'
    BY <1>1, <1>2, <1>5, <2>1, <2>2, GoesOn DEF RequestPoint
  <2> QED BY <1>1, <1>5, <2>3, NothingWritten
<1>6. ASSUME Respond(r, "plain", NoConv), UNCHANGED turnVars
      PROVE  IInv'
  <2>1. Grows
    BY <1>1, <1>6, Grown
  <2>2. Flow'
    BY <1>1, <1>2, <1>6, <2>1, Answers DEF Reply
  <2> QED BY <1>1, <1>6, <2>2, NothingWritten
<1> QED BY <1>4, <1>5, <1>6 DEF ClaimTurn

\* The cached answer already has its turn and its row.
LEMMA ReplayKeeps ==
    ASSUME IInv, NEW r \in Requests, Replay(r)
    PROVE  IInv'
<1>1. rq[r] \in Questions /\ tStatus[rq[r]] = "completed" /\ rpc[r] # "idle"
  BY DEF Replay, IInv, RequestFacts
<1>2. /\ rq[r] \in outbox /\ tConv[rq[r]] \in Convs
      /\ conv[tConv[rq[r]]] # "absent"
  BY <1>1 DEF IInv, Stored
<1>3. UNCHANGED <<updateVars, turnVars, conv, pointer, storeVars, historyVars>>
  BY <1>2 DEF Replay, storeVars
<1>4. Grows /\ UNCHANGED <<pointer, raced, outbox, conv>>
  BY <1>3, Grown DEF historyVars, storeVars
<1>5. Respond(r, "knowledge", tConv[rq[r]])
  BY DEF Replay
<1>6. Flow'
  <2> DEFINE c == tConv[rq[r]]
  <2>1. /\ c \in Convs \cup {NoConv} /\ Respond(r, "knowledge", c)
        /\ conv'[c] # "absent" /\ rq[r] \in outbox'
    BY <1>2, <1>4, <1>5
  <2> HIDE DEF c
  <2> QED BY <1>1, <1>4, <2>1, Answers DEF Reply
<1> QED BY <1>3, <1>6, NothingWritten

LEMMA FailClaimKeeps ==
    ASSUME IInv, NEW r \in Requests, FailClaim(r)
    PROVE  IInv'
<1> DEFINE q == rq[r]
<1>1. /\ rpc[r] # "idle" /\ q \in Questions
      /\ Respond(r, "plain", NoConv)
      /\ UNCHANGED <<updateVars, conv, pointer, storeVars, historyVars>>
  BY DEF FailClaim, IInv, RequestFacts
<1>2. UNCHANGED <<pointer, raced>>
  BY <1>1 DEF historyVars
<1>3. CASE ~Held(tStatus[q], tOwner[q], r)
  <2>1. UNCHANGED turnVars
    BY <1>3 DEF FailClaim
  <2>2. Flow'
    BY <1>1, <1>2, <2>1, Grown, Answers DEF Reply
  <2> QED BY <1>1, <2>1, <2>2, NothingWritten
<1>4. CASE Held(tStatus[q], tOwner[q], r)
  <2>1. /\ tStatus[q] = "processing"
        /\ tStatus' = [tStatus EXCEPT ![q] = "failed"]
        /\ tOwner' = [tOwner EXCEPT ![q] = Nobody]
        /\ tLate' = [tLate EXCEPT ![q] = FALSE]
        /\ tConv' = [tConv EXCEPT ![q] = NoConv]
    BY <1>4 DEF FailClaim, SettleTurn, Held
  <2>2. TurnTypes'
    <3>1. TurnTypes
      BY TypesTogether DEF IInv
    <3> QED BY <1>1, <2>1, <3>1 DEF TurnTypes, ReceiptStatus
  <2>3. Stored'
    BY <1>1, <2>1 DEF IInv, TypeOK, Stored, storeVars
  <2>4. Grows
    BY <1>1, <2>1 DEF IInv, TypeOK, Grows, storeVars
  <2>5. Flow'
    BY <1>1, <1>2, <2>4, Answers DEF Reply
  <2>6. StoreTypes'
    BY <1>1, TypesTogether, StoresKept DEF IInv
  <2>7. direct' = direct /\ raced' = raced /\ late' = late
    BY <1>1 DEF historyVars
  <2> QED BY <1>1, <2>2, <2>3, <2>5, <2>6, <2>7, RequestRest
          DEF IInv, TypeOK, LateTurnWasRaced
<1> QED BY <1>3, <1>4

\* The commit: the turn, its outbox row and the completed receipt in one step.
LEMMA CommitTurnKeeps ==
    ASSUME IInv, NEW r \in Requests, CommitTurn(r)
    PROVE  IInv'
<1> DEFINE q == rq[r]
<1>1. /\ rpc[r] = "commit" /\ q \in Questions \cup {NoQuestion}
      /\ UNCHANGED <<updateVars, pointer, direct, raced>>
  BY DEF CommitTurn, IInv, TypeOK
<1>2. ASSUME Failed(r), UNCHANGED <<turnVars, conv, storeVars, late>>
      PROVE  IInv'
  <2>1. UNCHANGED historyVars
    BY <1>1, <1>2 DEF historyVars
  <2>2. Flow'
    BY <1>1, <1>2, Grown, Fails
  <2> QED BY <1>1, <1>2, <2>1, <2>2, NothingWritten
<1>3. ASSUME NEW c \in Targets(r),
             ~(q # NoQuestion /\ ~Held(tStatus[q], tOwner[q], r)),
             conv' = [conv EXCEPT ![c] = IF @ = "absent" THEN "active" ELSE @],
             late' = IF conv[c] = "archived" THEN late \cup {c} ELSE late,
             IF q = NoQuestion
             THEN UNCHANGED <<turnVars, storeVars>>
             ELSE Store(q, c) /\ SettleTurn(q, "completed", c),
             Respond(r, "knowledge", c) \/ Failed(r)
      PROVE  IInv'
  <2>1. /\ c \in Convs
        /\ conv[c] # "absent" => rconv[r] = c
    BY DEF Targets, IInv, TypeOK
  <2>2. /\ conv' \in [Convs -> {"absent", "active", "archived"}]
        /\ conv'[c] # "absent"
        /\ \A d \in Convs : /\ conv[d] # "absent" => conv'[d] # "absent"
                            /\ conv'[d] = "archived" => conv[d] = "archived"
    BY <1>3, <2>1 DEF IInv, TypeOK
  <2>3. late' \subseteq raced
    <3>1. conv[c] = "archived" => c \in raced
      BY <1>1, <2>1, ChatAssumption DEF IInv, Overtaken
    <3> QED BY <1>3, <3>1 DEF IInv, LateTurnWasRaced
  <2>4. TurnTypes' /\ StoreTypes' /\ Stored' /\ Grows
        /\ (q = NoQuestion \/ q \in outbox')
    <3>1. CASE q = NoQuestion
      <4>1. UNCHANGED <<turnVars, storeVars>>
        BY <1>3, <3>1
      <4>2. TurnTypes'
        BY <4>1, TypesTogether, TurnsKept DEF IInv
      <4>3. StoreTypes'
        BY <1>1, <2>2, <4>1, TypesTogether DEF IInv, StoreTypes, storeVars
      <4>4. Stored'
        BY <2>2, <4>1 DEF IInv, Stored, turnVars, storeVars
      <4>5. Grows
        BY <2>2, <4>1 DEF Grows, turnVars, storeVars
      <4> QED BY <3>1, <4>2, <4>3, <4>4, <4>5
    <3>2. CASE q \in Questions
      <4>1. /\ tStatus[q] = "processing"
            /\ tStatus' = [tStatus EXCEPT ![q] = "completed"]
            /\ tOwner' = [tOwner EXCEPT ![q] = Nobody]
            /\ tLate' = [tLate EXCEPT ![q] = FALSE]
            /\ tConv' = [tConv EXCEPT ![q] = c]
            /\ kept' = [kept EXCEPT ![q] = kept[q] + 1]
            /\ places' = [places EXCEPT ![q] = places[q] \cup {c}]
            /\ outbox' = outbox \cup {q}
        BY <1>3, <3>2, ChatAssumption DEF Held, Store, SettleTurn
      <4>2. TurnTypes'
        <5>1. TurnTypes
          BY TypesTogether DEF IInv
        <5> QED BY <2>1, <3>2, <4>1, <5>1 DEF TurnTypes, ReceiptStatus
      <4>3. StoreTypes'
        BY <1>1, <2>1, <2>2, <3>2, <4>1 DEF IInv, TypeOK, StoreTypes
      <4>4. Stored'
        <5> SUFFICES ASSUME NEW p \in Questions
                     PROVE  IF tStatus'[p] = "completed"
                            THEN /\ kept'[p] = 1
                                 /\ tConv'[p] \in Convs
                                 /\ places'[p] = {tConv'[p]}
                                 /\ conv'[tConv'[p]] # "absent"
                                 /\ p \in outbox'
                            ELSE kept'[p] = 0 /\ places'[p] = {} /\ p \notin outbox'
          BY DEF Stored
        <5>1. CASE p = q
          <6>1. kept[q] = 0 /\ places[q] = {}
            BY <3>2, <4>1 DEF IInv, Stored
          <6> QED BY <2>1, <2>2, <3>2, <4>1, <5>1, <6>1 DEF IInv, TypeOK
        <5>2. CASE p # q
          <6>1. /\ tStatus'[p] = tStatus[p] /\ tConv'[p] = tConv[p]
                /\ kept'[p] = kept[p] /\ places'[p] = places[p]
                /\ p \in outbox' <=> p \in outbox
            BY <4>1, <5>2 DEF IInv, TypeOK
          <6> QED BY <2>2, <6>1 DEF IInv, Stored
        <5> QED BY <5>1, <5>2
      <4>5. Grows
        BY <2>2, <3>2, <4>1 DEF IInv, TypeOK, Grows
      <4> QED BY <4>1, <4>2, <4>3, <4>4, <4>5
    <3> QED BY <1>1, <3>1, <3>2
  <2>5. Flow'
    BY <1>1, <1>3, <2>1, <2>2, <2>4, Answers, Fails DEF Reply
  <2> QED BY <1>1, <2>3, <2>4, <2>5, RequestRest DEF IInv, TypeOK
<1>4. CASE q # NoQuestion /\ ~Held(tStatus[q], tOwner[q], r)
  BY <1>2, <1>4 DEF CommitTurn
<1>5. CASE ~(q # NoQuestion /\ ~Held(tStatus[q], tOwner[q], r))
  <2>1. PICK c \in Targets(r) :
           /\ conv' = [conv EXCEPT ![c] = IF @ = "absent" THEN "active" ELSE @]
           /\ late' = IF conv[c] = "archived" THEN late \cup {c} ELSE late
           /\ IF q = NoQuestion
              THEN UNCHANGED <<turnVars, storeVars>>
              ELSE Store(q, c) /\ SettleTurn(q, "completed", c)
           /\ Respond(r, "knowledge", c) \/ Failed(r)
    BY <1>5 DEF CommitTurn
  <2> QED BY <1>3, <1>5, <2>1
<1> QED BY <1>4, <1>5

LEMMA RequestStepKeeps ==
    ASSUME IInv, NEW r \in Requests, RequestStep(r)
    PROVE  IInv'
BY PlainRequestKeeps, ClaimTurnKeeps, ReplayKeeps, WebAskKeeps, LoadHistoryKeeps,
   CheckKeeps, CommitTurnKeeps, TimeoutKeeps, FailClaimKeeps DEF RequestStep

LEMMA HandlerStepKeeps ==
    ASSUME IInv, NEW h \in Handlers, HandlerStep(h)
    PROVE  IInv'
BY ClaimUpdateKeeps, PlainHandlerKeeps, PostKeeps, RememberKeeps, ReplyToKeeps,
   SettleUpdateKeeps DEF HandlerStep

-----------------------------------------------------------------------------
(* The environment.                                                        *)

LEMMA EnvironmentKeeps ==
    ASSUME IInv, Environment
    PROVE  IInv'
<1>1. CASE NewChat
  <2>1. /\ UNCHANGED <<updateVars, turnVars, conv, storeVars, handlerVars,
                       requestVars, historyVars>>
        /\ pointer' = NoConv
    BY <1>1 DEF NewChat
  <2>2. HandlerTypes' /\ UpdateTypes'
    BY <2>1, TypesTogether, HandlerTypesKept, UpdatesKept DEF IInv
  <2>3. HandlerFacts' /\ PointerIsCommitted'
    BY <2>1 DEF IInv, HandlerFacts, PointerIsCommitted, handlerVars, requestVars,
                storeVars
  <2>4. direct' = {} /\ UNCHANGED <<raced, late>>
    BY <2>1 DEF IInv, AnswersThroughOutbox, historyVars
  <2> QED BY <2>1, <2>2, <2>3, <2>4, HandlerRest
<1>2. ASSUME NEW c \in Convs, Archive(c)
      PROVE  IInv'
  <2>1. /\ conv[c] = "active" /\ conv' = [conv EXCEPT ![c] = "archived"]
        /\ raced' = IF \E r \in Requests : rpc[r] = "commit" /\ rconv[r] = c
                    THEN raced \cup {c} ELSE raced
        /\ UNCHANGED <<updateVars, turnVars, pointer, storeVars, handlerVars,
                       requestVars, direct, late>>
    BY <1>2 DEF Archive
  <2>2. /\ conv' \in [Convs -> {"absent", "active", "archived"}]
        /\ \A d \in Convs : /\ conv[d] # "absent" <=> conv'[d] # "absent"
                            /\ d # c => conv'[d] = conv[d]
    BY <2>1 DEF IInv, TypeOK
  <2>3. HandlerTypes' /\ RequestTypes' /\ TurnTypes'
    BY <2>1, TypesTogether, HandlerTypesKept, RequestTypesKept, TurnsKept DEF IInv
  <2>4. StoreTypes'
    BY <2>1, <2>2 DEF IInv, TypeOK, StoreTypes, storeVars
  <2>5. Stored'
    BY <2>1, <2>2 DEF IInv, Stored, turnVars, storeVars
  <2>6. HandlerFacts' /\ RequestFacts'
    BY <2>1 DEF IInv, HandlerFacts, RequestFacts, handlerVars, requestVars,
                storeVars, turnVars
  <2>7. PointerIsCommitted'
    BY <2>1, <2>2 DEF IInv, TypeOK, PointerIsCommitted, handlerVars, requestVars
  <2>8. Overtaken'
    <3> SUFFICES ASSUME NEW r \in Requests, rpc[r] = "commit", rconv[r] # NoConv,
                        conv'[rconv[r]] = "archived"
                 PROVE  rconv[r] \in raced'
      BY <2>1 DEF Overtaken, requestVars
    <3>1. CASE rconv[r] = c
      BY <2>1, <3>1
    <3>2. CASE rconv[r] # c
      <4>1. rconv[r] \in Convs
        BY DEF IInv, TypeOK
      <4>2. conv[rconv[r]] = "archived"
        BY <2>2, <3>2, <4>1
      <4> QED BY <2>1, <4>2 DEF IInv, Overtaken
    <3> QED BY <3>1, <3>2
  <2>9. raced \subseteq raced' /\ raced' \subseteq Convs /\ late' \subseteq raced'
    BY <2>1 DEF IInv, TypeOK, LateTurnWasRaced
  <2> QED BY <2>1, <2>3, <2>4, <2>5, <2>6, <2>7, <2>8, <2>9, RequestRest DEF Flow
<1>3. ASSUME NEW q \in Questions, LapseUpdate(q)
      PROVE  IInv'
  <2>1. /\ UNCHANGED <<turnVars, conv, pointer, storeVars, handlerVars,
                       requestVars, historyVars>>
        /\ UNCHANGED <<uStatus, uOwner>>
        /\ uStatus[q] = "processing" /\ uLate' = [uLate EXCEPT ![q] = TRUE]
    BY <1>3 DEF LapseUpdate
  <2>2. UpdateTypes'
    BY <2>1 DEF IInv, TypeOK, ReceiptShape, UpdateTypes
  <2>3. HandlerTypes'
    BY <2>1, TypesTogether, HandlerTypesKept DEF IInv
  <2>4. HandlerFacts' /\ PointerIsCommitted'
    BY <2>1 DEF IInv, HandlerFacts, PointerIsCommitted, handlerVars, requestVars,
                storeVars
  <2>5. pointer' \in Convs \cup {NoConv} /\ direct' = {} /\ UNCHANGED <<raced, late>>
    BY <2>1 DEF IInv, TypeOK, AnswersThroughOutbox, historyVars
  <2> QED BY <2>1, <2>2, <2>3, <2>4, <2>5, HandlerRest
<1>4. ASSUME NEW q \in Questions, LapseTurn(q)
      PROVE  IInv'
  <2>1. /\ UNCHANGED <<updateVars, conv, pointer, storeVars, handlerVars,
                       requestVars, historyVars>>
        /\ UNCHANGED <<tStatus, tOwner, tConv>>
        /\ tStatus[q] = "processing" /\ tLate' = [tLate EXCEPT ![q] = TRUE]
    BY <1>4 DEF LapseTurn
  <2>2. TurnTypes'
    BY <2>1 DEF IInv, TypeOK, ReceiptShape, TurnTypes
  <2>3. HandlerTypes' /\ RequestTypes' /\ StoreTypes'
    BY <2>1, TypesTogether, HandlerTypesKept, RequestTypesKept, StoresKept DEF IInv
  <2>4. Stored'
    BY <2>1 DEF IInv, Stored, storeVars
  <2>5. HandlerFacts' /\ PointerIsCommitted' /\ RequestFacts' /\ Overtaken'
    BY <2>1 DEF IInv, HandlerFacts, PointerIsCommitted, RequestFacts, Overtaken,
                handlerVars, requestVars, storeVars, historyVars
  <2>6. direct' = direct /\ raced' = raced /\ late' = late
    BY <2>1 DEF historyVars
  <2> QED BY <2>1, <2>2, <2>3, <2>4, <2>5, <2>6, RequestRest
          DEF Flow, IInv, TypeOK, LateTurnWasRaced
<1> QED BY <1>1, <1>2, <1>3, <1>4 DEF Environment

-----------------------------------------------------------------------------
(* The theorems.                                                           *)

LEMMA InitIInv == Init => IInv
<1> SUFFICES ASSUME Init PROVE IInv
  OBVIOUS
<1> USE DEF Init
<1>1. TypeOK
  BY DEF TypeOK, ReceiptShape, ReceiptStatus, HandlerPoint, RequestPoint, Reply
<1>2. Stored /\ HandlerFacts /\ RequestFacts
  BY DEF Stored, HandlerFacts, RequestFacts
<1>3. PointerIsCommitted /\ AnswersThroughOutbox /\ LateTurnWasRaced /\ Overtaken
  BY DEF PointerIsCommitted, AnswersThroughOutbox, LateTurnWasRaced, Overtaken
<1> QED BY <1>1, <1>2, <1>3 DEF IInv

LEMMA StutterKeeps == IInv /\ UNCHANGED vars => IInv'
<1> SUFFICES ASSUME IInv, UNCHANGED vars PROVE IInv'
  OBVIOUS
<1>1. UNCHANGED <<updateVars, turnVars, conv, pointer, storeVars, handlerVars,
                  requestVars, historyVars>>
  BY DEF vars
<1>2. HandlerTypes' /\ UpdateTypes'
  BY <1>1, TypesTogether, HandlerTypesKept, UpdatesKept DEF IInv
<1>3. HandlerFacts' /\ PointerIsCommitted'
  BY <1>1 DEF IInv, HandlerFacts, PointerIsCommitted, handlerVars, requestVars,
              storeVars
<1>4. pointer' \in Convs \cup {NoConv} /\ direct' = {} /\ UNCHANGED <<raced, late>>
  BY <1>1 DEF IInv, TypeOK, AnswersThroughOutbox, historyVars
<1> QED BY <1>1, <1>2, <1>3, <1>4, HandlerRest

\* The inductive invariant holds in every reachable state.
THEOREM ChatInvariant == Spec => []IInv
<1>1. IInv /\ [Next]_vars => IInv'
  BY HandlerStepKeeps, RequestStepKeeps, EnvironmentKeeps, StutterKeeps DEF Next
<1> QED BY <1>1, InitIInv, PTL DEF Spec

\* Every variable keeps its type, and only a receipt in processing has an
\* owner and a lease (app/db/models/idempotency_receipt.py).
THEOREM ChatTypeOK == Spec => []TypeOK
<1>1. IInv => TypeOK
  BY DEF IInv
<1> QED BY <1>1, ChatInvariant, PTL

\* No handler ever sends a knowledge answer itself beside the outbox.
THEOREM ChatAnswersThroughOutbox == Spec => []AnswersThroughOutbox
<1>1. IInv => AnswersThroughOutbox
  BY DEF IInv
<1> QED BY <1>1, ChatInvariant, PTL

\* Nobody names a conversation that was not committed.
THEOREM ChatPointerIsCommitted == Spec => []PointerIsCommitted
<1>1. IInv => PointerIsCommitted
  BY DEF IInv
<1> QED BY <1>1, ChatInvariant, PTL

\* A turn reaches an archived conversation only when the archival overtook it
\* between complete_turn's check and its commit.
THEOREM ChatLateTurnWasRaced == Spec => []LateTurnWasRaced
<1>1. IInv => LateTurnWasRaced
  BY DEF IInv
<1> QED BY <1>1, ChatInvariant, PTL

-----------------------------------------------------------------------------
(* ChatTurn implements OneTurn: only a commit of a keyed turn is visible.  *)

Completed == {q \in Questions : tStatus[q] = "completed"}

LEMMA SameFate == UNCHANGED <<turnVars, storeVars>> => UNCHANGED Promise!vars
BY DEF turnVars, storeVars, Promise!vars

LEMMA OtherFate ==
    ASSUME TypeOK, NEW q \in Questions, NEW s \in ReceiptStatus \ {"completed"},
           tStatus[q] # "completed", tStatus' = [tStatus EXCEPT ![q] = s],
           UNCHANGED storeVars
    PROVE  UNCHANGED Promise!vars
<1>1. Completed' = Completed
  BY DEF TypeOK, Completed
<1> QED BY <1>1 DEF Completed, storeVars, Promise!vars

LEMMA CommitIsAnswer ==
    ASSUME IInv, NEW r \in Requests, CommitTurn(r)
    PROVE  Promise!Next \/ UNCHANGED Promise!vars
<1> DEFINE q == rq[r]
<1>1. CASE UNCHANGED <<turnVars, storeVars>>
  BY <1>1, SameFate
<1>2. CASE ~UNCHANGED <<turnVars, storeVars>>
  <2>1. PICK c \in Targets(r) : Store(q, c) /\ SettleTurn(q, "completed", c)
    BY <1>2 DEF CommitTurn
  <2>2. q # NoQuestion /\ Held(tStatus[q], tOwner[q], r)
    BY <1>2 DEF CommitTurn
  <2>3. q \in Questions /\ c \in Convs /\ tStatus[q] # "completed"
    BY <2>2 DEF IInv, TypeOK, Targets, Held
  <2>4. kept[q] = 0 /\ places[q] = {}
    BY <2>3 DEF IInv, Stored
  <2>5. /\ kept' = [kept EXCEPT ![q] = 1]
        /\ places' = [places EXCEPT ![q] = {c}]
        /\ outbox' = outbox \cup {q}
        /\ tStatus' = [tStatus EXCEPT ![q] = "completed"]
    BY <2>1, <2>3, <2>4 DEF Store, SettleTurn, IInv, TypeOK
  <2>6. Completed' = Completed \cup {q}
    BY <2>3, <2>5 DEF IInv, TypeOK, Completed
  <2>7. Promise!Answer(q, c)
    BY <2>3, <2>5, <2>6 DEF Completed, Promise!Answer
  <2> QED BY <2>3, <2>7 DEF Promise!Next
<1> QED BY <1>1, <1>2

LEMMA RequestFate ==
    ASSUME IInv, NEW r \in Requests, RequestStep(r)
    PROVE  Promise!Next \/ UNCHANGED Promise!vars
<1>1. CASE UNCHANGED <<turnVars, storeVars>>
  BY <1>1, SameFate
<1>2. CASE CommitTurn(r)
  BY <1>2, CommitIsAnswer
<1>3. CASE ClaimTurn(r)
  <2>1. rq[r] \in Questions /\ UNCHANGED storeVars
    BY <1>3 DEF ClaimTurn, IInv, RequestFacts
  <2>2. CASE UNCHANGED turnVars
    BY <2>1, <2>2, SameFate
  <2>3. CASE ~UNCHANGED turnVars
    <3>1. /\ Reclaimable(tStatus[rq[r]], tLate[rq[r]])
          /\ tStatus' = [tStatus EXCEPT ![rq[r]] = "processing"]
      BY <1>3, <2>3 DEF ClaimTurn
    <3> QED BY <2>1, <3>1, OtherFate DEF IInv, Reclaimable, ReceiptStatus
  <2> QED BY <2>2, <2>3
<1>4. CASE Replay(r)
  <2>1. rq[r] \in outbox
    BY <1>4 DEF Replay, IInv, RequestFacts, Stored
  <2>2. UNCHANGED <<turnVars, storeVars>>
    BY <1>4, <2>1 DEF Replay, storeVars
  <2> QED BY <2>2, SameFate
<1>5. CASE FailClaim(r)
  <2>1. rq[r] \in Questions /\ UNCHANGED storeVars
    BY <1>5 DEF FailClaim, IInv, RequestFacts
  <2>2. CASE UNCHANGED turnVars
    BY <2>1, <2>2, SameFate
  <2>3. CASE ~UNCHANGED turnVars
    <3>1. /\ tStatus[rq[r]] = "processing"
          /\ tStatus' = [tStatus EXCEPT ![rq[r]] = "failed"]
      BY <1>5, <2>3 DEF FailClaim, Held, SettleTurn
    <3> QED BY <2>1, <3>1, OtherFate DEF IInv, ReceiptStatus
  <2> QED BY <2>2, <2>3
<1>6. \/ UNCHANGED <<turnVars, storeVars>>
      \/ CommitTurn(r) \/ ClaimTurn(r) \/ Replay(r) \/ FailClaim(r)
  BY DEF RequestStep, AnswerWithoutTurn, LoseRequest, WebAsk, LoadHistory, Check,
         Timeout
<1> QED BY <1>1, <1>2, <1>3, <1>4, <1>5, <1>6

LEMMA HandlerFate ==
    ASSUME NEW h \in Handlers, HandlerStep(h)
    PROVE  UNCHANGED Promise!vars
<1>1. UNCHANGED <<turnVars, storeVars>>
  BY DEF HandlerStep, ClaimUpdate, Refuse, Post, StopWaiting, Remember, ReplyTo,
         CompleteUpdate, FailUpdate, SettleUpdate, LoseHandler
<1> QED BY <1>1, SameFate

LEMMA EnvironmentFate ==
    ASSUME IInv, Environment
    PROVE  UNCHANGED Promise!vars
<1>1. UNCHANGED <<tStatus, storeVars>>
  BY DEF Environment, NewChat, Archive, LapseUpdate, LapseTurn, turnVars
<1> QED BY <1>1 DEF storeVars, Promise!vars

\* Whatever is redelivered, reclaimed, timed out, lost or replayed, a question
\* is answered at most once, in one step with its turn and its outbox row.
THEOREM ChatKeepsPromise == Spec => KeepsPromise
<1>1. Init => Promise!Init
  BY DEF Init, Promise!Init
<1>2. IInv /\ [Next]_vars => [Promise!Next]_(Promise!vars)
  <2> SUFFICES ASSUME IInv, [Next]_vars
               PROVE  Promise!Next \/ UNCHANGED Promise!vars
    OBVIOUS
  <2>1. CASE UNCHANGED vars
    <3>1. UNCHANGED <<turnVars, storeVars>>
      BY <2>1 DEF vars
    <3> QED BY <3>1, SameFate
  <2>2. CASE Next
    BY <2>2, RequestFate, HandlerFate, EnvironmentFate DEF Next
  <2> QED BY <2>1, <2>2
<1> QED BY <1>1, <1>2, ChatInvariant, PTL DEF Spec, KeepsPromise, Promise!Spec
=============================================================================
