--------------------------- MODULE OutboundProofs ---------------------------
(***************************************************************************)
(* Machine-checked proofs about Outbound, for every set of messages,       *)
(* executors and tokens and every MaxAttempts and BatchLimit.              *)
(***************************************************************************)
EXTENDS Outbound, TLAPS

\* What an executor carries matches where it is.
WorkerShape ==
    \A w \in Workers :
        /\ tok[w] = NoToken => /\ pc[w] = "idle"
                               /\ batch[w] = {}
        /\ pc[w] = "idle" => tok[w] = NoToken
        /\ pc[w] \in {"allow", "send", "ack"} => cur[w] \in Delivery

\* A row is owned exactly while it is being sent.
RowShape ==
    \A m \in Messages :
        /\ owner[m] \in Tokens <=> status[m] = "sending"
        /\ status[m] \in {"sending", "sent", "failed"} => attempts[m] \in Attempts
        /\ status[m] = "absent" => attempts[m] = 0
        /\ status[m] = "pending" => attempts[m] < MaxAttempts

\* The claims an executor holds and has not sent yet.
Unsent(w) == batch[w] \cup (IF pc[w] \in {"allow", "send"} THEN {cur[w]} ELSE {})

\* An unsent claim is of an opened attempt that put nothing in the chat; it is
\* the row's newest one as long as the token matches, and a token that no
\* longer matches is only explained by a lease that ran out.
ClaimFacts ==
    \A w \in Workers : \A d \in Unsent(w) :
        /\ d.attempt <= attempts[d.msg]
        /\ copies[d.msg][d.attempt] = 0
        /\ owner[d.msg] = tok[w] => attempts[d.msg] = d.attempt
        /\ owner[d.msg] = tok[w] \/ excused[d.msg]

\* No attempt is held unsent by two executors, or twice by one.
ClaimsDistinct ==
    /\ \A w \in Workers : \A d \in batch[w] :
            pc[w] \in {"allow", "send"} => d # cur[w]
    /\ \A v, w \in Workers : v # w => Unsent(v) \cap Unsent(w) = {}

\* A call under way speaks for an attempt that was sent, or refused, once;
\* as long as its token matches, what it read is still so.
CallFacts ==
    \A c \in calls :
        /\ c.attempt <= attempts[c.msg]
        /\ owner[c.msg] = c.tok => attempts[c.msg] = c.attempt
        /\ c.verdict = "sent" => copies[c.msg][c.attempt] = 1
        /\ c.verdict = "retry" /\ copies[c.msg][c.attempt] > 0 => excused[c.msg]
        /\ c.phase = "read" => c.verdict # "sent"
        /\ c.phase = "read" /\ owner[c.msg] = c.tok => c.seen = attempts[c.msg]
        /\ \A w \in Workers : [msg |-> c.msg, attempt |-> c.attempt] \notin Unsent(w)

\* Every reason for a further attempt after a landed copy is excused.
ExcuseFacts ==
    \A m \in Messages :
        /\ status[m] = "sending" /\ ripe[m] => excused[m]
        /\ \A a \in Attempts :
            copies[m][a] > 0 /\ (a < attempts[m] \/ status[m] = "pending") => excused[m]

\* Once the assignment is closed, only an older claim can be past the check.
GateFacts ==
    \A w \in Workers :
        pc[w] = "send" /\ cur[w].msg \in Gated /\ closed[cur[w].msg]
            => cur[w].attempt <= lastOpen[cur[w].msg]

IInv ==
    /\ TypeOK
    /\ WorkerShape
    /\ RowShape
    /\ ClaimFacts
    /\ ClaimsDistinct
    /\ CallFacts
    /\ ExcuseFacts
    /\ GateFacts
    /\ OneCopyPerAttempt
    /\ SentByLatestAttempt
    /\ ClosedStaysSilent

-----------------------------------------------------------------------------
(* Each action preserves the inductive invariant: one lemma per action, or *)
(* per kind of change several actions make.                                *)

\* Inserting the row of a new source: nobody holds an attempt of it yet.
LEMMA EnqueueStep ==
    ASSUME IInv, NEW m \in Messages, Enqueue(m)
    PROVE  IInv'
<1> USE OutboundAssumption
    DEF IInv, Enqueue, rowVars, workerVars, gateVars, chatVars, Attempts, TypeOK
<1>1. TypeOK' /\ WorkerShape' /\ ClaimsDistinct' /\ GateFacts'
  BY DEF Statuses, WorkerShape, ClaimsDistinct, Unsent, GateFacts
<1>2. RowShape' /\ SentByLatestAttempt'
  BY DEF RowShape, SentByLatestAttempt
<1>3a. ClaimFacts'
  BY DEF ClaimFacts, Unsent
<1>3b. CallFacts'
  BY DEF CallFacts, Unsent
<1>4. ExcuseFacts'
  <2>1. attempts[m] = 0 /\ \A a \in Attempts : copies[m][a] = 0
    BY DEF RowShape, OneCopyPerAttempt
  <2>2. \A n \in Messages : n # m => status'[n] = status[n] /\ ripe'[n] = ripe[n]
    OBVIOUS
  <2>3. status'[m] = "pending"
    OBVIOUS
  <2> QED BY <2>1, <2>2, <2>3 DEF ExcuseFacts
<1>5. OneCopyPerAttempt' /\ ClosedStaysSilent'
  BY DEF OneCopyPerAttempt, ClosedStaysSilent
<1> QED BY <1>1, <1>2, <1>3a, <1>3b, <1>4, <1>5

\* A back-off or a lease runs out; for a sending row that excuses a duplicate.
LEMMA RipenStep ==
    ASSUME IInv, NEW m \in Messages, Ripen(m)
    PROVE  IInv'
<1> USE OutboundAssumption
    DEF IInv, Ripen, rowVars, workerVars, gateVars, chatVars, Attempts, TypeOK
<1>1. TypeOK' /\ WorkerShape' /\ RowShape' /\ ClaimsDistinct' /\ GateFacts'
  BY DEF WorkerShape, RowShape, ClaimsDistinct, Unsent, GateFacts
<1>2. excused' \in [Messages -> BOOLEAN] /\ \A n \in Messages : excused[n] => excused'[n]
  OBVIOUS
<1>3. ClaimFacts'
  <2>1. \A v \in Workers : Unsent(v)' = Unsent(v)
    BY DEF Unsent
  <2>2. \A v \in Workers : \A d \in Unsent(v) : d.msg \in Messages
    BY DEF Unsent, WorkerShape, Delivery
  <2>3. UNCHANGED <<attempts, copies, owner, tok>>
    OBVIOUS
  <2>4. ClaimFacts
    OBVIOUS
  <2> HIDE DEF IInv, Ripen, TypeOK
  <2> QED BY <1>2, <2>1, <2>2, <2>3, <2>4 DEF ClaimFacts
<1>4. CallFacts'
  BY <1>2 DEF CallFacts, Unsent, Call
<1>5. ExcuseFacts'
  BY <1>2 DEF ExcuseFacts
<1>6. OneCopyPerAttempt' /\ SentByLatestAttempt' /\ ClosedStaysSilent'
  BY DEF OneCopyPerAttempt, SentByLatestAttempt, ClosedStaysSilent
<1> QED BY <1>1, <1>3, <1>4, <1>5, <1>6

\* The assignment closes: whoever is past the check claimed an attempt before.
LEMMA CloseAssignmentStep ==
    ASSUME IInv, NEW m \in Messages, CloseAssignment(m)
    PROVE  IInv'
<1> USE OutboundAssumption
    DEF IInv, CloseAssignment, rowVars, workerVars, gateVars, chatVars, Attempts, TypeOK
<1>1. TypeOK' /\ WorkerShape' /\ RowShape' /\ ClaimFacts' /\ ClaimsDistinct' /\ CallFacts'
  BY DEF WorkerShape, RowShape, ClaimFacts, ClaimsDistinct, CallFacts, Unsent
<1>2. ExcuseFacts' /\ OneCopyPerAttempt' /\ SentByLatestAttempt'
  BY DEF ExcuseFacts, OneCopyPerAttempt, SentByLatestAttempt
<1>3. GateFacts'
  <2> SUFFICES ASSUME NEW w \in Workers, pc[w] = "send"
               PROVE  cur[w].msg = m => cur[w].attempt <= attempts[m]
    BY DEF GateFacts
  <2> QED BY DEF ClaimFacts, Unsent
<1>4. ClosedStaysSilent'
  BY DEF ClosedStaysSilent, OneCopyPerAttempt
<1> QED BY <1>1, <1>2, <1>3, <1>4

\* A claim transaction opens a new attempt of every claimed row under a token
\* nothing else carries, and gives up the rows whose attempts are used up.
LEMMA ClaimStep ==
    ASSUME IInv, NEW w \in Workers, pc[w] = "idle",
           \E t \in Tokens : FreshToken(t),
           NEW ms \in SUBSET {m \in Messages : Claimable(m)},
           ClaimRows(ms, NewToken), Receive(w, ms, NewToken),
           UNCHANGED <<calls, gateVars, chatVars>>
    PROVE  IInv'
<1> USE OutboundAssumption DEF IInv, gateVars, chatVars, Attempts
<1> DEFINE t == NewToken
<1>1. t \in Tokens /\ FreshToken(t)
  BY DEF NewToken
<1> HIDE DEF t
<1>2. /\ status' = [m \in Messages |-> IF m \in ms THEN "sending"
                                       ELSE IF Exhausted(m) THEN "failed" ELSE status[m]]
      /\ owner' = [m \in Messages |-> IF m \in ms THEN t
                                      ELSE IF Exhausted(m) THEN NoToken ELSE owner[m]]
      /\ attempts' = [m \in Messages |-> IF m \in ms THEN attempts[m] + 1 ELSE attempts[m]]
      /\ ripe' = [m \in Messages |-> ripe[m] /\ m \notin ms /\ ~Exhausted(m)]
  BY DEF ClaimRows, t
<1>3. \A m \in ms : m \in Messages /\ attempts[m] < MaxAttempts /\ ripe[m]
                        /\ status[m] \in {"pending", "sending"}
  BY DEF Claimable
<1>4. \A m \in Messages : Exhausted(m) =>
            status[m] = "sending" /\ ripe[m] /\ attempts[m] >= MaxAttempts
  BY DEF Exhausted
<1>5. \/ /\ pc' = [pc EXCEPT ![w] = "loop"] /\ tok' = [tok EXCEPT ![w] = t] /\ cur' = cur
         /\ batch' = [batch EXCEPT ![w] =
                          {[msg |-> m, attempt |-> attempts[m] + 1] : m \in ms}]
      \/ UNCHANGED workerVars
  BY DEF Receive, t
<1>6. /\ \A m \in Messages : owner[m] # t
      /\ \A v \in Workers : tok[v] # t
      /\ \A c \in calls : c.tok # t
  BY <1>1 DEF FreshToken
<1>7. \A m \in Messages : attempts'[m] \in 0..MaxAttempts /\ attempts'[m] >= attempts[m]
  BY <1>2, <1>3 DEF TypeOK
<1>8. TypeOK'
  <2>1. /\ status' \in [Messages -> Statuses]
        /\ attempts' \in [Messages -> 0..MaxAttempts]
        /\ owner' \in [Messages -> Tokens \cup {NoToken}]
        /\ ripe' \in [Messages -> BOOLEAN]
    BY <1>1, <1>2, <1>3 DEF TypeOK, Statuses
  <2>2. {[msg |-> m, attempt |-> attempts[m] + 1] : m \in ms} \subseteq Delivery
    BY <1>3 DEF TypeOK, Delivery
  <2>3. /\ pc' \in [Workers -> {"idle", "loop", "allow", "send", "ack"}]
        /\ tok' \in [Workers -> Tokens \cup {NoToken}]
        /\ batch' \in [Workers -> SUBSET Delivery]
        /\ cur' \in [Workers -> Delivery \cup {NoDelivery}]
    <3>1. TypeOK /\ t \in Tokens
      BY <1>1
    <3> HIDE DEF IInv
    <3>2. CASE UNCHANGED workerVars
      BY <3>1, <3>2 DEF TypeOK, workerVars
    <3>3. CASE ~UNCHANGED workerVars
      <4>1. pc' = [pc EXCEPT ![w] = "loop"] /\ tok' = [tok EXCEPT ![w] = t] /\ cur' = cur
        BY <1>5, <3>3
      <4>2. batch' = [batch EXCEPT ![w] = {[msg |-> m, attempt |-> attempts[m] + 1] : m \in ms}]
        BY <1>5, <3>3
      <4>3. batch' \in [Workers -> SUBSET Delivery]
        BY <2>2, <3>1, <4>2 DEF TypeOK
      <4>4. /\ pc' \in [Workers -> {"idle", "loop", "allow", "send", "ack"}]
            /\ tok' \in [Workers -> Tokens \cup {NoToken}]
            /\ cur' \in [Workers -> Delivery \cup {NoDelivery}]
        BY <3>1, <4>1 DEF TypeOK
      <4> QED BY <4>3, <4>4
    <3> QED BY <3>2, <3>3
  <2> QED BY <2>1, <2>3 DEF TypeOK
<1>9. WorkerShape'
  BY <1>1, <1>5 DEF WorkerShape, TypeOK, workerVars
<1>10. RowShape'
  BY <1>1, <1>2, <1>3, <1>4 DEF RowShape, TypeOK
<1>11. \A v \in Workers : \A d \in Unsent(v)' :
            \/ d \in Unsent(v) /\ tok'[v] = tok[v]
            \/ v = w /\ tok'[v] = t /\ \E m \in ms : d = [msg |-> m, attempt |-> attempts[m] + 1]
  BY <1>5 DEF Unsent, TypeOK, workerVars
<1>12. \A v \in Workers : \A d \in Unsent(v) : d \in Delivery /\ tok[v] \in Tokens
  BY DEF Unsent, WorkerShape, TypeOK
<1>13. ClaimFacts'
  <2> SUFFICES ASSUME NEW v \in Workers, NEW d \in Unsent(v)'
               PROVE  /\ d.attempt <= attempts'[d.msg]
                      /\ copies[d.msg][d.attempt] = 0
                      /\ owner'[d.msg] = tok'[v] => attempts'[d.msg] = d.attempt
                      /\ owner'[d.msg] = tok'[v] \/ excused[d.msg]
    BY DEF ClaimFacts
  <2>1. CASE d \in Unsent(v) /\ tok'[v] = tok[v]
    <3>1. /\ d.msg \in Messages /\ d.attempt \in 1..MaxAttempts /\ tok[v] \in Tokens
          /\ d.attempt <= attempts[d.msg]
          /\ copies[d.msg][d.attempt] = 0
          /\ owner[d.msg] = tok[v] => attempts[d.msg] = d.attempt
          /\ owner[d.msg] = tok[v] \/ excused[d.msg]
      BY <2>1, <1>12 DEF ClaimFacts, Delivery
    <3>2. attempts[d.msg] \in 0..MaxAttempts /\ attempts'[d.msg] \in 0..MaxAttempts
      BY <3>1, <1>7 DEF TypeOK
    <3>3. CASE d.msg \in ms
      <4>1. owner'[d.msg] = t /\ t # tok[v]
        BY <3>1, <3>3, <1>2, <1>6
      <4>2. excused[d.msg]
        <5>1. status[d.msg] = "sending" => excused[d.msg]
          BY <3>1, <3>3, <1>3 DEF ExcuseFacts
        <5>2. status[d.msg] = "pending" => owner[d.msg] # tok[v]
          BY <3>1 DEF RowShape
        <5> QED BY <5>1, <5>2, <3>1, <3>3, <1>3
      <4> QED BY <4>1, <4>2, <3>1, <3>2, <2>1, <1>7
    <3>4. CASE d.msg \notin ms
      <4>1. attempts'[d.msg] = attempts[d.msg]
        BY <3>1, <3>4, <1>2
      <4>2. CASE Exhausted(d.msg)
        <5>1. owner'[d.msg] = NoToken /\ excused[d.msg]
          BY <3>1, <3>4, <4>2, <1>2, <1>4 DEF ExcuseFacts
        <5> QED BY <5>1, <4>1, <3>1, <2>1
      <4>3. CASE ~Exhausted(d.msg)
        <5>1. owner'[d.msg] = owner[d.msg]
          BY <3>1, <3>4, <4>3, <1>2
        <5> QED BY <5>1, <4>1, <3>1, <2>1
      <4> QED BY <4>2, <4>3
    <3> QED BY <3>3, <3>4
  <2>2. CASE v = w /\ tok'[v] = t /\ \E m \in ms : d = [msg |-> m, attempt |-> attempts[m] + 1]
    <3>1. PICK m \in ms : d = [msg |-> m, attempt |-> attempts[m] + 1]
      BY <2>2
    <3>2. m \in Messages /\ attempts[m] \in 0..MaxAttempts /\ attempts[m] < MaxAttempts
      BY <1>3 DEF TypeOK
    <3>3. attempts'[m] = attempts[m] + 1 /\ owner'[m] = t
      BY <3>2, <1>2
    <3>4. copies[m][attempts[m] + 1] = 0
      BY <3>2 DEF OneCopyPerAttempt
    <3> QED BY <3>1, <3>2, <3>3, <3>4, <2>2
  <2> QED BY <2>1, <2>2, <1>11
<1>14. ClaimsDistinct'
  <2>1. \A v \in Workers : \A d \in Unsent(v), m \in ms :
            d # [msg |-> m, attempt |-> attempts[m] + 1]
    BY <1>3, <1>12 DEF ClaimFacts, TypeOK, Delivery
  <2>2. \A v \in Workers : \A d \in batch'[v] :
            pc'[v] \in {"allow", "send"} => d # cur'[v]
    BY <1>5 DEF ClaimsDistinct, TypeOK, workerVars
  <2>3. \A u, v \in Workers : u # v => Unsent(u)' \cap Unsent(v)' = {}
    BY <1>11, <2>1 DEF ClaimsDistinct
  <2> QED BY <2>2, <2>3 DEF ClaimsDistinct
<1>15. CallFacts'
  <2> SUFFICES ASSUME NEW c \in calls
               PROVE  /\ c.attempt <= attempts'[c.msg]
                      /\ owner'[c.msg] = c.tok => attempts'[c.msg] = c.attempt
                      /\ c.verdict = "sent" => copies[c.msg][c.attempt] = 1
                      /\ c.verdict = "retry" /\ copies[c.msg][c.attempt] > 0 => excused[c.msg]
                      /\ c.phase = "read" => c.verdict # "sent"
                      /\ c.phase = "read" /\ owner'[c.msg] = c.tok => c.seen = attempts'[c.msg]
                      /\ \A v \in Workers :
                            [msg |-> c.msg, attempt |-> c.attempt] \notin Unsent(v)'
    BY DEF CallFacts
  <2>1. /\ c.msg \in Messages /\ c.tok \in Tokens /\ c.tok # t /\ c.tok # NoToken
        /\ c.attempt \in 1..MaxAttempts
    BY <1>6 DEF TypeOK, Call
  <2>2. /\ c.attempt <= attempts[c.msg]
        /\ owner[c.msg] = c.tok => attempts[c.msg] = c.attempt
        /\ c.verdict = "sent" => copies[c.msg][c.attempt] = 1
        /\ c.verdict = "retry" /\ copies[c.msg][c.attempt] > 0 => excused[c.msg]
        /\ c.phase = "read" => c.verdict # "sent"
        /\ c.phase = "read" /\ owner[c.msg] = c.tok => c.seen = attempts[c.msg]
        /\ \A v \in Workers : [msg |-> c.msg, attempt |-> c.attempt] \notin Unsent(v)
    BY DEF CallFacts
  <2>3. owner'[c.msg] = c.tok =>
            owner[c.msg] = c.tok /\ attempts'[c.msg] = attempts[c.msg]
    BY <2>1, <1>2
  <2>4. c.attempt <= attempts'[c.msg]
    BY <2>1, <2>2, <1>7 DEF TypeOK
  <2>5. \A m \in ms :
            [msg |-> c.msg, attempt |-> c.attempt] # [msg |-> m, attempt |-> attempts[m] + 1]
    BY <2>1, <2>2, <1>3 DEF TypeOK
  <2>6. \A v \in Workers : [msg |-> c.msg, attempt |-> c.attempt] \notin Unsent(v)'
    BY <2>2, <2>5, <1>11
  <2> QED BY <2>2, <2>3, <2>4, <2>6
<1>16. ExcuseFacts'
  <2> SUFFICES ASSUME NEW m \in Messages
               PROVE  /\ status'[m] = "sending" /\ ripe'[m] => excused[m]
                      /\ \A a \in Attempts : copies[m][a] > 0
                            /\ (a < attempts'[m] \/ status'[m] = "pending") => excused[m]
    BY DEF ExcuseFacts
  <2>1. CASE m \notin ms
    BY <2>1, <1>2 DEF ExcuseFacts
  <2>2. CASE m \in ms
    <3>1. ~ripe'[m] /\ status'[m] = "sending" /\ attempts'[m] = attempts[m] + 1
      BY <2>2, <1>2
    <3>2. ASSUME NEW a \in Attempts, copies[m][a] > 0
          PROVE  excused[m]
      <4>1. a \in Nat /\ attempts[m] \in Nat /\ copies[m][a] \in Nat
        BY DEF TypeOK
      <4>2. a <= attempts[m]
        BY <4>1, <3>2 DEF OneCopyPerAttempt
      <4> QED BY <4>1, <4>2, <3>2, <2>2, <1>3 DEF ExcuseFacts
    <3> QED BY <3>1, <3>2
  <2> QED BY <2>1, <2>2
<1>17. GateFacts'
  BY <1>5 DEF GateFacts, TypeOK, workerVars
<1>18. OneCopyPerAttempt' /\ SentByLatestAttempt' /\ ClosedStaysSilent'
  BY <1>2, <1>3, <1>7 DEF OneCopyPerAttempt, SentByLatestAttempt, ClosedStaysSilent, TypeOK
<1> QED BY <1>8, <1>9, <1>10, <1>13, <1>14, <1>15, <1>16, <1>17, <1>18

\* A step that touches neither rows nor chat, and only forgets claims and calls.
LEMMA QuietStep ==
    ASSUME IInv, TypeOK', WorkerShape', GateFacts',
           UNCHANGED <<rowVars, gateVars, chatVars>>,
           calls' \subseteq calls,
           \A w \in Workers : \A d \in Unsent(w)' : d \in Unsent(w) /\ tok'[w] = tok[w],
           \A w \in Workers : \A d \in batch'[w] :
                pc'[w] \in {"allow", "send"} => d # cur'[w]
    PROVE  IInv'
<1> USE DEF IInv, rowVars, gateVars, chatVars
<1>1. RowShape' /\ ExcuseFacts'
  BY DEF RowShape, ExcuseFacts
<1>2. OneCopyPerAttempt' /\ SentByLatestAttempt' /\ ClosedStaysSilent'
  BY DEF OneCopyPerAttempt, SentByLatestAttempt, ClosedStaysSilent
<1>3. ClaimFacts'
  BY DEF ClaimFacts
<1>4. ClaimsDistinct'
  BY DEF ClaimsDistinct
<1>5. CallFacts'
  BY DEF CallFacts
<1> QED BY <1>1, <1>2, <1>3, <1>4, <1>5

\* Taking the next delivery of a batch moves one unsent claim into the hand;
\* at the end of the batch nothing is held.
LEMMA BeginStep ==
    ASSUME IInv, NEW w \in Workers, Begin(w)
    PROVE  IInv'
<1>1. CASE /\ batch[w] = {}
           /\ pc' = [pc EXCEPT ![w] = "idle"]
           /\ tok' = [tok EXCEPT ![w] = NoToken]
           /\ UNCHANGED <<batch, cur>>
  <2>1. UNCHANGED <<rowVars, calls, gateVars, chatVars>> /\ pc[w] = "loop"
    BY DEF Begin
  <2>2. TypeOK' /\ WorkerShape' /\ GateFacts'
    BY <1>1, <2>1 DEF IInv, TypeOK, WorkerShape, GateFacts, rowVars, gateVars, chatVars
  <2>3. \A v \in Workers : \A d \in Unsent(v)' : d \in Unsent(v) /\ tok'[v] = tok[v]
    BY <1>1, <2>1 DEF IInv, TypeOK, Unsent
  <2>4. \A v \in Workers : \A d \in batch'[v] :
            pc'[v] \in {"allow", "send"} => d # cur'[v]
    BY <1>1 DEF IInv, TypeOK, ClaimsDistinct
  <2> QED BY <2>1, <2>2, <2>3, <2>4, QuietStep
<1>2. ASSUME NEW d \in batch[w],
             cur' = [cur EXCEPT ![w] = d],
             batch' = [batch EXCEPT ![w] = @ \ {d}],
             pc' = [pc EXCEPT ![w] = IF d.msg \in Gated THEN "allow" ELSE "send"],
             UNCHANGED tok
      PROVE  IInv'
  <2>1. UNCHANGED <<rowVars, calls, gateVars, chatVars>> /\ pc[w] = "loop"
    BY DEF Begin
  <2>2. d \in Delivery /\ batch[w] \subseteq Delivery
    BY DEF IInv, TypeOK
  <2>3. TypeOK'
    BY <1>2, <2>1, <2>2 DEF IInv, TypeOK, rowVars, gateVars, chatVars
  <2>4. WorkerShape'
    BY <1>2, <2>1, <2>2 DEF IInv, TypeOK, WorkerShape
  <2>5. GateFacts'
    BY <1>2, <2>1 DEF IInv, TypeOK, GateFacts, gateVars
  <2>6. \A v \in Workers : \A e \in Unsent(v)' : e \in Unsent(v) /\ tok'[v] = tok[v]
    <3>1. \A v \in Workers : v # w => Unsent(v)' = Unsent(v)
      BY <1>2 DEF IInv, TypeOK, Unsent
    <3>2. Unsent(w)' \subseteq batch[w]
      BY <1>2 DEF IInv, TypeOK, Unsent
    <3> QED BY <1>2, <3>1, <3>2 DEF Unsent
  <2>7. \A v \in Workers : \A e \in batch'[v] :
            pc'[v] \in {"allow", "send"} => e # cur'[v]
    BY <1>2 DEF IInv, TypeOK, ClaimsDistinct
  <2> QED BY <2>1, <2>3, <2>4, <2>5, <2>6, <2>7, QuietStep
<1> QED BY <1>1, <1>2 DEF Begin

\* A crash or an error: what the executor held is forgotten, rows stay as they are.
LEMMA DropStep ==
    ASSUME IInv, NEW w \in Workers, Drop(w), calls' \subseteq calls,
           UNCHANGED <<rowVars, gateVars, chatVars>>
    PROVE  IInv'
<1> USE DEF Drop, IInv, TypeOK
<1>1. TypeOK' /\ WorkerShape' /\ GateFacts'
  BY DEF WorkerShape, GateFacts, rowVars, gateVars, chatVars
<1>2. \A v \in Workers : \A d \in Unsent(v)' : d \in Unsent(v) /\ tok'[v] = tok[v]
  BY DEF Unsent
<1>3. \A v \in Workers : \A d \in batch'[v] :
          pc'[v] \in {"allow", "send"} => d # cur'[v]
  BY DEF ClaimsDistinct
<1> QED BY <1>1, <1>2, <1>3, QuietStep

\* The answer to an acknowledgement: the delivery in hand was already sent.
LEMMA AnsweredStep ==
    ASSUME IInv, NEW w \in Workers, Answered(w)
    PROVE  IInv'
<1> USE DEF Answered, IInv, TypeOK
<1>1. TypeOK' /\ WorkerShape' /\ GateFacts'
  BY DEF WorkerShape, GateFacts, rowVars, gateVars, chatVars
<1>2. \A v \in Workers : \A d \in Unsent(v)' : d \in Unsent(v) /\ tok'[v] = tok[v]
  BY DEF Unsent
<1>3. \A v \in Workers : \A d \in batch'[v] :
          pc'[v] \in {"allow", "send"} => d # cur'[v]
  BY DEF ClaimsDistinct
<1> QED BY <1>1, <1>2, <1>3, QuietStep

\* A lost call changes no row; an executor still waiting for it gives up its batch.
LEMMA LoseCallStep ==
    ASSUME IInv, NEW c \in calls, LoseCall(c)
    PROVE  IInv'
<1>1. calls' \subseteq calls /\ UNCHANGED <<rowVars, gateVars, chatVars>>
  BY DEF LoseCall
<1>2. CASE UNCHANGED workerVars
  <2> USE <1>1, <1>2 DEF IInv, workerVars
  <2>1. TypeOK' /\ WorkerShape' /\ GateFacts'
    BY DEF TypeOK, WorkerShape, GateFacts, rowVars, gateVars, chatVars
  <2>2. \A v \in Workers : \A d \in Unsent(v)' : d \in Unsent(v) /\ tok'[v] = tok[v]
    BY DEF Unsent
  <2>3. \A v \in Workers : \A d \in batch'[v] :
            pc'[v] \in {"allow", "send"} => d # cur'[v]
    BY DEF ClaimsDistinct
  <2> QED BY <2>1, <2>2, <2>3, QuietStep
<1>3. CASE \E w \in Workers : Drop(w)
  BY <1>1, <1>3, DropStep
<1> QED BY <1>2, <1>3 DEF LoseCall

\* An executor posts the acknowledgement of the delivery in hand: its claim is
\* no longer unsent, and a call that speaks for it is under way.
LEMMA PostFacts ==
    ASSUME IInv, NEW w \in Workers, pc[w] \in {"allow", "send"},
           NEW verdict \in Verdicts, Post(w, verdict)
    PROVE  /\ cur[w] \in Delivery
           /\ tok[w] \in Tokens
           /\ cur[w] \in Unsent(w)
           /\ \A v \in Workers : Unsent(v)' = Unsent(v) \ {cur[w]}
           /\ WorkerShape'
           /\ ClaimsDistinct'
           /\ calls' \subseteq Call
           /\ pc' \in [Workers -> {"idle", "loop", "allow", "send", "ack"}]
           /\ UNCHANGED <<tok, batch, cur>>
<1> USE DEF IInv, Post
<1>1. cur[w] \in Delivery /\ tok[w] \in Tokens
  BY DEF WorkerShape, TypeOK
<1>2. cur[w] \in Unsent(w)
  BY DEF Unsent
<1>3. \A v \in Workers : Unsent(v)' = Unsent(v) \ {cur[w]}
  <2>1. Unsent(w)' = Unsent(w) \ {cur[w]}
    BY DEF Unsent, ClaimsDistinct, TypeOK
  <2>2. \A v \in Workers : v # w => Unsent(v)' = Unsent(v)
    BY DEF Unsent, TypeOK
  <2>3. \A v \in Workers : v # w => cur[w] \notin Unsent(v)
    BY <1>2 DEF ClaimsDistinct
  <2> QED BY <2>1, <2>2, <2>3
<1>4. WorkerShape'
  BY <1>1 DEF WorkerShape, TypeOK
<1>5. ClaimsDistinct'
  BY <1>3 DEF ClaimsDistinct, TypeOK
<1>6. calls' \subseteq Call
  <2>1. [msg |-> cur[w].msg, attempt |-> cur[w].attempt, tok |-> tok[w],
         verdict |-> verdict, phase |-> "posted", seen |-> 0] \in Call
    BY <1>1, OutboundAssumption DEF Call, Delivery
  <2> QED BY <2>1 DEF TypeOK
<1>7. pc' \in [Workers -> {"idle", "loop", "allow", "send", "ack"}]
  BY DEF TypeOK
<1> QED BY <1>1, <1>2, <1>3, <1>4, <1>5, <1>6, <1>7

\* The re-check of the assignment: refused and posted as failed, or on to the send.
LEMMA AllowStep ==
    ASSUME IInv, NEW w \in Workers, Allow(w)
    PROVE  IInv'
<1>1. UNCHANGED <<rowVars, gateVars, chatVars>> /\ pc[w] = "allow"
  BY DEF Allow
<1>2. CASE ~closed[cur[w].msg] /\ pc' = [pc EXCEPT ![w] = "send"]
           /\ UNCHANGED <<tok, batch, cur, calls>>
  <2> USE <1>1, <1>2 DEF IInv, TypeOK
  <2>1. TypeOK' /\ WorkerShape' /\ GateFacts'
    BY DEF WorkerShape, GateFacts, rowVars, gateVars, chatVars
  <2>2. \A v \in Workers : \A d \in Unsent(v)' : d \in Unsent(v) /\ tok'[v] = tok[v]
    BY DEF Unsent
  <2>3. \A v \in Workers : \A d \in batch'[v] :
            pc'[v] \in {"allow", "send"} => d # cur'[v]
    BY DEF ClaimsDistinct
  <2> QED BY <1>1, <2>1, <2>2, <2>3, QuietStep
<1>3. CASE Post(w, "fatal")
  <2> DEFINE c == [msg |-> cur[w].msg, attempt |-> cur[w].attempt, tok |-> tok[w],
                   verdict |-> "fatal", phase |-> "posted", seen |-> 0]
  <2>1. /\ cur[w] \in Delivery /\ cur[w] \in Unsent(w)
        /\ \A v \in Workers : Unsent(v)' = Unsent(v) \ {cur[w]}
        /\ WorkerShape' /\ ClaimsDistinct' /\ calls' \subseteq Call
        /\ pc' \in [Workers -> {"idle", "loop", "allow", "send", "ack"}]
        /\ UNCHANGED <<tok, batch, cur>>
    BY <1>1, <1>3, PostFacts DEF Verdicts
  <2>2. calls' = calls \cup {c} /\ pc' = [pc EXCEPT ![w] = "ack"]
    BY <1>3 DEF Post
  <2>3. TypeOK'
    BY <1>1, <2>1 DEF IInv, TypeOK, rowVars, gateVars, chatVars
  <2>4. GateFacts'
    BY <1>1, <2>1, <2>2 DEF IInv, TypeOK, GateFacts, gateVars
  <2>5. ClaimFacts'
    BY <1>1, <2>1 DEF IInv, ClaimFacts, rowVars, chatVars
  <2>6. CallFacts'
    <3>1. \A b \in calls, v \in Workers :
              [msg |-> b.msg, attempt |-> b.attempt] \notin Unsent(v)'
      <4> SUFFICES ASSUME NEW b \in calls, NEW v \in Workers
                   PROVE  [msg |-> b.msg, attempt |-> b.attempt] \notin Unsent(v)'
        OBVIOUS
      <4>1. [msg |-> b.msg, attempt |-> b.attempt] \notin Unsent(v)
        BY DEF IInv, CallFacts
      <4>2. Unsent(v)' \subseteq Unsent(v)
        BY <2>1
      <4> QED BY <4>1, <4>2
    <3>2. \A v \in Workers : [msg |-> c.msg, attempt |-> c.attempt] \notin Unsent(v)'
      BY <2>1 DEF Delivery
    <3>3. /\ c.attempt <= attempts[c.msg]
          /\ owner[c.msg] = c.tok => attempts[c.msg] = c.attempt
      BY <2>1 DEF IInv, ClaimFacts
    <3>4. c.verdict = "fatal" /\ c.phase = "posted"
      OBVIOUS
    <3> HIDE DEF c
    <3> QED BY <1>1, <2>2, <3>1, <3>2, <3>3, <3>4 DEF IInv, CallFacts, rowVars, chatVars
  <2>7. RowShape' /\ ExcuseFacts'
    BY <1>1 DEF IInv, RowShape, ExcuseFacts, rowVars, chatVars
  <2>8. OneCopyPerAttempt' /\ SentByLatestAttempt' /\ ClosedStaysSilent'
    BY <1>1 DEF IInv, OneCopyPerAttempt, SentByLatestAttempt, ClosedStaysSilent,
                rowVars, gateVars, chatVars
  <2> QED BY <2>1, <2>3, <2>4, <2>5, <2>6, <2>7, <2>8 DEF IInv
<1> QED BY <1>2, <1>3 DEF Allow

\* send_message: the attempt in hand has put nothing in the chat before, and
\* may do so now, whatever the executor then reports.
LEMMA SendStep ==
    ASSUME IInv, NEW w \in Workers, Send(w)
    PROVE  IInv'
<1>1. UNCHANGED <<rowVars, gateVars>> /\ pc[w] = "send"
  BY DEF Send
<1>2. PICK o \in Outcomes :
        /\ copies' = IF o.landed
                     THEN [copies EXCEPT ![cur[w].msg][cur[w].attempt] = @ + 1]
                     ELSE copies
        /\ excused' = [excused EXCEPT ![cur[w].msg] = @ \/ (o.landed /\ o.verdict = "retry")]
        /\ Post(w, o.verdict)
  BY DEF Send
<1>3. o.landed \in BOOLEAN /\ o.verdict \in Verdicts /\ (o.verdict = "sent" => o.landed)
  <2>1. o = [landed |-> TRUE, verdict |-> "sent"] \/ o \in [landed : BOOLEAN, verdict : {"retry", "fatal"}]
    BY DEF Outcomes
  <2>2. CASE o = [landed |-> TRUE, verdict |-> "sent"]
    <3>1. o.landed = TRUE /\ o.verdict = "sent"
      BY <2>2
    <3> QED BY <3>1 DEF Verdicts
  <2>3. CASE o \in [landed : BOOLEAN, verdict : {"retry", "fatal"}]
    <3>1. o.landed \in BOOLEAN /\ o.verdict \in {"retry", "fatal"}
      BY <2>3
    <3> QED BY <3>1 DEF Verdicts
  <2> QED BY <2>1, <2>2, <2>3
<1> DEFINE m == cur[w].msg
           a == cur[w].attempt
           c == [msg |-> m, attempt |-> a, tok |-> tok[w],
                 verdict |-> o.verdict, phase |-> "posted", seen |-> 0]
<1>4. /\ cur[w] \in Delivery /\ tok[w] \in Tokens /\ cur[w] \in Unsent(w)
      /\ \A v \in Workers : Unsent(v)' = Unsent(v) \ {cur[w]}
      /\ WorkerShape' /\ ClaimsDistinct' /\ calls' \subseteq Call
      /\ pc' \in [Workers -> {"idle", "loop", "allow", "send", "ack"}]
      /\ UNCHANGED <<tok, batch, cur>>
  BY <1>1, <1>2, <1>3, PostFacts
<1>5. calls' = calls \cup {c} /\ pc' = [pc EXCEPT ![w] = "ack"]
  BY <1>2 DEF Post
<1>6. m \in Messages /\ a \in Attempts /\ cur[w] = [msg |-> m, attempt |-> a]
  BY <1>4 DEF Delivery
<1>7. /\ a <= attempts[m] /\ copies[m][a] = 0
      /\ owner[m] = tok[w] => attempts[m] = a
      /\ owner[m] = tok[w] \/ excused[m]
  BY <1>4 DEF IInv, ClaimFacts
<1>8. /\ c.msg = m /\ c.attempt = a /\ c.tok = tok[w]
      /\ c.verdict = o.verdict /\ c.phase = "posted"
  OBVIOUS
<1> HIDE DEF m, a, c
<1>9. /\ copies' \in [Messages -> [Attempts -> Nat]]
      /\ \A n \in Messages, b \in Attempts : n # m \/ b # a => copies'[n][b] = copies[n][b]
      /\ copies'[m][a] = IF o.landed THEN 1 ELSE 0
  BY <1>2, <1>3, <1>6, <1>7 DEF IInv, TypeOK, m, a
<1>10. /\ excused' \in [Messages -> BOOLEAN]
       /\ \A n \in Messages : excused[n] => excused'[n]
       /\ o.landed /\ o.verdict = "retry" => excused'[m]
  BY <1>2, <1>6 DEF IInv, TypeOK, m
<1>11. TypeOK'
  BY <1>1, <1>4, <1>9, <1>10 DEF IInv, TypeOK, rowVars, gateVars
<1>12. \A v \in Workers : \A d \in Unsent(v)' :
            /\ d \in Unsent(v) /\ d.msg \in Messages /\ d.attempt \in Attempts
            /\ d.msg # m \/ d.attempt # a
  BY <1>4, <1>6 DEF IInv, Unsent, WorkerShape, TypeOK, Delivery
<1>13. ClaimFacts'
  BY <1>1, <1>4, <1>9, <1>10, <1>12 DEF IInv, ClaimFacts, rowVars
<1>14. \A b \in calls : b.msg \in Messages /\ b.attempt \in Attempts /\ (b.msg # m \/ b.attempt # a)
  BY <1>4, <1>6 DEF IInv, CallFacts, TypeOK, Call
<1>15. CallFacts'
  <2>1. \A b \in calls, v \in Workers :
            [msg |-> b.msg, attempt |-> b.attempt] \notin Unsent(v)'
    <3> SUFFICES ASSUME NEW b \in calls, NEW v \in Workers
                 PROVE  [msg |-> b.msg, attempt |-> b.attempt] \notin Unsent(v)'
      OBVIOUS
    <3>1. [msg |-> b.msg, attempt |-> b.attempt] \notin Unsent(v)
      BY DEF IInv, CallFacts
    <3>2. Unsent(v)' \subseteq Unsent(v)
      BY <1>4
    <3> QED BY <3>1, <3>2
  <2>2. \A v \in Workers : [msg |-> c.msg, attempt |-> c.attempt] \notin Unsent(v)'
    BY <1>4, <1>6, <1>8
  <2>3. \A b \in calls :
          /\ b.attempt <= attempts[b.msg]
          /\ owner[b.msg] = b.tok => attempts[b.msg] = b.attempt
          /\ b.verdict = "sent" => copies'[b.msg][b.attempt] = 1
          /\ b.verdict = "retry" /\ copies'[b.msg][b.attempt] > 0 => excused'[b.msg]
          /\ b.phase = "read" => b.verdict # "sent"
          /\ b.phase = "read" /\ owner[b.msg] = b.tok => b.seen = attempts[b.msg]
    BY <1>9, <1>10, <1>14 DEF IInv, CallFacts
  <2>4. /\ c.attempt <= attempts[c.msg]
        /\ owner[c.msg] = c.tok => attempts[c.msg] = c.attempt
        /\ c.verdict = "sent" => copies'[c.msg][c.attempt] = 1
        /\ c.verdict = "retry" /\ copies'[c.msg][c.attempt] > 0 => excused'[c.msg]
    BY <1>3, <1>7, <1>8, <1>9, <1>10
  <2> QED BY <1>1, <1>5, <1>8, <2>1, <2>2, <2>3, <2>4 DEF CallFacts, rowVars
<1>16. RowShape'
  BY <1>1 DEF IInv, RowShape, rowVars
<1>17. ExcuseFacts'
  <2> SUFFICES ASSUME NEW n \in Messages
               PROVE  /\ status[n] = "sending" /\ ripe[n] => excused'[n]
                      /\ \A b \in Attempts : copies'[n][b] > 0
                            /\ (b < attempts[n] \/ status[n] = "pending") => excused'[n]
    BY <1>1 DEF ExcuseFacts, rowVars
  <2>1. status[n] = "sending" /\ ripe[n] => excused'[n]
    BY <1>10 DEF IInv, ExcuseFacts
  <2>2. ASSUME NEW b \in Attempts, copies'[n][b] > 0,
               b < attempts[n] \/ status[n] = "pending"
        PROVE  excused'[n]
    <3>1. CASE n # m \/ b # a
      BY <3>1, <2>2, <1>9, <1>10 DEF IInv, ExcuseFacts
    <3>2. CASE n = m /\ b = a
      <4>1. owner[m] = tok[w] => status[m] = "sending" /\ attempts[m] = a
        BY <1>4, <1>6, <1>7 DEF IInv, RowShape
      <4>2. owner[m] # tok[w]
        BY <4>1, <3>2, <2>2, <1>6, OutboundAssumption DEF IInv, TypeOK, Attempts
      <4> QED BY <4>2, <3>2, <1>6, <1>7, <1>10
    <3> QED BY <3>1, <3>2
  <2> QED BY <2>1, <2>2
<1>18. GateFacts'
  BY <1>1, <1>4, <1>5 DEF IInv, TypeOK, GateFacts, gateVars
<1>19. OneCopyPerAttempt'
  <2> SUFFICES ASSUME NEW n \in Messages, NEW b \in Attempts
               PROVE  copies'[n][b] <= 1 /\ (b > attempts[n] => copies'[n][b] = 0)
    BY <1>1 DEF OneCopyPerAttempt, rowVars
  <2>1. CASE n # m \/ b # a
    BY <2>1, <1>9 DEF IInv, OneCopyPerAttempt
  <2>2. CASE n = m /\ b = a
    <3>1. a \in Nat /\ attempts[m] \in Nat
      BY <1>6, OutboundAssumption DEF IInv, TypeOK, Attempts
    <3> QED BY <2>2, <3>1, <1>7, <1>9
  <2> QED BY <2>1, <2>2
<1>20. SentByLatestAttempt'
  <2> SUFFICES ASSUME NEW n \in Messages, status[n] = "sent"
               PROVE  attempts[n] \in Attempts /\ copies'[n][attempts[n]] = 1
    BY <1>1 DEF SentByLatestAttempt, rowVars
  <2>1. attempts[n] \in Attempts /\ copies[n][attempts[n]] = 1
    BY DEF IInv, SentByLatestAttempt
  <2> QED BY <2>1, <1>7, <1>9
<1>21. ClosedStaysSilent'
  <2> SUFFICES ASSUME NEW n \in Gated, NEW b \in Attempts, closed[n], b > lastOpen[n]
               PROVE  copies'[n][b] = 0
    BY <1>1 DEF ClosedStaysSilent, gateVars
  <2>1. n \in Messages /\ copies[n][b] = 0
    BY OutboundAssumption DEF IInv, ClosedStaysSilent
  <2>2. n # m \/ b # a
    <3>1. n = m => a <= lastOpen[m]
      BY <1>1 DEF IInv, GateFacts, m, a
    <3>2. a \in Nat /\ lastOpen[m] \in Nat
      BY <1>6, OutboundAssumption DEF IInv, TypeOK, Attempts
    <3> QED BY <3>1, <3>2
  <2> QED BY <2>1, <2>2, <1>9
<1> QED BY <1>4, <1>11, <1>13, <1>15, <1>16, <1>17, <1>18, <1>19, <1>20, <1>21 DEF IInv

\* mark_failed reads attempt_count: right as long as the call owns the row.
LEMMA ReadAttemptsStep ==
    ASSUME IInv, NEW c \in calls, ReadAttempts(c)
    PROVE  IInv'
<1> DEFINE r == [c EXCEPT !.phase = "read", !.seen = attempts[c.msg]]
<1>1. /\ c.verdict # "sent" /\ calls' = (calls \ {c}) \cup {r}
      /\ UNCHANGED <<rowVars, workerVars, gateVars, chatVars>>
  BY DEF ReadAttempts
<1>2. c \in Call
  BY DEF IInv, TypeOK
<1>3. /\ r \in Call /\ r.msg = c.msg /\ r.attempt = c.attempt /\ r.tok = c.tok
      /\ r.verdict = c.verdict /\ r.phase = "read" /\ r.seen = attempts[c.msg]
  BY <1>2 DEF IInv, TypeOK, Call
<1> HIDE DEF r
<1> USE <1>1 DEF rowVars, workerVars, gateVars, chatVars, IInv
<1>4. TypeOK'
  BY <1>3 DEF TypeOK
<1>5. CallFacts'
  BY <1>3 DEF CallFacts, Unsent
<1>6. WorkerShape' /\ RowShape' /\ ClaimFacts' /\ ClaimsDistinct' /\ ExcuseFacts' /\ GateFacts'
  BY DEF WorkerShape, RowShape, ClaimFacts, ClaimsDistinct, ExcuseFacts, GateFacts, Unsent
<1>7. OneCopyPerAttempt' /\ SentByLatestAttempt' /\ ClosedStaysSilent'
  BY DEF OneCopyPerAttempt, SentByLatestAttempt, ClosedStaysSilent
<1> QED BY <1>4, <1>5, <1>6, <1>7

\* A call whose UPDATE matches no row changes nothing.
LEMMA FencedStep ==
    ASSUME IInv, NEW c \in calls, calls' = calls \ {c},
           UNCHANGED <<rowVars, workerVars, gateVars, chatVars>>
    PROVE  IInv'
<1> USE DEF IInv, workerVars
<1>1. TypeOK' /\ WorkerShape' /\ GateFacts'
  BY DEF TypeOK, WorkerShape, GateFacts, rowVars, gateVars, chatVars
<1>2. \A v \in Workers : \A d \in Unsent(v)' : d \in Unsent(v) /\ tok'[v] = tok[v]
  BY DEF Unsent
<1>3. \A v \in Workers : \A d \in batch'[v] :
          pc'[v] \in {"allow", "send"} => d # cur'[v]
  BY DEF ClaimsDistinct
<1> QED BY <1>1, <1>2, <1>3, QuietStep

\* A call that still owns its row settles it, or hands it back for a retry.
LEMMA SettleStep ==
    ASSUME IInv, NEW c \in calls, Owns(c), calls' = calls \ {c},
           NEW s \in {"sent", "pending", "failed"}, SettleRow(c.msg, s),
           UNCHANGED <<workerVars, gateVars, chatVars>>,
           s = "sent" => c.verdict = "sent",
           s = "pending" => c.verdict = "retry" /\ attempts[c.msg] < MaxAttempts
    PROVE  IInv'
<1> DEFINE m == c.msg
<1>1. /\ m \in Messages /\ c.tok \in Tokens /\ c.attempt \in Attempts
      /\ status[m] = "sending" /\ owner[m] = c.tok
  BY DEF IInv, TypeOK, Call, Owns
<1>2. /\ status' = [status EXCEPT ![m] = s]
      /\ owner' = [owner EXCEPT ![m] = NoToken]
      /\ ripe' = [ripe EXCEPT ![m] = FALSE]
      /\ UNCHANGED attempts
  BY DEF SettleRow
<1>3. /\ attempts[m] = c.attempt
      /\ c.verdict = "sent" => copies[m][c.attempt] = 1
      /\ c.verdict = "retry" /\ copies[m][c.attempt] > 0 => excused[m]
      /\ \A v \in Workers : [msg |-> m, attempt |-> c.attempt] \notin Unsent(v)
  BY <1>1 DEF IInv, CallFacts
<1> HIDE DEF m
<1> USE DEF IInv, workerVars, gateVars, chatVars
<1>4. TypeOK'
  BY <1>1, <1>2 DEF TypeOK, Statuses
<1>5. WorkerShape' /\ ClaimsDistinct' /\ GateFacts'
  BY DEF WorkerShape, ClaimsDistinct, GateFacts, Unsent
<1>6. RowShape'
  BY <1>1, <1>2, <1>3, OutboundAssumption DEF RowShape, TypeOK, m
<1>7. \A v \in Workers : Unsent(v)' = Unsent(v) /\ tok'[v] = tok[v]
  BY DEF Unsent
<1>8. ClaimFacts'
  <2> SUFFICES ASSUME NEW v \in Workers, NEW d \in Unsent(v)
               PROVE  /\ d.attempt <= attempts[d.msg]
                      /\ copies[d.msg][d.attempt] = 0
                      /\ owner'[d.msg] = tok[v] => attempts[d.msg] = d.attempt
                      /\ owner'[d.msg] = tok[v] \/ excused[d.msg]
    BY <1>2, <1>7 DEF ClaimFacts
  <2>1. d \in Delivery /\ tok[v] \in Tokens
    BY DEF Unsent, WorkerShape, TypeOK
  <2>2. /\ d.msg \in Messages /\ d = [msg |-> d.msg, attempt |-> d.attempt]
    BY <2>1 DEF Delivery
  <2>3. /\ d.attempt <= attempts[d.msg]
        /\ copies[d.msg][d.attempt] = 0
        /\ owner[d.msg] = tok[v] => attempts[d.msg] = d.attempt
        /\ owner[d.msg] = tok[v] \/ excused[d.msg]
    BY DEF ClaimFacts
  <2>4. CASE d.msg # m
    BY <2>2, <2>3, <2>4, <1>2 DEF TypeOK
  <2>5. CASE d.msg = m
    <3>1. owner[m] # tok[v]
      BY <2>2, <2>3, <2>5, <1>3
    <3>2. owner'[m] = NoToken
      BY <1>1, <1>2 DEF TypeOK
    <3> QED BY <2>1, <2>3, <2>5, <3>1, <3>2, OutboundAssumption
  <2> QED BY <2>4, <2>5
<1>9. CallFacts'
  <2>1. \A b \in calls : b.msg \in Messages /\ b.tok \in Tokens
    BY DEF TypeOK, Call
  <2>2. \A b \in calls : owner'[b.msg] = b.tok => owner[b.msg] = b.tok
    BY <2>1, <1>2, OutboundAssumption DEF TypeOK
  <2> QED BY <2>2, <1>2, <1>7 DEF CallFacts
<1>10. ExcuseFacts'
  <2> SUFFICES ASSUME NEW n \in Messages
               PROVE  /\ status'[n] = "sending" /\ ripe'[n] => excused[n]
                      /\ \A b \in Attempts : copies[n][b] > 0
                            /\ (b < attempts[n] \/ status'[n] = "pending") => excused[n]
    BY <1>2 DEF ExcuseFacts
  <2>1. CASE n # m
    BY <2>1, <1>2 DEF ExcuseFacts, TypeOK
  <2>2. CASE n = m
    <3>1. status'[m] = s /\ s # "sending"
      BY <1>1, <1>2 DEF TypeOK
    <3>2. ASSUME NEW b \in Attempts, copies[m][b] > 0,
                 b < attempts[m] \/ s = "pending"
          PROVE  excused[m]
      <4>1. CASE b < attempts[m]
        BY <4>1, <3>2, <1>1 DEF ExcuseFacts
      <4>2. CASE b = attempts[m]
        BY <4>2, <3>2, <1>1, <1>3, OutboundAssumption DEF TypeOK, Attempts, m
      <4>3. ~(b > attempts[m])
        BY <3>2, <1>1 DEF OneCopyPerAttempt, TypeOK
      <4>4. b \in Nat /\ attempts[m] \in Nat
        BY <1>1, OutboundAssumption DEF TypeOK, Attempts
      <4> QED BY <4>1, <4>2, <4>3, <4>4
    <3> QED BY <2>2, <3>1, <3>2
  <2> QED BY <2>1, <2>2
<1>11. SentByLatestAttempt'
  BY <1>1, <1>2, <1>3 DEF SentByLatestAttempt, TypeOK
<1>12. OneCopyPerAttempt' /\ ClosedStaysSilent'
  BY <1>2 DEF OneCopyPerAttempt, ClosedStaysSilent
<1> QED BY <1>4, <1>5, <1>6, <1>8, <1>9, <1>10, <1>11, <1>12

\* mark_sent: fenced off, or the row's newest attempt has reached the chat.
LEMMA MarkSentStep ==
    ASSUME IInv, NEW c \in calls, MarkSent(c)
    PROVE  IInv'
<1>1. CASE Owns(c)
  BY <1>1, SettleStep DEF MarkSent
<1>2. CASE ~Owns(c)
  BY <1>2, FencedStep DEF MarkSent
<1> QED BY <1>1, <1>2

\* mark_failed's UPDATE: fenced off, or retried only with an attempt left.
LEMMA MarkFailedStep ==
    ASSUME IInv, NEW c \in calls, MarkFailed(c)
    PROVE  IInv'
<1>1. CASE Owns(c)
  <2>1. c.seen = attempts[c.msg]
    BY <1>1 DEF MarkFailed, Owns, IInv, CallFacts
  <2>2. CASE ShouldRetry(c)
    <3>1. SettleRow(c.msg, "pending")
      BY <1>1, <2>2 DEF MarkFailed
    <3> QED BY <1>1, <2>1, <2>2, <3>1, SettleStep DEF MarkFailed, ShouldRetry
  <2>3. CASE ~ShouldRetry(c)
    <3>1. SettleRow(c.msg, "failed")
      BY <1>1, <2>3 DEF MarkFailed
    <3> QED BY <1>1, <3>1, SettleStep DEF MarkFailed
  <2> QED BY <2>2, <2>3
<1>2. CASE ~Owns(c)
  BY <1>2, FencedStep DEF MarkFailed
<1> QED BY <1>1, <1>2

-----------------------------------------------------------------------------
(* The invariant, and what it implies.                                     *)

\* The empty outbox satisfies the invariant.
LEMMA InitIInv == Init => IInv
<1> SUFFICES ASSUME Init PROVE IInv
  OBVIOUS
<1> USE OutboundAssumption DEF Init, Attempts
<1>1. TypeOK
  BY DEF TypeOK, Statuses
<1>2. WorkerShape /\ RowShape /\ ClaimFacts /\ ClaimsDistinct /\ CallFacts
  BY DEF WorkerShape, RowShape, ClaimFacts, ClaimsDistinct, CallFacts, Unsent
<1>3. ExcuseFacts /\ GateFacts /\ OneCopyPerAttempt /\ SentByLatestAttempt /\ ClosedStaysSilent
  BY DEF ExcuseFacts, GateFacts, OneCopyPerAttempt, SentByLatestAttempt, ClosedStaysSilent
<1> QED BY <1>1, <1>2, <1>3 DEF IInv

\* Every step preserves the invariant: one case per action.
LEMMA NextIInv == IInv /\ [Next]_vars => IInv'
<1> SUFFICES ASSUME IInv, [Next]_vars PROVE IInv'
  OBVIOUS
<1>1. ASSUME NEW m \in Messages, Enqueue(m) \/ Ripen(m) \/ CloseAssignment(m)
      PROVE  IInv'
  BY <1>1, EnqueueStep, RipenStep, CloseAssignmentStep
<1>2. ASSUME NEW w \in Pollers, Poll(w)
      PROVE  IInv'
  BY <1>2, ClaimStep DEF Poll, Workers
<1>3. ASSUME NEW w \in Handlers, NEW m \in Messages, ClaimSource(w, m)
      PROVE  IInv'
  <2> DEFINE ms == IF Claimable(m) THEN {m} ELSE {}
  <2>1. ms \in SUBSET {n \in Messages : Claimable(n)}
    OBVIOUS
  <2>2. /\ pc[w] = "idle" /\ (\E t \in Tokens : FreshToken(t))
        /\ ClaimRows(ms, NewToken) /\ Receive(w, ms, NewToken)
        /\ UNCHANGED <<calls, gateVars, chatVars>>
    BY <1>3 DEF ClaimSource
  <2> HIDE DEF ms
  <2> QED BY <2>1, <2>2, ClaimStep DEF Workers
<1>4. ASSUME NEW w \in Workers, WorkerStep(w)
      PROVE  IInv'
  BY <1>4, BeginStep, AllowStep, SendStep, AnsweredStep DEF WorkerStep
<1>5. ASSUME NEW w \in Workers, Abandon(w)
      PROVE  IInv'
  BY <1>5, DropStep DEF Abandon
<1>6. ASSUME NEW c \in calls, ApiStep(c) \/ LoseCall(c)
      PROVE  IInv'
  BY <1>6, MarkSentStep, ReadAttemptsStep, MarkFailedStep, LoseCallStep DEF ApiStep
<1>7. CASE UNCHANGED vars
  <2> USE <1>7 DEF vars, rowVars, workerVars, gateVars, chatVars, IInv
  <2>1. TypeOK' /\ WorkerShape' /\ RowShape' /\ GateFacts'
    BY DEF TypeOK, WorkerShape, RowShape, GateFacts
  <2>2. ClaimFacts' /\ ClaimsDistinct' /\ CallFacts' /\ ExcuseFacts'
    BY DEF ClaimFacts, ClaimsDistinct, CallFacts, ExcuseFacts, Unsent
  <2>3. OneCopyPerAttempt' /\ SentByLatestAttempt' /\ ClosedStaysSilent'
    BY DEF OneCopyPerAttempt, SentByLatestAttempt, ClosedStaysSilent
  <2> QED BY <2>1, <2>2, <2>3
<1> QED BY <1>1, <1>2, <1>3, <1>4, <1>5, <1>6, <1>7 DEF Next

\* Every reachable state of the outbox satisfies the inductive invariant.
THEOREM Inductive == Spec => []IInv
<1> QED BY InitIInv, NextIInv, PTL DEF Spec

\* The rows, executors, calls and history keep their types: in particular no
\* claim ever takes attempt_count above OUTBOUND_MAX_ATTEMPTS.
THEOREM TypeCorrect == Spec => []TypeOK
<1>1. IInv => TypeOK
  BY DEF IInv
<1> QED BY <1>1, Inductive, PTL

\* One claim puts at most one copy in the chat, whatever is lost or late.
THEOREM AtMostOneCopy == Spec => []OneCopyPerAttempt
<1>1. IInv => OneCopyPerAttempt
  BY DEF IInv
<1> QED BY <1>1, Inductive, PTL

\* A row marked "sent" was delivered by its newest attempt.
THEOREM SentIsTrue == Spec => []SentByLatestAttempt
<1>1. IInv => SentByLatestAttempt
  BY DEF IInv
<1> QED BY <1>1, Inductive, PTL

\* The stale read of attempt_count in mark_failed strands no row.
THEOREM RetryIsClaimable == Spec => []NoStrandedRetry
<1>1. IInv => NoStrandedRetry
  BY DEF IInv, RowShape, NoStrandedRetry
<1> QED BY <1>1, Inductive, PTL

\* Two copies of one message are explained by a lease that ran out or by an
\* answer of Telegram's that was lost.
THEOREM DuplicateExplained == Spec => []DuplicateHasCause
<1>1. IInv => DuplicateHasCause
  <2> SUFFICES ASSUME IInv, NEW m \in Messages, NEW a \in Attempts, NEW b \in Attempts,
                      copies[m][a] > 0, copies[m][b] > 0, a < b
               PROVE  excused[m]
    BY OutboundAssumption DEF DuplicateHasCause, Attempts
  <2>1. /\ a \in Nat /\ b \in Nat /\ attempts[m] \in Nat
        /\ copies[m][b] \in Nat
    BY OutboundAssumption DEF IInv, TypeOK, Attempts
  <2>2. b <= attempts[m]
    BY <2>1 DEF IInv, OneCopyPerAttempt
  <2> QED BY <2>1, <2>2 DEF IInv, ExcuseFacts
<1> QED BY <1>1, Inductive, PTL

\* No attempt claimed after its assignment closed reaches the chat.
THEOREM ClosedIsSilent == Spec => []ClosedStaysSilent
<1>1. IInv => ClosedStaysSilent
  BY DEF IInv
<1> QED BY <1>1, Inductive, PTL

-----------------------------------------------------------------------------
(* What a step may do to a row.                                            *)

\* The rows a claim transaction gives up.
Lost(ms) == {m \in Messages \ ms : Exhausted(m)}

\* A claim transaction is OpenAttempts of the promise: the claimed rows get an
\* attempt, the exhausted ones are given up.
LEMMA ClaimOpens ==
    ASSUME IInv, NEW ms \in SUBSET {m \in Messages : Claimable(m)},
           NEW t \in Tokens, ClaimRows(ms, t), UNCHANGED chatVars
    PROVE  /\ Promise!OpenAttempts(ms, Lost(ms))
           /\ \A m \in Messages : status[m] \in Settled =>
                 /\ status'[m] = status[m]
                 /\ attempts'[m] = attempts[m]
                 /\ owner'[m] = owner[m]
<1>1. \A m \in ms : /\ m \in Messages /\ attempts[m] < MaxAttempts
                    /\ status[m] \in {"pending", "sending"}
  BY DEF Claimable
<1>2. \A m \in Lost(ms) : /\ m \in Messages /\ m \notin ms /\ status[m] = "sending"
                          /\ attempts[m] = MaxAttempts
  <2> SUFFICES ASSUME NEW m \in Lost(ms)
               PROVE  m \in Messages /\ m \notin ms /\ status[m] = "sending" /\ attempts[m] = MaxAttempts
    OBVIOUS
  <2>1. /\ m \in Messages /\ m \notin ms /\ status[m] = "sending" /\ attempts[m] >= MaxAttempts
    BY DEF Lost, Exhausted
  <2>2. attempts[m] \in 0..MaxAttempts
    BY <2>1 DEF IInv, TypeOK
  <2> QED BY <2>1, <2>2, OutboundAssumption
<1>3. \A m \in Messages : m \notin ms => (Exhausted(m) <=> m \in Lost(ms))
  BY DEF Lost
<1>4. /\ attempts' = [m \in Messages |-> IF m \in ms THEN attempts[m] + 1 ELSE attempts[m]]
      /\ \A m \in Messages :
            status'[m] = IF m \in ms THEN "sending"
                         ELSE IF m \in Lost(ms) THEN "failed" ELSE status[m]
      /\ \A m \in Messages :
            owner'[m] = IF m \in ms THEN t
                        ELSE IF m \in Lost(ms) THEN NoToken ELSE owner[m]
  BY <1>3 DEF ClaimRows
<1>5. \A m \in Messages : status[m] \in Settled => m \notin ms /\ m \notin Lost(ms)
  BY <1>1, <1>2 DEF Settled
<1>6. [m \in Messages |-> Fate(m)]' =
          [m \in Messages |-> IF m \in Lost(ms) THEN "failed" ELSE Fate(m)]
  BY <1>1, <1>2, <1>4 DEF Fate
<1>7. ms \cap Lost(ms) = {}
  BY DEF Lost
<1>8. /\ \A m \in ms : Fate(m) = "open"
      /\ \A m \in Lost(ms) : Fate(m) = "open"
  BY <1>1, <1>2 DEF Fate
<1>9. Promise!OpenAttempts(ms, Lost(ms))
  BY <1>1, <1>2, <1>4, <1>6, <1>7, <1>8 DEF Promise!OpenAttempts, chatVars
<1> QED BY <1>4, <1>5, <1>9

\* An acknowledgement that owns its row is of the newest attempt, and settles a
\* row that was being sent and no other.
LEMMA SettleOpens ==
    ASSUME IInv, NEW c \in calls, Owns(c), NEW s \in Statuses, SettleRow(c.msg, s)
    PROVE  /\ c.msg \in Messages /\ status[c.msg] = "sending"
           /\ c.attempt = attempts[c.msg] /\ attempts[c.msg] \in Attempts
           /\ status' = [status EXCEPT ![c.msg] = s]
           /\ UNCHANGED attempts
           /\ \A m \in Messages : status[m] \in Settled =>
                 status'[m] = status[m] /\ owner'[m] = owner[m]
<1>1. /\ c.msg \in Messages /\ c.attempt \in Attempts
      /\ status[c.msg] = "sending" /\ owner[c.msg] = c.tok
  BY DEF IInv, TypeOK, Call, Owns
<1>2. c.attempt = attempts[c.msg]
  BY <1>1 DEF IInv, CallFacts
<1> QED BY <1>1, <1>2 DEF SettleRow, IInv, TypeOK, Settled

\* What a step does, seen from a settled row and from the promise.
SettledKept ==
    \A m \in Messages : status[m] \in Settled =>
        /\ status'[m] = status[m]
        /\ attempts'[m] = attempts[m]
        /\ owner'[m] = owner[m]

PromiseStep == [Promise!Next]_(Promise!vars) /\ SettledKept

\* Every step of the outbox is a step of the promise or leaves it unchanged,
\* and keeps settled rows as they are.
LEMMA StepKeepsPromise == IInv /\ [Next]_vars => PromiseStep
<1> SUFFICES ASSUME IInv, [Next]_vars PROVE PromiseStep
  OBVIOUS
\* rows and chat unchanged: a stutter
<1>1. ASSUME UNCHANGED <<status, attempts, owner, copies>>
      PROVE  PromiseStep
  BY <1>1 DEF PromiseStep, SettledKept, Promise!vars, Fate
<1>2. ASSUME NEW m \in Messages, Enqueue(m)
      PROVE  PromiseStep
  <2>1. /\ status[m] = "absent" /\ status' = [status EXCEPT ![m] = "pending"]
        /\ UNCHANGED <<attempts, owner, copies>> /\ status \in [Messages -> Statuses]
    BY <1>2 DEF Enqueue, chatVars, IInv, TypeOK
  <2>2. [n \in Messages |-> Fate(n)]' = [[n \in Messages |-> Fate(n)] EXCEPT ![m] = "open"]
    BY <2>1 DEF Fate
  <2>3. Promise!Submit(m)
    BY <2>1, <2>2 DEF Promise!Submit, Fate
  <2> QED BY <2>1, <2>3 DEF PromiseStep, SettledKept, Promise!Next, Settled
<1>3. ASSUME NEW m \in Messages, Ripen(m) \/ CloseAssignment(m)
      PROVE  PromiseStep
  BY <1>1, <1>3 DEF Ripen, CloseAssignment, rowVars, chatVars
<1>4. ASSUME NEW ms \in SUBSET {m \in Messages : Claimable(m)},
             \E t \in Tokens : FreshToken(t),
             ClaimRows(ms, NewToken), UNCHANGED chatVars
      PROVE  PromiseStep
  <2>1. NewToken \in Tokens
    BY <1>4 DEF NewToken
  <2>2. Promise!OpenAttempts(ms, Lost(ms)) /\ SettledKept
    BY <1>4, <2>1, ClaimOpens DEF SettledKept
  <2>3. ms \in SUBSET Messages /\ Lost(ms) \in SUBSET Messages
    BY DEF Lost
  <2> QED BY <2>2, <2>3 DEF PromiseStep, Promise!Next
<1>5. ASSUME NEW w \in Pollers, Poll(w)
      PROVE  PromiseStep
  BY <1>4, <1>5 DEF Poll
<1>6. ASSUME NEW w \in Handlers, NEW m \in Messages, ClaimSource(w, m)
      PROVE  PromiseStep
  <2> DEFINE ms == IF Claimable(m) THEN {m} ELSE {}
  <2>1. ms \in SUBSET {n \in Messages : Claimable(n)}
    OBVIOUS
  <2>2. (\E t \in Tokens : FreshToken(t)) /\ ClaimRows(ms, NewToken) /\ UNCHANGED chatVars
    BY <1>6 DEF ClaimSource
  <2> HIDE DEF ms
  <2> QED BY <1>4, <2>1, <2>2
<1>7. ASSUME NEW w \in Workers, Begin(w) \/ Allow(w) \/ Answered(w) \/ Abandon(w)
      PROVE  PromiseStep
  BY <1>1, <1>7 DEF Begin, Allow, Answered, Abandon, rowVars, chatVars
<1>8. ASSUME NEW w \in Workers, Send(w)
      PROVE  PromiseStep
  <2>1. UNCHANGED <<status, attempts, owner>> /\ pc[w] = "send"
    BY <1>8 DEF Send, rowVars
  <2>2. cur[w] \in Delivery /\ cur[w] \in Unsent(w)
    BY <2>1 DEF IInv, WorkerShape, Unsent
  <2>3. /\ cur[w].msg \in Messages /\ cur[w].attempt \in Attempts
        /\ cur[w].attempt <= attempts[cur[w].msg]
        /\ copies[cur[w].msg][cur[w].attempt] = 0
    BY <2>2 DEF IInv, ClaimFacts, Delivery
  <2>4. \/ copies' = copies
        \/ copies' = [copies EXCEPT ![cur[w].msg][cur[w].attempt] = 1]
    BY <1>8, <2>3 DEF Send
  <2>5. CASE copies' = copies
    BY <1>1, <2>1, <2>5
  <2>6. CASE copies' = [copies EXCEPT ![cur[w].msg][cur[w].attempt] = 1]
    <3>1. Promise!Land(cur[w].msg, cur[w].attempt)
      BY <2>1, <2>3, <2>6 DEF Promise!Land, Fate
    <3> QED BY <2>1, <2>3, <3>1
              DEF PromiseStep, SettledKept, Promise!Next, Promise!Attempts, Attempts
  <2> QED BY <2>4, <2>5, <2>6
<1>9. ASSUME NEW c \in calls, ReadAttempts(c) \/ LoseCall(c)
      PROVE  PromiseStep
  BY <1>1, <1>9 DEF ReadAttempts, LoseCall, rowVars, chatVars
<1>10. ASSUME NEW c \in calls, MarkSent(c)
      PROVE  PromiseStep
  <2>1. copies' = copies
    BY <1>10 DEF MarkSent, chatVars
  <2>2. CASE ~Owns(c)
    BY <1>1, <1>10, <2>1, <2>2 DEF MarkSent, rowVars
  <2>3. CASE Owns(c)
    <3>1. /\ c.msg \in Messages /\ status[c.msg] = "sending"
          /\ c.attempt = attempts[c.msg] /\ attempts[c.msg] \in Attempts
          /\ status' = [status EXCEPT ![c.msg] = "sent"]
          /\ UNCHANGED attempts /\ SettledKept
      BY <1>10, <2>3, SettleOpens DEF SettledKept, MarkSent, Statuses
    <3>2. copies[c.msg][attempts[c.msg]] = 1
      BY <1>10, <3>1 DEF MarkSent, IInv, CallFacts
    <3>3. [n \in Messages |-> Fate(n)]' =
              [[n \in Messages |-> Fate(n)] EXCEPT ![c.msg] = "sent"]
      BY <3>1 DEF Fate, IInv, TypeOK
    <3>4. Promise!Confirm(c.msg)
      BY <2>1, <3>1, <3>2, <3>3 DEF Promise!Confirm, Promise!Attempts, Attempts, Fate
    <3> QED BY <3>1, <3>4 DEF PromiseStep, Promise!Next
  <2> QED BY <2>2, <2>3
<1>11. ASSUME NEW c \in calls, MarkFailed(c)
      PROVE  PromiseStep
  <2>1. copies' = copies
    BY <1>11 DEF MarkFailed, chatVars
  <2>2. CASE ~Owns(c)
    BY <1>1, <1>11, <2>1, <2>2 DEF MarkFailed, rowVars
  <2>3. ASSUME Owns(c), NEW s \in {"pending", "failed"}, SettleRow(c.msg, s)
        PROVE  PromiseStep
    <3>1. /\ c.msg \in Messages /\ status[c.msg] = "sending"
          /\ attempts[c.msg] \in Attempts
          /\ status' = [status EXCEPT ![c.msg] = s]
          /\ UNCHANGED attempts /\ SettledKept
      BY <2>3, SettleOpens DEF SettledKept, Statuses
    <3>2. CASE s = "pending"
      <4>1. [n \in Messages |-> Fate(n)]' = [n \in Messages |-> Fate(n)]
        BY <3>1, <3>2 DEF Fate, IInv, TypeOK
      <4> QED BY <2>1, <3>1, <4>1 DEF PromiseStep, Promise!vars
    <3>3. CASE s = "failed"
      <4>1. [n \in Messages |-> Fate(n)]' =
                [[n \in Messages |-> Fate(n)] EXCEPT ![c.msg] = "failed"]
        BY <3>1, <3>3 DEF Fate, IInv, TypeOK
      <4>2. Promise!GiveUp(c.msg)
        BY <2>1, <3>1, <4>1 DEF Promise!GiveUp, Promise!Attempts, Attempts, Fate
      <4> QED BY <3>1, <4>2 DEF PromiseStep, Promise!Next
    <3> QED BY <2>3, <3>2, <3>3
  <2>4. Owns(c) => \E s \in {"pending", "failed"} : SettleRow(c.msg, s)
    BY <1>11 DEF MarkFailed
  <2> QED BY <2>2, <2>3, <2>4
<1>12. CASE UNCHANGED vars
  BY <1>1, <1>12 DEF vars, rowVars, chatVars
<1> QED
  <2>1. ASSUME NEW m \in Messages, Enqueue(m) \/ Ripen(m) \/ CloseAssignment(m)
        PROVE  PromiseStep
    BY <1>2, <1>3, <2>1
  <2>2. ASSUME NEW w \in Workers, WorkerStep(w) \/ Abandon(w)
        PROVE  PromiseStep
    BY <1>7, <1>8, <2>2 DEF WorkerStep
  <2>3. ASSUME NEW c \in calls, ApiStep(c) \/ LoseCall(c)
        PROVE  PromiseStep
    BY <1>9, <1>10, <1>11, <2>3 DEF ApiStep
  <2> QED BY <1>5, <1>6, <1>12, <2>1, <2>2, <2>3 DEF Next

\* A sent or failed row is never touched again by any acknowledgement, claim
\* or expiry, however late.
THEOREM SettledIsFinal == Spec => SettledForGood
<1>1. IInv /\ [Next]_vars =>
          [\A m \in Messages : status[m] \in Settled =>
              /\ status'[m] = status[m]
              /\ attempts'[m] = attempts[m]
              /\ owner'[m] = NoToken]_vars
  <2> SUFFICES ASSUME IInv, [Next]_vars, NEW m \in Messages, status[m] \in Settled
               PROVE  /\ status'[m] = status[m]
                      /\ attempts'[m] = attempts[m]
                      /\ owner'[m] = NoToken
    OBVIOUS
  <2>1. owner[m] = NoToken
    BY DEF IInv, RowShape, TypeOK, Settled
  <2> QED BY <2>1, StepKeepsPromise DEF PromiseStep, SettledKept
<1> QED BY <1>1, Inductive, PTL DEF Spec, SettledForGood

\* The outbox implements AtLeastOnce: attempts are opened one at a time and at
\* most MaxAttempts times, each lands at most one copy, "sent" is only
\* reported for a landed newest attempt, and settled messages stay settled.
THEOREM OutboxKeepsPromise == Spec => KeepsPromise
<1>1. Init => Promise!Init
  BY DEF Init, Promise!Init, Promise!Attempts, Attempts, Fate
<1>2. IInv /\ [Next]_vars => [Promise!Next]_(Promise!vars)
  BY StepKeepsPromise DEF PromiseStep
<1> QED BY <1>1, <1>2, Inductive, PTL DEF Spec, KeepsPromise, Promise!Spec

=============================================================================
