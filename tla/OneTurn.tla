------------------------------ MODULE OneTurn ------------------------------
(***************************************************************************)
(* What the AI chat promises for a question that carries an idempotency    *)
(* key, without claims, leases, deliveries or requests: the question is    *)
(* answered at most once, and the answer, the turn it leaves in one        *)
(* conversation and the outbox row that takes it to Telegram appear in one *)
(* step and stay.  ChatTurn.tla is shown to implement this module.         *)
(***************************************************************************)
EXTENDS Naturals

CONSTANTS Questions,   \* Telegram updates that ask something
          Convs        \* conversations of the employee

VARIABLES answered,    \* the questions with a cached answer
          kept,        \* kept[q]: turns stored for q
          places,      \* places[q]: the conversations that hold them
          queued       \* the questions whose answer is in the outbox

vars == <<answered, kept, places, queued>>

Init ==
    /\ answered = {}
    /\ kept = [q \in Questions |-> 0]
    /\ places = [q \in Questions |-> {}]
    /\ queued = {}

Answer(q, c) ==
    /\ q \notin answered
    /\ answered' = answered \cup {q}
    /\ kept' = [kept EXCEPT ![q] = 1]
    /\ places' = [places EXCEPT ![q] = {c}]
    /\ queued' = queued \cup {q}

Next == \E q \in Questions, c \in Convs : Answer(q, c)

Spec == Init /\ [][Next]_vars
=============================================================================
