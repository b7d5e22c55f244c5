SPECIFICATION Spec
CONSTANTS
    q1 = q1
    h1 = h1
    h2 = h2
    r1 = r1
    r2 = r2
    c1 = c1
    c2 = c2
    NoQuestion = NoQuestion
    NoConv = NoConv
    Nobody = Nobody
    Questions = {q1}
    Handlers = {h1, h2}
    Requests = {r1, r2}
    WebRequests = {r2}
    Convs = {c1, c2}
SYMMETRY Symmetry
INVARIANTS
    AnswersThroughOutbox
    PointerIsCommitted
    LateTurnWasRaced
PROPERTY KeepsPromise
CHECK_DEADLOCK FALSE
