SPECIFICATION Spec
CONSTANTS
    MaxVersion = 2
    MayLose = FALSE
    r1 = r1
    r2 = r2
    m1 = m1
    m2 = m2
    q1 = q1
    Requests = {r1, r2}
    Readers = {q1}
    Models = {m1, m2}
    NoModel = NoModel
    Nobody = Nobody
INVARIANT PublishedIsAttempted
CHECK_DEADLOCK FALSE
