SPECIFICATION FairSpec
CONSTANTS
    plain = plain
    gated = gated
    poller = poller
    t1 = t1
    t2 = t2
    t3 = t3
    NoToken = NoToken
    NoDelivery = NoDelivery
    Messages = {plain, gated}
    Gated = {gated}
    Pollers = {poller}
    Handlers = {}
    Tokens = {t1, t2, t3}
    MaxAttempts = 1
    BatchLimit = 2
INVARIANTS
    SentByLatestAttempt
PROPERTIES
    EventuallySettled
CHECK_DEADLOCK FALSE
