SPECIFICATION FairSpec
CONSTANTS
    m1 = m1
    poller = poller
    handler = handler
    t1 = t1
    t2 = t2
    t3 = t3
    t4 = t4
    NoToken = NoToken
    NoDelivery = NoDelivery
    Messages = {m1}
    Gated = {m1}
    Pollers = {poller}
    Handlers = {handler}
    Tokens = {t1, t2, t3, t4}
    MaxAttempts = 3
    BatchLimit = 1
INVARIANTS
    TypeOK
    OneCopyPerAttempt
    SentByLatestAttempt
    NoStrandedRetry
    DuplicateHasCause
    ClosedStaysSilent
PROPERTIES
    SettledForGood
    KeepsPromise
    EventuallySettled
CHECK_DEADLOCK FALSE
