\* A fleet of two instances with one get_or_fetch call each: how long an answer
\* can travel through both tiers, with calls as slow as a negative TTL.
SPECIFICATION Spec
CONSTANTS
    c1 = c1
    c2 = c2
    c3 = c3
    i1 = i1
    i2 = i2
    NoCaller = NoCaller
    Instances = {i1, i2}
    Callers = {c1, c2}
    Home <- OneEach
    Ops = {"get_or_fetch"}
    HasBackend = TRUE
    PositiveTtl = 2
    NegativeTtl = 1
    Timeout = 1
    MaxTime = 8
CHECK_DEADLOCK FALSE
INVARIANTS
    ThrottleNotCached
    LifetimeBounded
    RepliesAreFresh
    UncachedIsOwnFetch
PROPERTY
    KeepsPromise
