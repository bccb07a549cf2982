\* A waiter that shares a fetch is told that it got a cached answer.
SPECIFICATION Spec
CONSTANTS
    c1 = c1
    c2 = c2
    c3 = c3
    i1 = i1
    i2 = i2
    NoCaller = NoCaller
    Instances = {i1}
    Callers = {c1, c2, c3}
    Home <- OneHome
    Ops = {"get_or_fetch"}
    HasBackend = TRUE
    PositiveTtl = 1
    NegativeTtl = 0
    Timeout = 1
    MaxTime = 1
CHECK_DEADLOCK FALSE
PROPERTY
    PeerOfFetchIsFresh
