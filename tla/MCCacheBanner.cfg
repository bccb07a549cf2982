\* set over a live entry keeps the expiry of that entry, a throttle banner too.
SPECIFICATION Spec
CONSTANTS
    c1 = c1
    c2 = c2
    c3 = c3
    i1 = i1
    i2 = i2
    NoCaller = NoCaller
    Instances = {i1, i2}
    Callers = {c1, c2}
    Home <- OneEach
    Ops = {"get_or_fetch", "get", "set"}
    HasBackend = TRUE
    PositiveTtl = 2
    NegativeTtl = 1
    Timeout = 1
    MaxTime = 2
CHECK_DEADLOCK FALSE
INVARIANTS
    ThrottleNotCached
