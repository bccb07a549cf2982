\* The whole public interface of CacheService, get and set included, called in
\* two instances: what still holds when they write over live entries.
SPECIFICATION Spec
CONSTANTS
    c1 = c1
    c2 = c2
    c3 = c3
    i1 = i1
    i2 = i2
    NoCaller = NoCaller
    Instances = {i1, i2}
    Callers = {c1, c2}
    Home <- OneEach
    Ops = {"get_or_fetch", "get", "set"}
    HasBackend = TRUE
    PositiveTtl = 2
    NegativeTtl = 1
    Timeout = 1
    MaxTime = 5
CHECK_DEADLOCK FALSE
INVARIANTS
    ThrottleNotShared
    ApiLifetimeBounded
