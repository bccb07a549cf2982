\* A cached server is served however old the document is that it came from.
SPECIFICATION Spec
CONSTANTS
    com = com
    new = new
    NoTask = NoTask
    Tasks = {t1, t2}
    Tlds = {com, new}
    Listed <- Delegated
    RefreshAfter = 3
    RetryAfter = 2
    FetchTimeout = 2
    MaxVersion = 2
    MaxTime = 7
CHECK_DEADLOCK FALSE
PROPERTY
    DueDataIsRefetched
