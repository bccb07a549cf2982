\* Two lookups at a time over two refresh periods, with an IANA that may
\* fail and fetches as slow as the back-off is long.
SPECIFICATION FairSpec
CONSTANTS
    com = com
    new = new
    NoTask = NoTask
    Tasks = {t1, t2}
    Tlds = {com, new}
    Listed <- Delegated
    RefreshAfter = 3
    RetryAfter = 2
    FetchTimeout = 2
    MaxVersion = 2
    MaxTime = 7
CHECK_DEADLOCK FALSE
INVARIANTS
    TypeOK
    OneFetch
    ServersComeFromData
PROPERTIES
    DataNeverRegresses
    BackoffRespected
    OutageServesStale
    LookupsEnd
