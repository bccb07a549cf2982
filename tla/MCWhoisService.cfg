\* Two lookups of one TLD, one permit, one retry, hosts that move, hang and refer.
SPECIFICATION FairSpec
CONSTANTS
    iana = iana
    nic = nic
    alt = alt
    None = None
    Tasks = {t1, t2}
    Servers = {iana, nic, alt}
    Root = iana
    Patterns <- NicOnly
    MaxRetryAttempts = 1
    ReferralTimeout = 10
    TotalTimeoutMultiplier = 2
    RequestTimeout = 60
    MaxDiscoveryTimeout = 10
    Systems <- Machines
    Environments <- Settings
    MaxPermits = 1
    InitialKinds <- AllAnswer
    InitialNames = {alt}
    Incidents <- Trouble
    ReferChoices <- Cycle
    MaxMoves = 2
    MaxDisconnects = 1
INVARIANTS
    TypeOK
    PermitsConserved
    BuffersBounded
    DefaultsStart
    LookupTimeBounded
    SettledLookupsSucceed
PROPERTIES
    ChainBounded
    EveryLookupEnds
    TldRecovers
