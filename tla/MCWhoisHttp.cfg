\* The code's own limits and defaults: 4 attempts of 15 s in a request of 60 s.
SPECIFICATION FairSpec
CONSTANTS
    iana = iana
    nic = nic
    alt = alt
    None = None
    Tasks = {t1}
    Servers = {iana, nic, alt}
    Root = iana
    Patterns <- NicOnly
    MaxRetryAttempts = 3
    ReferralTimeout = 10
    TotalTimeoutMultiplier = 2
    RequestTimeout = 60
    MaxDiscoveryTimeout = 10
    Systems <- Development
    Environments <- Unset
    MaxPermits = 2
    InitialKinds <- AllAnswer
    InitialNames = {alt}
    Incidents <- HostLost
    ReferChoices <- Cycle
    MaxMoves = 1
    MaxDisconnects = 0
PROPERTIES
    TldNotBrokenForGood
