\* Domains, addresses and malformed queries, with RDAP and WHOIS answering at will.
SPECIFICATION Spec
CONSTANTS
    Inputs <- AllInputs
    RdapBodies <- DomainBodies
    IpBodies <- NetworkBodies
    Texts <- RegistryTexts
    ReferralTexts <- RegistrarTexts
    IpTexts <- FirstIpTexts
    IpReferralTexts <- NextIpTexts
    MaxRetryAttempts = 3
    MaxReferrals = 2
INVARIANTS
    TypeOK
    FieldsKept
    ThrottleHidden
    NoticeNeverMasks
    AnswerIsItsServers
    AgesMatch
    OnlyTransientRetried
    RdapAnswerIsFinal
    WaitersAgree
    SpecialNeverAsked
    RirUnambiguous
PROPERTIES
    LiveBypassesCache
