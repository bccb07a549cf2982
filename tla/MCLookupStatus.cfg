\* A domain whose registrar knows nothing of it.
SPECIFICATION Spec
CONSTANTS
    Inputs <- DomainsOnly
    RdapBodies <- DomainBodies
    IpBodies <- NetworkBodies
    Texts <- RegistryTexts
    ReferralTexts <- RegistrarTexts
    IpTexts <- FirstIpTexts
    IpReferralTexts <- NextIpTexts
    MaxRetryAttempts = 3
    MaxReferrals = 2
INVARIANTS
    NegativeMeansNoRecord
