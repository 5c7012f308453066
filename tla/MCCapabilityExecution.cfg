SPECIFICATION FairSpec
CONSTANTS
    Labels <- MCLabels
    PrivateHosts <- MCPrivateHosts
    Allowlist <- MCAllowlist
    Denylist <- MCDenylist
    AllowPrivateNetworks = TRUE
    Tools <- MCTools
    Channels = {"programmatic", "vdi_vpn"}
    ServerIds = {"s1", "s2"}
    Listings <- MCListings
    AllowLegacy = TRUE
    Absent = Absent
INVARIANTS
    TypeOK
    EgressKept
    ManifestKept
    AnswerIsTrue
    CalledAsListed
PROPERTIES
    RunEnds
