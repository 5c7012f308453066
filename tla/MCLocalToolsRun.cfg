SPECIFICATION Spec
CONSTANTS
    Labels <- MCLabels
    PrivateHosts <- MCPrivateHosts
    Allowlist <- MCAllowlist
    Denylist <- MCDenylist
    AllowPrivateNetworks = TRUE
    Tools <- MCTools
    Channels = {"programmatic", "vdi_vpn"}
    ServerIds = {"s1", "s2"}
    Listings <- MCListings
    AllowLegacy = FALSE
    Absent = Absent
INVARIANTS
    LocalToolsRun
