SPECIFICATION Spec
CONSTANTS
    Absent = Absent
    t1 = t1
    t2 = t2
    s1 = s1
    s2 = s2
    s3 = s3
    Onboarder = {t1, t2}
    Session = {s1, s2}
    Ids <- MCIds
    Connectors <- MCIds
    Versions = {"0.1.0"}
    Bodies = {"shipped"}
    Base <- MCBase
    Candidates = {}
    Requests = {}
    AllowLegacy = TRUE
    MaxCalls = 5
    MaxCrashes = 1
SYMMETRY Symmetry
INVARIANTS
    TypeOK
    BindingHasToken
    SessionHasCode
    TokensWereGranted
    OneExchange
    EnabledInCatalog
    RepliesHold
CHECK_DEADLOCK FALSE
