SPECIFICATION SystemSpec
CONSTANTS
    Absent = Absent
    w1 = w1
    w2 = w2
    t1 = t1
    t2 = t2
    s1 = s1
    s2 = s2
    Worker = {w1, w2}
    Onboarder = {t1}
    Session = {s1, s2}
    Ids <- MCIds
    Connectors <- MCConnectors
    Versions = {"1"}
    Bodies = {"a", "b"}
    Base <- MCBase
    Candidates <- MCCandidates
    Requests <- MCRequests
    AllowLegacy = TRUE
    MaxCalls = 4
    MaxCrashes = 1
    MaxDiskErrors = 1
SYMMETRY Symmetry
INVARIANTS
    ConnectorRunHasToken
    EntriesHaveOrigin
CHECK_DEADLOCK FALSE
