SPECIFICATION Spec
CONSTANTS
    Absent = Absent
    w1 = w1
    w2 = w2
    w3 = w3
    Worker = {w1, w2}
    Ids <- MCIds
    Versions <- MCVersions
    Bodies <- MCBodies
    Base <- MCBase
    Candidates <- MCCandidates
    Requests <- MCRequests
    AllowLegacy = TRUE
    MaxCalls = 3
    MaxCrashes = 1
    MaxDiskErrors = 0
INVARIANTS
    InstallIsTransactional
CHECK_DEADLOCK FALSE
