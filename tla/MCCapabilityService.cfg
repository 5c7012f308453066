SPECIFICATION Spec
CONSTANTS
    Absent = Absent
    w1 = w1
    w2 = w2
    w3 = w3
    Worker = {w1, w2, w3}
    Ids <- MCIds
    Versions <- MCVersions
    Bodies <- MCBodies
    Base <- MCBase
    Candidates <- MCCandidates
    Requests <- MCRequests
    AllowLegacy = TRUE
    MaxCalls = 4
    MaxCrashes = 1
    MaxDiskErrors = 1
SYMMETRY WorkerSymmetry
INVARIANTS
    TypeOK
    WriteIsFresh
    RunIsStable
    CatalogBacked
    AnswersHold
    StagingBounded
PROPERTIES
    ArtifactImmutable
    PromotedWhole
    ImplementsAtomicCatalog
CHECK_DEADLOCK FALSE
