SPECIFICATION ControlsSpec
CONSTANTS
    Absent = Absent
    Files <- MCFiles
    Envs <- MCEnvs
    Requests <- MCRequests
    Principals = {"guest", "service-orchestrator"}
    Roles = {"service", "operator", "admin"}
    Sessions <- MCSessions
    Threads = {"t1", "t2"}
    Nonces = {"n1", "n2"}
    Actions = {"draft", "send"}
    RevocationIds = {"r1", "r2"}
    Manifests <- MCManifests
    Decisions <- MCDecisions
    MaxTime = 2
    MaxRestarts = 1
    MaxCalls = 4
    Capabilities = {submit, send}
    Persons = {p1, p2}
    Targets = {form}
    Versions = {v7, v8}
    Secrets = {here, elsewhere}
    Lifetimes = {0, 1}
    MaxSeconds = 2
    Parts = 2
    MaxBindings = 1
    Values = {"x"}
    PackageRisks = {"low", "high"}
    Confirmations = {"always", "never"}
    Publishers = {"org", "lab"}
    Keys = {"k1", "k2"}
    Trusted <- MCTrusted
    HostApi = 1
    Signings <- MCSignings
    Packages <- MCPackages
SYMMETRY Symmetry
INVARIANTS
    TypesOK
    NonceSpentOnce
    AuthorizedWasBound
    LifetimesKept
    OpenOnlyOnRequest
    ServedWithRights
    Vetted
PROPERTIES
    ExpiredIsSpent
CHECK_DEADLOCK FALSE
