SPECIFICATION Spec
CONSTANTS
    Absent = Absent
    c1 = c1
    c2 = c2
    c3 = c3
    h1 = h1
    h2 = h2
    v1 = v1
    k1 = k1
    k2 = k2
    Client = {c1, c2, c3}
    Handles = {h1, h2}
    Values = {v1}
    Keys = {k1, k2}
    MaxCalls = 4
    MaxCrashes = 1
SYMMETRY Symmetry
INVARIANTS
    TypeOK
PROPERTIES
    KeyKept
    ImplementsSecretsMap
CHECK_DEADLOCK FALSE
