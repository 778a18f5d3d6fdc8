SPECIFICATION Spec
CONSTANTS
    Memories = {m1, m2, m3}
    None = None
    p1 = p1
    unassigned = unassigned
    Scopes <- MCScopes
    Births <- MCBirths
    Requests = {q1, q2}
    Jobs = {j1}
    Identities = {i1, i2}
    BatchLimit = 1
    MaxRefined = 1
    MaxFound = 3
    MaxRequested = 470
SYMMETRY MCSymmetry
INVARIANTS
    TypeOK
    
PROPERTIES
    SupersededOnce
    InactiveFrozen
    BatchEmbedsActive
