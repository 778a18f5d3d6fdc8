SPECIFICATION Spec
CONSTANTS
    Captures = {c1}
    Scopes = {p1, unassigned}
    Texts = {t1, t2}
    Sources = {s1, s2}
    None = None
    Workers = {w1, w2}
    MaxRevision = 3
    MaxRows = 2
    MaxRuns = 2
SYMMETRY MCSymmetry
CHECK_DEADLOCK FALSE
INVARIANTS
    TypeOK
    
    ReplayExact
    CaptureSealed
    EvidenceExact
PROPERTY
    DecisionsKept
