SPECIFICATION Spec
CONSTANTS
    Memories = {m1, m2, m3, m4}
    None = None
    p1 = p1
    unassigned = unassigned
    Scopes = {p1}
    Births <- OneBirth
    Requests = {q1, q2}
    Jobs = {}
    Identities = {i1}
    BatchLimit = 2
    MaxRefined = 0
    MaxFound = 1
    MaxRequested = 1
SYMMETRY MCSymmetry
INVARIANT
    ExportsRestore
