SPECIFICATION Spec
CONSTANTS
    a1 = a1
    p1 = p1
    i1 = i1
    i2 = i2
    i3 = i3
    project = project
    unassigned = unassigned
    Accounts <- MCAccounts
    Repos <- MCRepos
    Items <- MCItems
    Scopes <- MCScopes
    GlobalCap = 1
    MaxRuns = 2
    MaxRevision = 4
    PageSize = 1
    MaxPages = 2
    MaxEdits = 1
SYMMETRY MCSymmetry
INVARIANTS
    TypeOK
    

    
    
CHECK_DEADLOCK FALSE
