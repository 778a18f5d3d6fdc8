SPECIFICATION Spec
CONSTANTS
    c1 = c1
    c2 = c2
    o1 = o1
    o2 = o2
    x = x
    y = y
    unassigned = unassigned
    Calendars <- TwoCalendars
    Occurrences <- MCOccurrences
    Contents <- MCContents
    Floating <- MCFloating
    Window <- OneWindow
    Scopes <- MCScopes
    PageSize = 1
    MaxPages = 2
    MaxRefreshes = 1
    MaxRevision = 1
    MaxChanges = 0
SYMMETRY MCSymmetry
INVARIANTS
    FailuresSettle
CHECK_DEADLOCK FALSE
