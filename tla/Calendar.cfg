SPECIFICATION Spec
CONSTANTS
    c1 = c1
    c2 = c2
    o1 = o1
    o2 = o2
    x = x
    y = y
    unassigned = unassigned
    Calendars <- MCCalendars
    Occurrences <- MCOccurrences
    Contents <- MCContents
    Floating <- MCFloating
    Window <- MCWindow
    Scopes <- MCScopes
    PageSize = 1
    MaxPages = 2
    MaxRefreshes = 3
    MaxRevision = 3
    MaxChanges = 2
SYMMETRY MCSymmetry
INVARIANTS
    TypeOK
    EvidenceSound
PROPERTIES
    EvidenceFenced
    MirrorsCalendar
CHECK_DEADLOCK FALSE
