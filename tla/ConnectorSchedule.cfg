SPECIFICATION Spec
CONSTANTS
    a1 = a1
    t1 = t1
    t2 = t2
    p1 = p1
    unassigned = unassigned
    Accounts <- MCAccounts
    Ticks <- MCTicks
    Repos <- MCRepos
    Scopes <- MCScopes
    Schedules <- MCSchedules
    Policies = {"skip", "run_once"}
    GlobalCap = 1
    MaxRuns = 2
    MaxRevision = 2
    Lease = 1
    MaxClock = 3
    MaxScheduleRev = 2
    MaxManual = 1
    DisturbUntil = 2
SYMMETRY MCSymmetry
INVARIANTS
    TypeOK
    LinkedRuns
    RunsCapped
CHECK_DEADLOCK FALSE
