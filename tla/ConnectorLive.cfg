SPECIFICATION FairSpec
CONSTANTS
    a1 = a1
    t1 = t1
    t2 = t2
    p1 = p1
    unassigned = unassigned
    Accounts <- MCAccounts
    Ticks = {t1}
    Repos <- MCRepos
    Scopes <- MCScopes
    Schedules <- MCSchedules
    Policies = {"skip", "run_once"}
    GlobalCap = 1
    MaxRuns = 4
    MaxRevision = 2
    Lease = 1
    MaxClock = 3
    MaxScheduleRev = 2
    MaxManual = 0
    DisturbUntil = 2
PROPERTY
    OccurrencesEnd
CHECK_DEADLOCK FALSE
