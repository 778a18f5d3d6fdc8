SPECIFICATION Spec
CONSTANTS
    Automations = {a1, a2}
    Ticks = {t1}
    Schedules <- Once
    Modes = {"create_only"}
    Policies = {"skip", "run_once"}
    RetryLimits <- NoRetry
    MaxBatchSize = 1
    MaxActiveOccurrences = 1
    MaxActiveRuns = 1
    MaxSetupAttempts = 3
    Lease = 1
    RetryDelay = 1
    MaxClock = 2
    MaxRevision = 2
    MaxManualRuns = 1
    DisturbUntil = 0
SYMMETRY AutomationSymmetry
INVARIANT
    CapacityRespected

    
