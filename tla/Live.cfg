SPECIFICATION FairSpec
CONSTANTS
    Automations = {a1}
    Ticks = {t1, t2}
    Schedules <- Once
    Modes = {"automatic_read_only"}
    Policies = {"run_once"}
    RetryLimits <- TwoRetries
    MaxBatchSize = 2
    MaxActiveOccurrences = 1
    MaxActiveRuns = 2
    MaxSetupAttempts = 3
    Lease = 1
    RetryDelay = 1
    MaxClock = 3
    MaxRevision = 1
    MaxManualRuns = 0
    DisturbUntil = 2
PROPERTIES
    OccurrencesProgress
    EndedRunsMirrored
