SPECIFICATION Spec
CONSTANTS
    Automations = {a1}
    Ticks = {t1, t2}
    Schedules <- EveryInstant
    Modes = {"automatic_read_only"}
    Policies = {"run_once"}
    RetryLimits <- ThreeRetries
    MaxBatchSize = 2
    MaxActiveOccurrences = 2
    MaxActiveRuns = 2
    MaxSetupAttempts = 2
    Lease = 1
    RetryDelay = 1
    MaxClock = 3
    MaxRevision = 1
    MaxManualRuns = 0
    DisturbUntil = 3
SYMMETRY TickSymmetry
INVARIANTS
    TypeOK
    OneRunPerOccurrence
    
    SingleOpenOccurrence
PROPERTIES
    TerminalForever
