SPECIFICATION FairSpec
CONSTANTS
    w1 = w1
    w2 = w2
    Workers <- MCWorkers
    Kinds <- MCKinds
    StepBudget = 3
    ToolCallBudget = 3
    RetryBudget = 1
    Deadline = 3
    StaleAfter = 1
    MaxClock = 4
INVARIANTS
    TypeOK
    SequentialExecution
    SuccessBacked
    RunningIsRecoverable
    StopsSettled
    WithinBudgets
PROPERTIES
    TerminalFrozen
    RunEnds
CHECK_DEADLOCK FALSE
