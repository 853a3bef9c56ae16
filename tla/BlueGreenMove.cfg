SPECIFICATION FairSpec
CONSTANTS
    Nodes = {n1, n2}
    Leader = n2
    MaxAttempts = 2
    Budgets <- MoveBudget
INVARIANTS
    ConfMatchesGeneration
    RunningIsTracked
PROPERTIES
    ClearedProjectGoesAway
\* the project may simply not be deployed again
CHECK_DEADLOCK FALSE
