SPECIFICATION FairSpec
CONSTANTS
    Nodes = {n1}
    Leader = l
    MaxAttempts = 3
    Budgets <- LiveBudget
PROPERTIES
    EveryGenerationCutsOver
    OldGenerationsDrained
\* the project may simply not be deployed again
CHECK_DEADLOCK FALSE
