SPECIFICATION Spec
CONSTANTS
    Nodes = {n1}
    Leader = l
    MaxAttempts = 3
    Budgets <- CoreBudget
INVARIANTS
    TypeOK
    ServedIsUp
PROPERTIES
    OnlyAnnouncedIsServed
    ImplementsCutover
\* the project may simply not be deployed again
CHECK_DEADLOCK FALSE
