SPECIFICATION Spec
CONSTANTS
    Projects = {p, q}
    MaxInst = 3
    Budgets <- Safety
INVARIANTS
    QueueMatchesRows
    BacklogIsDrained
    SettledRowFreesSlot
PROPERTIES
    FirstComeFirstDeployed
\* no deployment has to be requested
CHECK_DEADLOCK FALSE
