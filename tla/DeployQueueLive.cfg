SPECIFICATION FairSpec
CONSTANTS
    Projects = {p, q}
    MaxInst = 2
    Budgets <- Live
PROPERTIES
    QueuedEventuallyLeaves
\* no deployment has to be requested
CHECK_DEADLOCK FALSE
