\* A statement about the program that does not hold: TLC ends with a counterexample.
\* The other statements that fail, and what to change below to see how:
\*   ActiveIsUp: Budgets <- OneRace
\*   ActiveIsUp: Nodes = {n1, n2}, Budgets <- OneReassign
\*   BuildMatchesConf (PROPERTY)
\*   CancelKeepsServing (PROPERTY)
\*   CancelledBuildIsNotDeployed (PROPERTY): Budgets <- OneCancelInPlace
\*   ClearedAfterTeardown (PROPERTY): Budgets <- OneTeardown
\*   ClearedProjectStops (PROPERTY): SPECIFICATION FairSpec, MaxAttempts = 2, Budgets <- OneStuckTeardown
\*   FlagHitsItsBuild
\*   LostReportIsRepeated (PROPERTY): SPECIFICATION FairSpec, Budgets <- OneLoss
\*   RunningIsAlwaysTracked: Budgets <- OneCrash
\*   RunningIsAlwaysTracked: Budgets <- OneStuck
\*   SupersededContainersStop (PROPERTY): SPECIFICATION FairSpec, MaxAttempts = 2, Budgets <- NoTroubleInPlace
SPECIFICATION Spec
CONSTANTS
    Nodes = {n1}
    Leader = l
    MaxAttempts = 3
    Budgets <- OneCancel
INVARIANTS
    ActiveIsUp
CHECK_DEADLOCK FALSE
