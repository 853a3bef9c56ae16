\* A statement about the program that does not hold: TLC ends with a counterexample.
\* The other statements that fail, and what to change below to see how:
\*   GoneStaysGone (PROPERTY): Budgets <- LateReport
\*   LeaderIsAlwaysLast (PROPERTY): Budgets <- WishTakenBack
\*   NodesComeBack
\*   OneAtATime: Budgets <- LeaderCrash
\*   RoutesConverge (PROPERTY): SPECIFICATION FairSpec, Budgets <- ReloadFails
\*   ToldIsTrue: Budgets <- LostPings
\*   WarnedIsTrue: Budgets <- OneConfig
SPECIFICATION Spec
CONSTANTS
    Leader = L
    Followers = {f, g}
    Versions = {0, 1, 2}
    MaxJobs = 2
    Budgets <- SlowInstall
INVARIANTS
    OneAtATime
CHECK_DEADLOCK FALSE
