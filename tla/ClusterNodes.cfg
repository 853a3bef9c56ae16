SPECIFICATION FairSpec
CONSTANTS
    Leader = L
    Followers = {f, g}
    Versions = {0, 1, 2}
    MaxJobs = 2
    Budgets <- AllBudgets
INVARIANTS
    RestartsAreTold
PROPERTIES
    LeaderLast
    RolloutConverges
    RoutesFollowNodes
CHECK_DEADLOCK FALSE
