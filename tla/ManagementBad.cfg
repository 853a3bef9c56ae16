\* A statement about the program that does not hold: TLC ends with a counterexample.
\* The other statements that fail, and what to change below to see how:
\*   AccessAlwaysEnds: AccessBudgets <- Outage
\*   AccessEndsWithTheApp: AccessBudgets <- Uninstalled
\*   AnyNodeServes: AccessBudgets <- Follower
\*   ConsumersAreServedAfterAll: Parts = {"projects"}, ProjectBudgets <- RefusedHook
\*   ConsumersAreServedAfterCreate: Parts = {"projects"}, ProjectBudgets <- CreateOver
\*   ConsumersAreServedInAnyOrder: Parts = {"projects"}, ProjectBudgets <- OverHook
\*   DeletedProjectStaysDeleted (PROPERTY): Parts = {"projects"}, ProjectBudgets <- OverDelete
\*   DotenvIsCompleteAlways: Parts = {"projects"}, ProjectBudgets <- OverSync
\*   GrantsAreKeptInAnyOrder: AccessBudgets <- TwoWrites
\*   HookDiesWithProject: Parts = {"projects"}, ProjectBudgets <- DeleteHook
\*   HookIsOursAfterCrash: Parts = {"projects"}, ProjectBudgets <- CrashHook
\*   HookIsOursAfterCreate: Parts = {"projects"}, ProjectBudgets <- CreateOver
\*   LatePortsAreFree: Parts = {"reservations"}, ReservationBudgets <- Late
\*   MetricsAreForViewers
\*   NewProjectIsNew: Parts = {"projects"}, ProjectBudgets <- Recreate
\*   NodesAreForAdmins
\*   OutageNeverBlocks: AccessBudgets <- Outage
\*   ProjectsAreOverwrittenWithRights
\*   QuotaIsTheAdmins: Parts = {"projects"}, ProjectBudgets <- CreateOver
\*   ReleasedPortsAreFree: Parts = {"reservations"}, ReservationBudgets <- Release
\*   ReservationsAlwaysDieWithProject: Parts = {"reservations"}, ReservationBudgets <- Delete
\*   ReservationsAreAlwaysDistinct: Parts = {"reservations"}, ReservationBudgets <- Twice
\*   ScheduleMatchesAfterCreate: Parts = {"projects"}, ProjectBudgets <- CreateOver
\*   SecretIsForAdmins
\*   TaskDiesWithProject: Parts = {"projects"}, ProjectBudgets <- DeleteTask
\*   UserValuesSurviveCrash: Parts = {"projects"}, ProjectBudgets <- CrashSync
\*   UserValuesSurviveUnread: Parts = {"projects"}, ProjectBudgets <- Unread
\*   WritesSurviveOverlap: Parts = {"projects"}, ProjectBudgets <- Over
SPECIFICATION Spec
CONSTANTS
    Parts = {"access"}
    Names = {"API_KEY", "PORT"}
    Setups <- MCSetups
    Flows = {1, 2}
    ProjectBudgets <- Unread
    Users = {"ann", "root"}
    Supers = {"root"}
    Login = "ann"
    Machine = {"machine"}
    Grants <- MCGrants
    Starts <- MCStarts
    Asked <- MCAsked
    TTL = 2
    AccessTime = 4
    AccessBudgets <- Rare
    Projects = {"p", "q"}
    Nodes = {"m", "n"}
    EnvVars = {"A", "B"}
    Ports = {1, 2, 3}
    System = {1}
    ReservationRequests = {1, 2}
    ReservationBudgets <- MCReservations
INVARIANTS
    LogsAreForDeployers
CHECK_DEADLOCK FALSE
