SPECIFICATION Spec
CONSTANTS
    Parts = {"projects", "access", "reservations"}
    Names = {"API_KEY", "PORT"}
    Setups <- MCSetups
    Flows = {1, 2}
    ProjectBudgets <- MCProject
    Users = {"ann", "root"}
    Supers = {"root"}
    Login = "ann"
    Machine = {"machine"}
    Grants <- MCGrants
    Starts <- MCStarts
    Asked <- MCAsked
    TTL = 2
    AccessTime = 4
    AccessBudgets <- MCAccess
    Projects = {"p", "q"}
    Nodes = {"m", "n"}
    EnvVars = {"A", "B"}
    Ports = {1, 2, 3}
    System = {1}
    ReservationRequests = {1, 2}
    ReservationBudgets <- MCReservations
INVARIANTS
    ProjectIsKept
    TriggersMatchConfig
    AccessIsRight
    ReservationsHold
CHECK_DEADLOCK FALSE
