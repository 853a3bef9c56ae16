---------------------------- MODULE Reservations ----------------------------
(* Host ports reserved for a project on a node                             *)
(* (controllers/portReservationController.ts) and what planning makes of   *)
(* them (deployController.ts:143-162): the project's own become variables  *)
(* of its .env, all of the node's are kept out of the pool that ports for  *)
(* proxies are taken from. A port stands for a number and a protocol.      *)
EXTENDS Integers, FiniteSets

CONSTANTS
    Projects, Nodes, EnvVars,
    Ports,    \* of every node
    System,   \* those of NSM itself
    Requests, \* at once
    Budgets   \* bound: each is how often events of the kinds it names may happen

Kinds == {"reserve", "release", "deploy", "move", "delete",
          "late",    \* a port is reserved that a deployment has been given, or may be
          "twice",   \* a port is asked for while another request is between its look and its write
         "overlap"} \* another event while a request or a planning is under way

VARIABLES
    node,     \* per project: its assigned node, "none" once it is deleted
    reserved, \* PortReservationModel
    request,  \* per request: the reservation that was found to be free
    plan,     \* per project: the deployment that is being planned
    running,  \* per project: what its containers were started with
    used      \* how often an event of each kind has happened

vars == <<node, reserved, request, plan, running, used>>

May(kinds) ==
    \E b \in Budgets : \A k \in Kinds :
        used[k] + (IF k \in kinds THEN 1 ELSE 0) <= IF k \in DOMAIN b THEN b[k] ELSE 0
Uses(kinds) ==
    /\ May(kinds)
    /\ used' = [k \in Kinds |-> used[k] + (IF k \in kinds THEN 1 ELSE 0)]
Never(kinds) == \A k \in kinds : used[k] = 0

\* A deployment: its node, the port its proxy has, and its reserved ports by variable.
None == [node |-> "none", port |-> 0, own |-> {}, pool |-> {}, at |-> "none"]
Free == [node |-> "none", port |-> 0, project |-> "none", env |-> "none"]
Quiet == (\A q \in Requests : request[q] = Free) /\ \A p \in Projects : plan[p] = None
Begins(kinds) == Uses(kinds \cup (IF Quiet THEN {} ELSE {"overlap"}))
\* Ports of a node that deployments have.
Held(n) == {plan[p].port : p \in {p \in Projects : plan[p].node = n}}
           \cup {running[p].port : p \in {p \in Projects : running[p].node = n}}

Late(r) ==
    r.port \in Held(r.node) \/ \E p \in Projects : plan[p].node = r.node /\ r.port \in plan[p].pool
BoundBy(p) == {running[p].port} \cup {r.port : r \in running[p].own}

-----------------------------------------------------------------------------
(* createReservation, deleteReservation *)

Clashes(r) ==
    \E x \in reserved : x.node = r.node /\ (x.port = r.port \/ (x.project = r.project /\ x.env = r.env))

CreateReservation(q, r) ==
    /\ request[q] = Free
    /\ node[r.project] # "none" /\ r.port \notin System /\ ~Clashes(r)
    /\ Begins({"reserve"} \cup (IF \A p \in Requests : request[p] = Free THEN {} ELSE {"twice"}))
    /\ request' = [request EXCEPT ![q] = r]
    /\ UNCHANGED <<node, reserved, plan, running>>

\* UPSERT_PORT_RESERVATION, with an id of its own.
UpsertReservation(q) ==
    /\ request[q] # Free
    /\ IF Late(request[q]) THEN Uses({"late"}) ELSE UNCHANGED used
    /\ reserved' = reserved \cup {request[q]}
    /\ request' = [request EXCEPT ![q] = Free]
    /\ UNCHANGED <<node, plan, running>>

DeleteReservation(r) ==
    /\ r \in reserved /\ Begins({"release"})
    /\ reserved' = reserved \ {r}
    /\ UNCHANGED <<node, request, plan, running>>

-----------------------------------------------------------------------------
(* Planning *)

\* getPortReservationsByNodeAndProjectModel, then getReservedPortNumbersForNodeModel.
PlanOwn(p) ==
    /\ node[p] # "none" /\ plan[p] = None /\ Begins({"deploy"})
    /\ plan' = [plan EXCEPT ![p] = [None EXCEPT !.node = node[p], !.at = "pool",
                                                !.own = {r \in reserved : r.node = node[p] /\ r.project = p}]]
    /\ UNCHANGED <<node, reserved, request, running>>

\* mutant: only the project's own ports are kept out of the pool
PlanPool_Own(p) ==
    /\ plan[p].at = "pool"
    /\ plan' = [plan EXCEPT ![p].at = "allocate",
                            ![p].pool = Ports \ (System \cup {r.port : r \in plan[p].own})]
    /\ UNCHANGED <<node, reserved, request, running, used>>

PlanPool(p) ==
    /\ plan[p].at = "pool"
    /\ plan' = [plan EXCEPT ![p].at = "allocate",
                            ![p].pool = Ports \ (System \cup {r.port : r \in {r \in reserved : r.node = plan[p].node}})]
    /\ UNCHANGED <<node, reserved, request, running, used>>

\* The node (PortLedger) allots a port of the pool that nobody has, or the deployment fails.
Allocate(p) ==
    LET n == plan[p].node
        choices == plan[p].pool \ Held(n) IN
    /\ plan[p].at = "allocate"
    /\ \/ choices = {} /\ plan' = [plan EXCEPT ![p] = None]
       \/ \E port \in choices : plan' = [plan EXCEPT ![p].port = port, ![p].at = "start"]
    /\ UNCHANGED <<node, reserved, request, running, used>>

\* The containers of before are replaced; those of another node are taken down.
Start(p) ==
    /\ plan[p].at = "start"
    /\ running' = [running EXCEPT ![p] = [plan[p] EXCEPT !.at = "up", !.pool = {}]]
    /\ plan' = [plan EXCEPT ![p] = None]
    /\ UNCHANGED <<node, reserved, request, used>>

\* SET_PROJECT_ASSIGNMENT
Move(p, n) ==
    /\ node[p] \notin {"none", n} /\ Begins({"move"})
    /\ node' = [node EXCEPT ![p] = n]
    /\ UNCHANGED <<reserved, request, plan, running>>

\* DELETE_PROJECT, after the project's containers are gone.
DeleteProject(p) ==
    /\ node[p] # "none" /\ plan[p] = None /\ Begins({"delete"})
    /\ node' = [node EXCEPT ![p] = "none"]
    /\ running' = [running EXCEPT ![p] = None]
    /\ reserved' = {r \in reserved : r.project # p}
    /\ UNCHANGED <<request, plan>>

-----------------------------------------------------------------------------
Init ==
    /\ \E n \in Nodes : node = [p \in Projects |-> n]
    /\ reserved = {} /\ request = [q \in Requests |-> Free]
    /\ plan = [p \in Projects |-> None] /\ running = [p \in Projects |-> None]
    /\ used = [k \in Kinds |-> 0]

Next ==
    \/ \E q \in Requests :
        \/ UpsertReservation(q)
        \/ \E n \in Nodes, port \in Ports, p \in Projects, e \in EnvVars :
            CreateReservation(q, [node |-> n, port |-> port, project |-> p, env |-> e])
    \/ \E r \in reserved : DeleteReservation(r)
    \/ \E p \in Projects :
        \/ PlanOwn(p) \/ PlanPool(p) \/ Allocate(p) \/ Start(p) \/ DeleteProject(p)
        \/ \E n \in Nodes : Move(p, n)

Spec == Init /\ [][Next]_vars

-----------------------------------------------------------------------------
(* Properties *)

TypeOK ==
    /\ node \in [Projects -> Nodes \cup {"none"}]
    /\ \A r \in reserved : r.node \in Nodes /\ r.port \in Ports \ System /\ r.project \in Projects /\ r.env \in EnvVars
    /\ \A p \in Projects : plan[p].port \in Ports \cup {0} /\ running[p].port \in Ports \cup {0}

\* No port of a node is reserved twice, and no variable of a project has two
\* ports on it (portReservationController.ts:64-70).
ReservationsAreDistinct ==
    Never({"twice"}) =>
        \A x, y \in reserved : x # y /\ x.node = y.node => x.port # y.port /\ (x.project = y.project => x.env # y.env)

\* A port that is reserved for a project is neither the proxy's nor another project's
\* (deployController.ts:146-148, ports.ts), so that its deployment can bind it.
ReservedPortsAreFree ==
    Never({"late", "release", "twice"}) => \A r \in reserved, p \in Projects : running[p].node = r.node =>
        running[p].port # r.port /\ (p # r.project => r.port \notin BoundBy(p))

\* Nothing is reserved for a project that is deleted (stateMachine.ts:120-124).
ReservationsDieWithProject == Never({"overlap"}) => \A r \in reserved : node[r.project] # "none"

-----------------------------------------------------------------------------
(* Claims that fail *)

\* Both of two requests at once find the port free.
ReservationsAreAlwaysDistinct ==
    \A x, y \in reserved : x # y /\ x.node = y.node => x.port # y.port
\* A port is reserved that another project's proxy already has.
LatePortsAreFree ==
    Never({"release", "twice"}) => \A r \in reserved, p \in Projects : running[p].node = r.node => running[p].port # r.port
\* A port is released, and reserved for another project, while its containers have it.
ReleasedPortsAreFree ==
    Never({"late", "twice"}) => \A r \in reserved, p \in Projects :
        p # r.project /\ running[p].node = r.node => r.port \notin BoundBy(p)
\* A reservation is written after its project is deleted.
ReservationsAlwaysDieWithProject == Quiet => \A r \in reserved : node[r.project] # "none"

=============================================================================
