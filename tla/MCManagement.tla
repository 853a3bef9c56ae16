---------------------------- MODULE MCManagement ----------------------------
(* What the leader manages for its users: a project's configuration, the   *)
(* ports reserved for it, and who may do what. The components share no     *)
(* state that is modelled, so each behaviour checked here lets one of them *)
(* move.                                                                   *)
EXTENDS Integers, Sequences, FiniteSets

CONSTANTS
    Parts,  \* the components to check
    Names, Setups, Flows, ProjectBudgets,
    Users, Supers, Login, Machine, Grants, Starts, Asked, TTL, AccessTime, AccessBudgets,
    Projects, Nodes, EnvVars, Ports, System, ReservationRequests, ReservationBudgets

\* 0 is a port that a proxy does not have, "none" the node of a project that is deleted.
ASSUME PortsAssumption == 0 \notin Ports /\ "none" \notin Nodes
ASSUME NamesAssumption == IsFiniteSet(Names)

VARIABLES
    part,
    row, secrets, wants, task, hooks, created, repo, flow, asked, missing, used,
    now, kind, github, until, changed, cache, inflight, config, override, admins, sessions, aFlow, aAsked, aUsed,
    node, reserved, request, plan, running, rUsed

C == INSTANCE ProjectConfig WITH Budgets <- ProjectBudgets
Http == INSTANCE Routes
A == INSTANCE Access WITH MaxTime <- AccessTime, Budgets <- AccessBudgets,
                          flow <- aFlow, asked <- aAsked, used <- aUsed
R == INSTANCE Reservations WITH Requests <- ReservationRequests, Budgets <- ReservationBudgets, used <- rUsed

ASSUME RightsAssumption == A!AccessAssumption

cVars == <<row, secrets, wants, task, hooks, created, repo, flow, asked, missing, used>>
aVars == <<now, kind, github, until, changed, cache, inflight, config, override, admins, sessions, aFlow, aAsked, aUsed>>
rVars == <<node, reserved, request, plan, running, rUsed>>

\* A component that does not move begins in one state.
Init ==
    /\ part \in Parts
    /\ C!Init /\ A!Init /\ R!Init
    /\ part # "access" => kind = "user" /\ config.exists
    /\ part # "reservations" => node = [p \in Projects |-> CHOOSE n \in Nodes : TRUE]

Next ==
    \/ part = "projects" /\ C!Next /\ UNCHANGED <<part, aVars, rVars>>
    \/ part = "access" /\ A!Next /\ UNCHANGED <<part, cVars, rVars>>
    \/ part = "reservations" /\ R!Next /\ UNCHANGED <<part, cVars, aVars>>

Spec == Init /\ [][Next]_<<part, cVars, aVars, rVars>>

-----------------------------------------------------------------------------
(* The properties of each component that the run checks together *)

\* ProjectConfig.tla: what a user asked for is in the row, the secrets and the
\* dotenv of the project (projectController.ts, secretController.ts).
ProjectIsKept ==
    part = "projects" =>
        /\ C!TypeOK
        /\ C!WritesAreKept
        /\ C!UserValuesSurvive
        /\ C!DotenvIsComplete

\* ProjectConfig.tla: the hook at GitHub is the one the project knows, and serves
\* who needs it; so does the cron task (cicdController.ts, cdScheduler.ts).
TriggersMatchConfig ==
    part = "projects" =>
        /\ C!HookIsOurs
        /\ C!ConsumersAreServed
        /\ C!ScheduleMatchesConfig

\* Access.tla: a request is served by a node that may, for a caller with the right
\* to it, and whoever has the right is served (authz.ts, routes.ts).
AccessIsRight ==
    part = "access" =>
        /\ A!TypeOK
        /\ A!ActsWithRights
        /\ A!RightsAreHonoured
        /\ A!WritesRunOnTheLeader
        /\ A!GrantsAreKept

\* Reservations.tla: a port is reserved once, for a project that exists, and not
\* given to another (portReservationController.ts).
ReservationsHold ==
    part = "reservations" =>
        /\ R!TypeOK
        /\ R!ReservationsAreDistinct
        /\ R!ReservedPortsAreFree
        /\ R!ReservationsDieWithProject

-----------------------------------------------------------------------------
(* Stronger statements that the code does not keep; ManagementBad.cfg shows *)
(* a counterexample of each                                                *)

WritesSurviveOverlap == C!WritesSurviveOverlap
QuotaIsTheAdmins == C!QuotaIsTheAdmins
HookIsOursAfterCreate == C!HookIsOursAfterCreate
ConsumersAreServedAfterCreate == C!ConsumersAreServedAfterCreate
ScheduleMatchesAfterCreate == C!ScheduleMatchesAfterCreate
UserValuesSurviveUnread == C!UserValuesSurviveUnread
UserValuesSurviveCrash == C!UserValuesSurviveCrash
DotenvIsCompleteAlways == C!DotenvIsCompleteAlways
HookIsOursAfterCrash == C!HookIsOursAfterCrash
HookDiesWithProject == C!HookDiesWithProject
ConsumersAreServedInAnyOrder == C!ConsumersAreServedInAnyOrder
ConsumersAreServedAfterAll == C!ConsumersAreServedAfterAll
TaskDiesWithProject == C!TaskDiesWithProject
NewProjectIsNew == C!NewProjectIsNew
DeletedProjectStaysDeleted == C!DeletedProjectStaysDeleted
LogsAreForDeployers == A!LogsAreForDeployers
MetricsAreForViewers == A!MetricsAreForViewers
NodesAreForAdmins == A!NodesAreForAdmins
SecretIsForAdmins == A!SecretIsForAdmins
ProjectsAreOverwrittenWithRights == A!ProjectsAreOverwrittenWithRights
OutageNeverBlocks == A!OutageNeverBlocks
AccessEndsWithTheApp == A!AccessEndsWithTheApp
AccessAlwaysEnds == A!AccessAlwaysEnds
AnyNodeServes == A!AnyNodeServes
GrantsAreKeptInAnyOrder == A!GrantsAreKeptInAnyOrder
ReservationsAreAlwaysDistinct == R!ReservationsAreAlwaysDistinct
LatePortsAreFree == R!LatePortsAreFree
ReleasedPortsAreFree == R!ReleasedPortsAreFree
ReservationsAlwaysDieWithProject == R!ReservationsAlwaysDieWithProject

-----------------------------------------------------------------------------
(* Bounds: how often events of each kind may happen, not at all where unnamed *)

MCSetups == {[triggers |-> {"push"}, cron |-> "none"], [triggers |-> {"schedule"}, cron |-> "valid"],
             [triggers |-> {"push", "schedule"}, cron |-> "valid"],
             [triggers |-> {"schedule", "release"}, cron |-> "invalid"]}
MCProject ==
    {[config |-> 1, quota |-> 1, key |-> 1, assign |-> 1, env |-> 1, crash |-> 1],
     [env |-> 2, sync |-> 1, deploy |-> 1, crash |-> 1, unread |-> 1, overlap |-> 1],
     [env |-> 1, sync |-> 1, deploy |-> 1, moved |-> 1, config |-> 1],
     [setup |-> 2, remove |-> 1, subscribe |-> 2, quit |-> 2, quota |-> 1],
     [setup |-> 2, remove |-> 1, subscribe |-> 1, quit |-> 1, crash |-> 1, refused |-> 1],
     [setup |-> 2, remove |-> 1, subscribe |-> 1, kept |-> 1, lost |-> 1],
     [setup |-> 1, remove |-> 1, subscribe |-> 1, quit |-> 1, overlap |-> 1],
     [delete |-> 1, create |-> 1, config |-> 1, env |-> 1, assign |-> 1, subscribe |-> 1, overlap |-> 1],
     [create |-> 1, over |-> 1, quota |-> 1, key |-> 1, assign |-> 1, env |-> 1],
     [create |-> 1, over |-> 1, setup |-> 2, remove |-> 1, subscribe |-> 1, quit |-> 1]}
Over == {[config |-> 1, assign |-> 1, overlap |-> 1]}
Unread == {[env |-> 1, sync |-> 1, unread |-> 1]}
CrashSync == {[env |-> 1, sync |-> 1, crash |-> 1]}
OverSync == {[sync |-> 1, deploy |-> 2, overlap |-> 1]}
CrashHook == {[subscribe |-> 1, quit |-> 1, crash |-> 1]}
DeleteHook == {[subscribe |-> 1, delete |-> 1]}
OverHook == {[subscribe |-> 2, quit |-> 1, overlap |-> 1]}
RefusedHook == {[setup |-> 1, refused |-> 1]}
DeleteTask == {[setup |-> 1, delete |-> 1]}
OverDelete == {[config |-> 1, delete |-> 1, overlap |-> 1]}
CreateOver == {[quota |-> 1, setup |-> 1, subscribe |-> 1, create |-> 1, over |-> 1]}
Recreate == {[sync |-> 1, env |-> 1, delete |-> 1, create |-> 1]}

MCAccess ==
    {[often |-> 1, membership |-> 1], [often |-> 1, installation |-> 1, unlisted |-> 2],
     [often |-> 1, membership |-> 1, installation |-> 1, unlisted |-> 2], [rare |-> 1],
     [often |-> 1, session |-> 1], [often |-> 1, write |-> 1, overlap |-> 1], [often |-> 1, outage |-> 1],
     [often |-> 1, slow |-> 1], [write |-> 2], [rare |-> 1, follower |-> 1]}
TwoWrites == {[write |-> 2, overlap |-> 1]}
Uninstalled == {[often |-> 1, membership |-> 1, installation |-> 1, unlisted |-> 1]}
Outage == {[often |-> 1, outage |-> 1, membership |-> 1]}
Follower == {[rare |-> 1, follower |-> 1]}
Rare == {[rare |-> 1]}
MCGrants == {{}, {"deploy"}}
Often == {Http!Deploy, Http!Private(<<Http!Leader, Http!Manage>>, "manage"),
          Http!Private(<<Http!Leader, Http!Member>>, "list")}
ByMachine == {p \in Http!Programs : \E i \in DOMAIN p.checks : p.checks[i].check \in {"key", "hook", "apikey", "secret"}}
Granting == {p \in Http!Programs : p.does \in {"defaults", "override", "clear", "promote", "demote"}}
MCAsked == [ann |-> [often |-> Often, rare |-> Http!Programs \ (ByMachine \cup Often), write |-> {}],
            root |-> [often |-> {}, rare |-> {}, write |-> Granting],
            machine |-> [often |-> {}, rare |-> ByMachine, write |-> {}]]
Hub(installed, members, owners) == [installed |-> installed, members |-> members, owners |-> owners]
Start(k, hub, caps, adm, warm) == [kind |-> k, github |-> hub, caps |-> caps, admins |-> adm, warm |-> warm]
Ann == {"ann"}
MayDeploy == {"deploy"}
MCStarts ==
    {Start("org", Hub(TRUE, Ann, {}), MayDeploy, {}, TRUE), Start("org", Hub(TRUE, Ann, {}), MayDeploy, {}, FALSE),
     Start("org", Hub(TRUE, Ann, Ann), {}, {}, TRUE), Start("org", Hub(TRUE, {}, {}), MayDeploy, {}, TRUE),
     Start("org", Hub(TRUE, Ann, {}), {}, Ann, FALSE), Start("org", Hub(FALSE, Ann, {}), MayDeploy, {}, TRUE),
     Start("org", Hub(FALSE, {}, {}), MayDeploy, Ann, FALSE), Start("user", Hub(TRUE, {}, {}), {}, {}, FALSE),
     Start("user", Hub(FALSE, {}, {}), MayDeploy, {}, TRUE)}

MCReservations ==
    {[reserve |-> 2, release |-> 1, deploy |-> 1, delete |-> 1], [reserve |-> 1, deploy |-> 2, move |-> 1],
     [reserve |-> 1, deploy |-> 2, overlap |-> 2, late |-> 1], [reserve |-> 2, overlap |-> 1, twice |-> 1, delete |-> 1]}
Twice == {[reserve |-> 2, overlap |-> 1, twice |-> 1]}
Late == {[reserve |-> 1, deploy |-> 1, late |-> 1]}
Release == {[reserve |-> 2, deploy |-> 1, release |-> 1]}
Delete == {[reserve |-> 1, overlap |-> 1, delete |-> 1]}

=============================================================================
