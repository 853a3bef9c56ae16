------------------------------- MODULE Routes -------------------------------
(* The HTTP interface (routes.ts, common/routes.ts): what every request is *)
(* checked for, in which order, and what its handler then does. The        *)
(* handlers themselves are actions of the other modules.                   *)
EXTENDS Sequences

(* Checks *)

Leader == [check |-> "leader", cap |-> "none"]         \* requireLeader: a follower forwards
Session == [check |-> "session", cap |-> "none"]       \* the private router's middleware
Admin == [check |-> "admin", cap |-> "none"]           \* requireAdmin
Super == [check |-> "super", cap |-> "none"]           \* requireSuperAdmin
Manage == [check |-> "manage", cap |-> "none"]         \* requireTeamManage
Member == [check |-> "member", cap |-> "none"]         \* the team's detail
Team(cap) == [check |-> "caps", cap |-> cap]           \* requireTeamCapability
Project(cap) == [check |-> "caps", cap |-> cap]        \* requireProjectCapability
Create == [check |-> "caps", cap |-> "create_project"] \* requireCreateProjectForOwner
Reveal == [check |-> "reveal", cap |-> "configure"]    \* redactProjectSecrets
Installed == [check |-> "installed", cap |-> "none"]   \* requireOwnerInstalledForProject
Key == [check |-> "key", cap |-> "none"]               \* verifyDeploymentKey
HookToken == [check |-> "hook", cap |-> "none"]        \* of handleGithubWebhook
ApiKey == [check |-> "apikey", cap |-> "none"]         \* authenticateApiKey
Secret == [check |-> "secret", cap |-> "none"]         \* requireClusterSecret

Route(checks, does) == [checks |-> checks, does |-> does]
Private(checks, does) == Route(<<Session>> \o checks, does)
Internal(checks, does) == Route(<<Secret>> \o checks, does)

See == Private(<<Leader, Project("view")>>, "see")
SeeTeam == Private(<<Leader, Team("view")>>, "see")
Configure == Private(<<Leader, Project("configure")>>, "configure")
SeeSecrets == Private(<<Leader, Project("configure")>>, "secrets")
Deploy == Private(<<Leader, Project("deploy")>>, "deploy")
Incident == Private(<<Leader, Project("manage_incidents")>>, "incidents")
Managing == Private(<<Leader, Manage>>, "manage")
Administer == Private(<<Leader, Admin>>, "administer")
\* What every user with a session may do.
Own == Private(<<Leader>>, "own")
\* Asked for nothing but a session, whatever project, node or team they are about.
ReadLogs == Private(<<Leader>>, "logs")
ReadMetrics == Private(<<Leader>>, "metrics")
ReadHost == Private(<<Leader>>, "host")

-----------------------------------------------------------------------------
(* The table *)

Public ==
    [healthz |-> Route(<<>>, "node"), metrics |-> Route(<<>>, "node"), install_sh |-> Route(<<>>, "node"),
     auth_github |-> Route(<<>>, "node"),
     GET_DEPLOY |-> Route(<<Key, Leader, Installed>>, "deploy"),
     POST_GITHUB_WEBHOOK |-> Route(<<Leader, HookToken, Installed>>, "deploy"),
     POST_GITHUB_LOGIN |-> Route(<<Leader>>, "login")]

ProjectAndTeamReads ==
    [GET_PROJECT |-> Private(<<Leader, Project("view"), Reveal>>, "secrets"),
     GET_PROJECTS |-> Private(<<Leader, Project("view"), Reveal>>, "secrets"),
     GET_PROJECT_INSTANCE |-> See, GET_PROJECT_DEPLOY_AVERAGE |-> See,
     GET_WORKER_NODES |-> Private(<<>>, "node"), GET_WORKER_STATUSES |-> Private(<<>>, "node"),
     GET_JOIN_INFO |-> Private(<<>>, "join"), GET_CONTROL_PLANE_STATUS |-> Private(<<>>, "node"),
     GET_ME |-> Own, GET_TEAMS |-> Administer,
     GET_TEAM |-> Private(<<Leader, Member>>, "list"), GET_ADMINS |-> Administer]

Observability ==
    [GET_OBSERVABILITY_LOGS |-> ReadLogs, GET_OBSERVABILITY_METRICS |-> ReadMetrics,
     GET_NODE_METRICS |-> ReadHost, GET_NODE_STORAGE |-> ReadHost, GET_NODE_STORAGE_SERIES |-> ReadHost,
     POST_NODE_STORAGE_SNAPSHOT |-> ReadHost,
     GET_PROJECT_RESOURCE_USAGE |-> See, GET_PROJECT_HEALTH |-> See]

FilesAndQuota ==
    [GET_PROJECT_FILES |-> SeeSecrets, GET_PROJECT_FILE |-> SeeSecrets, GET_PROJECT_FILE_RAW |-> SeeSecrets,
     POST_SET_PROJECT_QUOTA |-> Administer]

LogsAndGithub ==
    [GET_NSM_LOGS |-> ReadHost, POST_LOG_QUERY |-> ReadLogs, POST_LOG_FACETS |-> ReadLogs,
     GET_GITHUB_OWNERS |-> Own, GET_GITHUB_REPOS |-> Own, GET_GITHUB_BRANCHES |-> Own,
     GET_DEPLOY_WEB |-> Private(<<Leader, Project("deploy"), Installed>>, "deploy")]

\* A project may be created with the id of another: its row is overwritten, and the right
\* is asked of the team of the new one, which need not be the team of the other.
ProjectWrites ==
    [POST_CREATE_PROJECT |-> Private(<<Leader, Create>>, "create"),
     POST_CREATE_PROJECT_over |-> Private(<<Leader>>, "over"), POST_UPDATE_PROJECT |-> Configure,
     POST_DELETE_PROJECT |-> Private(<<Leader, Project("delete")>>, "delete"),
     POST_RESET_DEPLOYMENT_KEY |-> Configure, POST_UPDATE_ENV_VAR |-> Configure, POST_SYNC_TO_REPO |-> Configure,
     POST_TEARDOWN_PROJECT |-> Deploy, POST_CANCEL_DEPLOY |-> Deploy, POST_SET_PROJECT_ASSIGNMENT |-> Configure]

CdTeamsAndAdmins ==
    [POST_CICD_SETUP |-> Private(<<Leader, Project("configure"), Installed>>, "configure"),
     POST_CICD_REMOVE |-> Private(<<Leader, Project("configure"), Installed>>, "configure"),
     POST_SET_TEAM_DEFAULTS |-> Private(<<Leader, Manage>>, "defaults"),
     POST_SET_TEAM_OVERRIDE |-> Private(<<Leader, Manage>>, "override"),
     POST_DELETE_TEAM_OVERRIDE |-> Private(<<Leader, Manage>>, "clear"),
     POST_ADD_ADMIN |-> Private(<<Leader, Super>>, "promote"),
     POST_REMOVE_ADMIN |-> Private(<<Leader, Super>>, "demote"),
     POST_GITHUB_LOGOUT |-> Own]

Push ==
    [GET_VAPID_PUBLIC_KEY |-> Own, POST_PUSH_SUBSCRIBE |-> Own, POST_PUSH_UNSUBSCRIBE |-> Own,
     GET_PROJECT_NOTIFICATION |-> See, POST_SET_PROJECT_NOTIFICATION |-> See, POST_PUSH_TEST |-> Own,
     POST_CLIENT_LOGS |-> Private(<<>>, "node")]

Registrar ==
    [GET_TEAM_REGISTRAR |-> SeeTeam, POST_TEAM_REGISTRAR |-> Managing, POST_TEAM_REGISTRAR_REMOVE |-> Managing,
     GET_TEAM_DOMAINS |-> SeeTeam, GET_TEAM_DOMAIN_REQUESTS |-> SeeTeam, GET_TEAM_DOMAIN_BILLING |-> SeeTeam,
     POST_TEAM_DOMAIN_SEARCH |-> SeeTeam, POST_TEAM_DOMAIN_CHECK |-> SeeTeam]

Domains ==
    [POST_TEAM_DOMAIN_BUY |-> Managing,
     POST_TEAM_DOMAIN_REQUEST |-> Private(<<Leader, Team("create_project")>>, "request"),
     POST_TEAM_DOMAIN_REQUEST_DECIDE |-> Managing, POST_TEAM_DOMAIN_SYNC |-> Managing,
     POST_TEAM_DOMAIN_DELETE |-> Managing]

DnsRecords ==
    [GET_TEAM_DNS_RECORDS |-> SeeTeam, GET_TEAM_DNS_ANALYTICS |-> SeeTeam,
     POST_TEAM_DNS_RECORD_CREATE |-> Managing, POST_TEAM_DNS_RECORD_UPDATE |-> Managing,
     POST_TEAM_DNS_RECORD_DELETE |-> Managing, GET_PUBLIC_IP |-> Administer, POST_PUBLIC_IP_REFRESH |-> Administer]

NodesAndPorts ==
    [GET_NODE_CONFIG |-> Administer, POST_NODE_CONFIG |-> Administer,
     GET_NODE_PORT_RESERVATIONS |-> Administer, GET_PORT_RESERVATIONS |-> Administer,
     GET_PROJECT_PORT_RESERVATIONS |-> See, GET_TEAM_PORT_RESERVATIONS |-> SeeTeam,
     POST_NODE_PORT_RESERVATION |-> Administer, POST_DELETE_NODE_PORT_RESERVATION |-> Administer,
     GET_PROJECT_DOMAINS |-> See]

IncidentRoutes ==
    [GET_PROJECT_INCIDENTS |-> See, POST_CREATE_INCIDENT |-> Incident, POST_ADD_INCIDENT_UPDATE |-> Incident,
     POST_UPDATE_INCIDENT |-> Incident, POST_DELETE_INCIDENT |-> Incident]

KeysAndWebhooks ==
    [GET_PROJECT_API_KEYS |-> SeeSecrets, POST_CREATE_API_KEY |-> Configure, POST_REVOKE_API_KEY |-> Configure,
     GET_PROJECT_WEBHOOKS |-> SeeSecrets, POST_CREATE_PROJECT_WEBHOOK |-> Configure,
     POST_UPDATE_PROJECT_WEBHOOK |-> Configure, POST_DELETE_PROJECT_WEBHOOK |-> Configure,
     POST_TEST_PROJECT_WEBHOOK |-> Configure]

StatusApi == [status |-> Route(<<Leader, ApiKey>>, "see")]

ClusterRoutes ==
    [register |-> Internal(<<Leader>>, "cluster"), deregister |-> Internal(<<Leader>>, "cluster"),
     bundle |-> Internal(<<Leader>>, "node"), git_token |-> Internal(<<Leader>>, "node"),
     deploy_key |-> Internal(<<Leader>>, "node"), desired |-> Internal(<<Leader>>, "node"),
     log |-> Internal(<<Leader>>, "cluster"), deploy_ready |-> Internal(<<Leader>>, "cluster"),
     status_report |-> Internal(<<Leader>>, "cluster")]

NodeRoutes ==
    [plan |-> Internal(<<>>, "node"), purge |-> Internal(<<>>, "node"), teardown |-> Internal(<<>>, "node"),
     disk_snapshot |-> Internal(<<>>, "node"), files_list |-> Internal(<<>>, "node"),
     file_read |-> Internal(<<>>, "node"), file_raw |-> Internal(<<>>, "node"),
     cancel_deploy |-> Internal(<<>>, "node"), config_values |-> Internal(<<>>, "node"),
     config_apply |-> Internal(<<>>, "node"), ping |-> Internal(<<>>, "node")]

UpdateRoutes ==
    [self_update |-> Internal(<<Leader>>, "cluster"), apply_update |-> Internal(<<>>, "node"),
     dev_propose |-> Internal(<<Leader>>, "cluster"), dev_dump |-> Internal(<<>>, "node")]

\* A table that is written down in parts: functions on disjoint sets. (As @@ of the
\* module TLC, of which the provers know nothing.)
Joined(parts) ==
    [x \in UNION {DOMAIN p : p \in parts} |-> (CHOOSE p \in parts : x \in DOMAIN p)[x]]

Sections ==
    {Public, ProjectAndTeamReads, Observability, FilesAndQuota, LogsAndGithub, ProjectWrites, CdTeamsAndAdmins, Push,
     Registrar, Domains, DnsRecords, NodesAndPorts, IncidentRoutes, KeysAndWebhooks, StatusApi, ClusterRoutes,
     NodeRoutes, UpdateRoutes}
Table == Joined(Sections)
\* Routes with the same checks and the same effect are one.
Programs == UNION {{section[r] : r \in DOMAIN section} : section \in Sections}

=============================================================================
