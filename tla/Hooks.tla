-------------------------------- MODULE Hooks --------------------------------
(* What the query hooks of the frontend read, and what its mutation hooks  *)
(* write and then do to the cache (hooks/, query/keys.ts). Pages.tla says  *)
(* which page uses which; Dashboard.tla is the cache they act on.          *)
EXTENDS Sequences
-----------------------------------------------------------------------------
(* Queries: the route, what the answer is made of, and whether it is polled *)

Query(route, reads) == [route |-> route, reads |-> reads, polled |-> "never"]
Polled(route, reads) == [route |-> route, reads |-> reads, polled |-> "always"]
\* Polled while the window of time that the user has chosen ends now, not in the past.
Sliding(route, reads) == [route |-> route, reads |-> reads, polled |-> "sliding"]
\* Polled while the deployment is queued or being built, by what the data says.
Live(route, reads) == [route |-> route, reads |-> reads, polled |-> "live"]

useMe == Query("GET_ME", {"projects", "teams", "admins"})
useProjects == Query("GET_PROJECTS", {"projects", "deployments", "secrets"})
useProjectStatuses == Polled("GET_PROJECTS", {"projects", "deployments"})
workerNodes == Polled("GET_WORKER_NODES", {"nodes"})
controlPlaneStatus == Polled("GET_CONTROL_PLANE_STATUS", {"nodes", "queue"})

useTeamRegistrar == Query("GET_TEAM_REGISTRAR", {"registrar"})
useTeamDomains == Query("GET_TEAM_DOMAINS", {"zones"})
useTeamDomainRequests == Query("GET_TEAM_DOMAIN_REQUESTS", {"requests"})
useTeamDomainBilling == Query("GET_TEAM_DOMAIN_BILLING", {"zones"})
usePublicIp == Query("GET_PUBLIC_IP", {"address"})
useTeamDnsRecords == Query("GET_TEAM_DNS_RECORDS", {"records"})
useTeamDnsAnalytics == Query("GET_TEAM_DNS_ANALYTICS", {"traffic"})
useTeamPortReservations == Query("GET_TEAM_PORT_RESERVATIONS", {"reservations"})

useTeams == Query("GET_TEAMS", {"teams"})
useTeam == Query("GET_TEAM", {"teams"})
useAdmins == Query("GET_ADMINS", {"admins"})

useNodeMetrics == Polled("GET_NODE_METRICS", {"samples"})
useNodeStorage == Polled("GET_NODE_STORAGE", {"disks"})
useNodeStorageSeries == Polled("GET_NODE_STORAGE_SERIES", {"samples"})
useNodeConfig == Query("GET_NODE_CONFIG", {"environment"})
useNodePortReservations == Query("GET_NODE_PORT_RESERVATIONS", {"reservations"})
useJoinInfo == Query("GET_JOIN_INFO", {"nodes"})

useProjectApiKeys == Query("GET_PROJECT_API_KEYS", {"apikeys"})
useProjectWebhooks == Query("GET_PROJECT_WEBHOOKS", {"webhooks"})
useProjectDomains == Query("GET_PROJECT_DOMAINS", {"zones"})
useProjectIncidents == Query("GET_PROJECT_INCIDENTS", {"incidents"})
useProjectPortReservations == Query("GET_PROJECT_PORT_RESERVATIONS", {"reservations"})
useProjectDeployAverage == Query("GET_PROJECT_DEPLOY_AVERAGE", {"completed"})
useProjectResourceUsage == Polled("GET_PROJECT_RESOURCE_USAGE", {"samples"})
useObservabilityMetrics == Sliding("GET_OBSERVABILITY_METRICS", {"samples"})
useProjectHealth == Polled("GET_PROJECT_HEALTH", {"checks"})
useProjectFiles == Query("GET_PROJECT_FILES", {"files"})
useProjectFile == Query("GET_PROJECT_FILE", {"files"})
useLiveProjectInstance == Live("GET_PROJECT_INSTANCE", {"deployments"})
useGithubRepos == Query("GET_GITHUB_REPOS", {"github"})
useGithubBranches == Query("GET_GITHUB_BRANCHES", {"github"})
usePushPreference == Query("GET_PROJECT_NOTIFICATION", {"preferences"})
entriesQuery == Sliding("POST_LOG_QUERY", {"logs"})
facetsQuery == Sliding("POST_LOG_FACETS", {"logs"})

queryKeys ==
    [me |-> useMe, projects |-> useProjects, projectStatuses |-> useProjectStatuses,
     workerNodes |-> workerNodes, controlPlaneStatus |-> controlPlaneStatus,
     teamRegistrar |-> useTeamRegistrar, teamDomains |-> useTeamDomains,
     teamDomainRequests |-> useTeamDomainRequests, teamDomainBilling |-> useTeamDomainBilling,
     publicIp |-> usePublicIp, teamDnsRecords |-> useTeamDnsRecords, teamDnsAnalytics |-> useTeamDnsAnalytics,
     teamPortReservations |-> useTeamPortReservations, teams |-> useTeams, team |-> useTeam, admins |-> useAdmins,
     nodeMetrics |-> useNodeMetrics, nodeStorage |-> useNodeStorage, nodeStorageSeries |-> useNodeStorageSeries,
     nodeConfig |-> useNodeConfig, nodePortReservations |-> useNodePortReservations, joinInfo |-> useJoinInfo,
     projectApiKeys |-> useProjectApiKeys, projectIncidents |-> useProjectIncidents,
     projectWebhooks |-> useProjectWebhooks, projectFiles |-> useProjectFiles, projectFile |-> useProjectFile,
     projectDomains |-> useProjectDomains, projectPortReservations |-> useProjectPortReservations,
     projectResourceUsage |-> useProjectResourceUsage, projectHealth |-> useProjectHealth,
     projectDeployAverage |-> useProjectDeployAverage, observabilityMetrics |-> useObservabilityMetrics,
     projectInstance |-> useLiveProjectInstance, githubRepos |-> useGithubRepos,
     githubBranches |-> useGithubBranches, pushPreference |-> usePushPreference,
     logs |-> entriesQuery, logFacets |-> facetsQuery]
QueryKeys == DOMAIN queryKeys

\* A request that fails counts as an empty answer, except where the hook throws (authedGet).
KeepsOnFailure == {"projectFiles", "projectFile"}

-----------------------------------------------------------------------------
(* Mutations. A hook that is "checked" takes an answer without a body for a *)
(* failure; the others run their onSuccess whatever the server answered.    *)

Hook(route, writes, invalidates) ==
    [route |-> route, writes |-> writes, invalidates |-> invalidates,
     checked |-> FALSE, patches |-> {}, flips |-> FALSE, whole |-> FALSE]
Checked(hook) == [hook EXCEPT !.checked = TRUE]
\* setQueryData in onSuccess
Patching(keys, hook) == [hook EXCEPT !.patches = keys]

useCreateProject ==
    Checked(Patching({"projects"}, Hook("POST_CREATE_PROJECT", {"projects"}, {"projectStatuses"})))
useUpdateProject == Patching({"projects"}, Hook("POST_UPDATE_PROJECT", {"projects"}, {}))
useUpdateSecrets == Patching({"projects"}, Hook("POST_UPDATE_ENV_VAR", {"secrets"}, {}))
useSyncProjectToRepo == Checked(Patching({"projects"}, Hook("POST_SYNC_TO_REPO", {"projects", "secrets"}, {})))
useDeleteProject ==
    Patching({"projects"},
             Hook("POST_DELETE_PROJECT", {"projects", "secrets"}, {"projectStatuses"}))
useSetProjectQuota == Hook("POST_SET_PROJECT_QUOTA", {"projects"}, {"projects"})
useSetProjectAssignment == Patching({"projects"}, Hook("POST_SET_PROJECT_ASSIGNMENT", {"projects"}, {}))

useDeployWeb == Hook("GET_DEPLOY_WEB", {"deployments", "queue"}, {"projects"})
useCancelDeploy == Hook("POST_CANCEL_DEPLOY", {"deployments", "queue"}, {"projects"})
useTeardownProject == Hook("POST_TEARDOWN_PROJECT", {"deployments"}, {"projects"})
useSetupCicd == Hook("POST_CICD_SETUP", {"projects"}, {"projects"})
useRemoveCicd == Hook("POST_CICD_REMOVE", {"projects"}, {"projects"})
useResetDeploymentKey == Hook("POST_RESET_DEPLOYMENT_KEY", {}, {})

useCreateApiKey == Hook("POST_CREATE_API_KEY", {"apikeys"}, {"projectApiKeys"})
useRevokeApiKey == Hook("POST_REVOKE_API_KEY", {"apikeys"}, {"projectApiKeys"})
useCreateWebhook == Checked(Hook("POST_CREATE_PROJECT_WEBHOOK", {"webhooks"}, {"projectWebhooks"}))
useUpdateWebhook == Checked(Hook("POST_UPDATE_PROJECT_WEBHOOK", {"webhooks"}, {"projectWebhooks"}))
useDeleteWebhook == Hook("POST_DELETE_PROJECT_WEBHOOK", {"webhooks"}, {"projectWebhooks"})
useTestWebhook == Hook("POST_TEST_PROJECT_WEBHOOK", {}, {})
useCreateIncident == Hook("POST_CREATE_INCIDENT", {"incidents"}, {"projectIncidents"})
useAddIncidentUpdate == Hook("POST_ADD_INCIDENT_UPDATE", {"incidents"}, {"projectIncidents"})
useDeleteIncident == Hook("POST_DELETE_INCIDENT", {"incidents"}, {"projectIncidents"})

useSnapshotNodeStorage == Checked(Patching({"nodeStorage"}, Hook("POST_NODE_STORAGE_SNAPSHOT", {"disks"}, {})))
useSaveNodeConfig == Checked(Hook("POST_NODE_CONFIG", {"environment"}, {}))
useCreateNodePortReservation ==
    Checked(Hook("POST_NODE_PORT_RESERVATION", {"reservations"}, {"nodePortReservations"}))
useDeleteNodePortReservation ==
    Hook("POST_DELETE_NODE_PORT_RESERVATION", {"reservations"}, {"nodePortReservations"})

useAddAdmin == Hook("POST_ADD_ADMIN", {"admins"}, {"admins"})
useRemoveAdmin == Hook("POST_REMOVE_ADMIN", {"admins"}, {"admins"})
useSetTeamDefaults == Hook("POST_SET_TEAM_DEFAULTS", {"teams"}, {"team"})
useSetTeamOverride == Hook("POST_SET_TEAM_OVERRIDE", {"teams"}, {"team"})
useDeleteTeamOverride == Hook("POST_DELETE_TEAM_OVERRIDE", {"teams"}, {"team"})

useSaveTeamRegistrar ==
    Checked(Hook("POST_TEAM_REGISTRAR", {"registrar", "zones"}, {"teamRegistrar", "teamDomains"}))
useRemoveTeamRegistrar ==
    Hook("POST_TEAM_REGISTRAR_REMOVE", {"registrar", "zones"}, {"teamRegistrar", "teamDomains"})
useTeamDomainSearch == Hook("POST_TEAM_DOMAIN_SEARCH", {}, {})
useBuyTeamDomain ==
    Checked(Hook("POST_TEAM_DOMAIN_BUY", {"requests", "zones"}, {"teamDomainRequests", "teamDomains"}))
useRequestTeamDomain == Checked(Hook("POST_TEAM_DOMAIN_REQUEST", {"requests"}, {"teamDomainRequests"}))
useDecideTeamDomainRequest ==
    Hook("POST_TEAM_DOMAIN_REQUEST_DECIDE", {"requests", "zones"}, {"teamDomainRequests", "teamDomains"})
useTeamCloudflareSync == Checked(Hook("POST_TEAM_DOMAIN_SYNC", {"zones"}, {"teamDomains"}))
usePublicIpRefresh == Checked(Hook("POST_PUBLIC_IP_REFRESH", {"address"}, {"publicIp"}))
useCreateDnsRecord == Checked(Hook("POST_TEAM_DNS_RECORD_CREATE", {"records"}, {}))
useUpdateDnsRecord == Checked(Hook("POST_TEAM_DNS_RECORD_UPDATE", {"records"}, {}))
useDeleteDnsRecord == Hook("POST_TEAM_DNS_RECORD_DELETE", {"records"}, {})
useDeleteDomain == Hook("POST_TEAM_DOMAIN_DELETE", {"zones"}, {"teamDomains"})

useSetProjectNotification == Hook("POST_SET_PROJECT_NOTIFICATION", {"preferences"}, {"pushPreference"})
useSetAnyProjectNotification == Hook("POST_SET_PROJECT_NOTIFICATION", {"preferences"}, {"pushPreference"})
useEnablePush == Hook("POST_PUSH_SUBSCRIBE", {"subscriptions"}, {"pushPreference"})
useDisablePush == Hook("POST_PUSH_UNSUBSCRIBE", {"subscriptions"}, {"pushPreference"})
useSendTestNotification == Hook("POST_PUSH_TEST", {}, {})

\* The switch of a webhook is flipped in the cache before the request is sent.
toggleEnabled == [useUpdateWebhook EXCEPT !.flips = TRUE]
\* Save sends the whole project as the draft has it.
saveChanges == [useUpdateProject EXCEPT !.whole = TRUE]

\* What handlers do after a mutation without asking the server.
Follow(patches, invalidates) == Patching(patches, Hook("none", {}, invalidates))
usePatchProjectCache == Follow({"projects"}, {})
refreshProjects == Follow({}, {"projects", "projectStatuses"})
refreshMe == Follow({}, {"me"})
refetchRecords == Follow({}, {"teamDnsRecords"})
refetchDomains == Follow({}, {"teamDomains"})

ProjectHooks ==
    [useCreateProject |-> useCreateProject, useUpdateProject |-> useUpdateProject,
     useUpdateSecrets |-> useUpdateSecrets, useSyncProjectToRepo |-> useSyncProjectToRepo,
     useDeleteProject |-> useDeleteProject, useSetProjectQuota |-> useSetProjectQuota,
     useSetProjectAssignment |-> useSetProjectAssignment, useDeployWeb |-> useDeployWeb,
     useCancelDeploy |-> useCancelDeploy, useTeardownProject |-> useTeardownProject,
     useSetupCicd |-> useSetupCicd, useRemoveCicd |-> useRemoveCicd,
     useResetDeploymentKey |-> useResetDeploymentKey, saveChanges |-> saveChanges]
ProjectResourceHooks ==
    [useCreateApiKey |-> useCreateApiKey, useRevokeApiKey |-> useRevokeApiKey,
     useCreateWebhook |-> useCreateWebhook, useUpdateWebhook |-> useUpdateWebhook,
     useDeleteWebhook |-> useDeleteWebhook, useTestWebhook |-> useTestWebhook, toggleEnabled |-> toggleEnabled,
     useCreateIncident |-> useCreateIncident, useAddIncidentUpdate |-> useAddIncidentUpdate,
     useDeleteIncident |-> useDeleteIncident, useSetProjectNotification |-> useSetProjectNotification,
     useSetAnyProjectNotification |-> useSetAnyProjectNotification, useEnablePush |-> useEnablePush,
     useDisablePush |-> useDisablePush, useSendTestNotification |-> useSendTestNotification]
NodeAndTeamHooks ==
    [useSnapshotNodeStorage |-> useSnapshotNodeStorage, useSaveNodeConfig |-> useSaveNodeConfig,
     useCreateNodePortReservation |-> useCreateNodePortReservation,
     useDeleteNodePortReservation |-> useDeleteNodePortReservation,
     useAddAdmin |-> useAddAdmin, useRemoveAdmin |-> useRemoveAdmin, useSetTeamDefaults |-> useSetTeamDefaults,
     useSetTeamOverride |-> useSetTeamOverride, useDeleteTeamOverride |-> useDeleteTeamOverride]
DomainHooks ==
    [useSaveTeamRegistrar |-> useSaveTeamRegistrar, useRemoveTeamRegistrar |-> useRemoveTeamRegistrar,
     useTeamDomainSearch |-> useTeamDomainSearch, useBuyTeamDomain |-> useBuyTeamDomain,
     useRequestTeamDomain |-> useRequestTeamDomain, useDecideTeamDomainRequest |-> useDecideTeamDomainRequest,
     useTeamCloudflareSync |-> useTeamCloudflareSync, usePublicIpRefresh |-> usePublicIpRefresh,
     useCreateDnsRecord |-> useCreateDnsRecord, useUpdateDnsRecord |-> useUpdateDnsRecord,
     useDeleteDnsRecord |-> useDeleteDnsRecord, useDeleteDomain |-> useDeleteDomain]
Follows ==
    [usePatchProjectCache |-> usePatchProjectCache, refreshProjects |-> refreshProjects,
     refreshMe |-> refreshMe, refetchRecords |-> refetchRecords, refetchDomains |-> refetchDomains]

\* A table that is written down in parts: functions on disjoint sets. (As @@ of the
\* module TLC, of which the provers know nothing.)
Joined(parts) ==
    [x \in UNION {DOMAIN p : p \in parts} |-> (CHOOSE p \in parts : x \in DOMAIN p)[x]]
Mutations == Joined({ProjectHooks, ProjectResourceHooks, NodeAndTeamHooks, DomainHooks, Follows})

\* Hooks after which the handler goes on although the server refused: it does not look
\* at the answer, or catches the error (saveAll of the domain's page).
Unheeded ==
    ({h \in DOMAIN Mutations : ~Mutations[h].checked} \ {"useSetupCicd", "useRemoveCicd"})
    \cup {"useUpdateDnsRecord", "useCreateDnsRecord"}

=============================================================================
