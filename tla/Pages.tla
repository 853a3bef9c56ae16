-------------------------------- MODULE Pages --------------------------------
(* Which page of the frontend mounts which queries, seeds a draft from     *)
(* which of them, and offers which handlers; and what the sidebar asks of  *)
(* a user before it shows the way to a page. DashboardPage.tsx is not      *)
(* reached by any route and is left out.                                   *)
EXTENDS Hooks, FiniteSets

\* A handler: the mutations and follow-ups it runs in turn, the page it leaves to, and
\* what the page asks of the user before it offers it.
Handler(steps) == [steps |-> steps, leaves |-> "none", asks |-> "view"]
Leaving(steps, page) == [Handler(steps) EXCEPT !.leaves = page]
Only(asks, handlers) == {[h EXCEPT !.asks = asks] : h \in handlers}
Each(hooks) == {Handler(<<h>>) : h \in hooks}

\* A page: the frame it is shown in, its own queries, the key its draft is seeded from.
Page(frame, mounts, seeds, offers) ==
    [frame |-> frame, mounts |-> mounts, seeds |-> seeds, offers |-> offers]

cluster == {"workerNodes", "controlPlaneStatus"}

-----------------------------------------------------------------------------
(* Frames: what stays mounted from one page to the next *)

\* The chips beside the projects of the team, at the root of the sidebar.
ProjectStatusChip == {"projects", "projectStatuses"} \cup cluster
ProjectHeader == {"pushPreference"}
\* The layout of a project's configuration: its draft, and the button that saves it.
ProjectConfigLayout == {"projects", "projectPortReservations"} \cup ProjectHeader
NodeDetailLayout == cluster

Frames ==
    [none |-> {}, root |-> ProjectStatusChip, config |-> ProjectConfigLayout, node |-> NodeDetailLayout]

NotificationBell == Each({"useSetProjectNotification"})
\* Creating a project, in the modal of the layout.
Layout == Only("create_project", {Leaving(<<"useCreateProject", "refreshMe">>, "ProjectPage")})

-----------------------------------------------------------------------------
(* Pages *)

\* At the root of a team with projects, and of one that has none.
TeamHomePage == Page("root", {}, "none", Layout)
EmptyTeamPage == Page("none", {}, "none", Layout)
SettingsPage ==
    Page("root", {"pushPreference"}, "none",
         Each({"useEnablePush", "useDisablePush", "useSetAnyProjectNotification", "useSendTestNotification"})
         \cup Layout)

ProjectPage == Page("none", {"projects"} \cup cluster \cup ProjectHeader, "none", NotificationBell)
ProjectDeployPage ==
    Page("none", {"projects", "projectDeployAverage", "projectInstance"} \cup cluster \cup ProjectHeader, "none",
         {Handler(<<"useDeployWeb", "usePatchProjectCache", "refreshProjects">>),
          Handler(<<"useTeardownProject", "usePatchProjectCache">>), Handler(<<"useCancelDeploy">>)}
         \cup NotificationBell)

\* A page of the configuration, with the layout's Save.
Config(mounts, offers) ==
    Page("config", mounts, "projects",
         offers \cup {Handler(<<"saveChanges", "useUpdateSecrets">>)} \cup NotificationBell)

ConfigProjectPage ==
    Config(cluster,
           Each({"useSetProjectAssignment"})
           \cup Only("delete", {Leaving(<<"useDeleteProject">>, "TeamHomePage")}))
ConfigRoutingPage == Config({"projectDomains"}, {})
ConfigSystemPage == Config({}, Each({"useSyncProjectToRepo"}))
ConfigResourcesPage ==
    Config({"projects"}, Only("admin", {Handler(<<"useSetProjectQuota", "refreshProjects">>)}))
ApiKeysCard == Only("configure", Each({"useCreateApiKey", "useRevokeApiKey"}))
ConfigKeysPage ==
    Config({"projectApiKeys"}, Each({"useResetDeploymentKey", "useUpdateProject"}) \cup ApiKeysCard)
WebhooksSection ==
    Config({"projectWebhooks"},
           Each({"useCreateWebhook", "useUpdateWebhook", "useDeleteWebhook", "useTestWebhook", "toggleEnabled"}))
ConfigContinuousDeploymentPage ==
    Config({"githubBranches"},
           {Handler(<<"useSetupCicd", "usePatchProjectCache">>), Handler(<<"useRemoveCicd", "usePatchProjectCache">>)})

LogViewer == {"logs", "logFacets"}
MonitoringLogsPage ==
    Page("none", {"projects"} \cup LogViewer \cup cluster \cup ProjectHeader, "none", NotificationBell)
MonitoringMetricsPage ==
    Page("none", {"projects", "observabilityMetrics", "projectResourceUsage"} \cup ProjectHeader, "none",
         NotificationBell)
MonitoringStatusPage == Page("none", {"projects", "projectHealth"} \cup ProjectHeader, "none", NotificationBell)
IncidentSection ==
    Page("none", {"projects", "projectIncidents"} \cup ProjectHeader, "none",
         Only("manage_incidents", Each({"useCreateIncident", "useAddIncidentUpdate", "useDeleteIncident"}))
         \cup NotificationBell)
FileExplorer == Page("none", {"projects", "projectFiles", "projectFile"} \cup ProjectHeader, "none", NotificationBell)

NodesPage ==
    Page("none", {"publicIp", "joinInfo"} \cup cluster, "none", Each({"usePublicIpRefresh"}))
NodeOverviewPage == Page("node", {"nodeMetrics"}, "none", {})
NodeStoragePage ==
    Page("node", {"nodeStorage", "nodeStorageSeries"}, "none", Each({"useSnapshotNodeStorage"}))
NodeConfigPage ==
    Page("node", {"nodePortReservations", "projects"} \cup cluster, "none",
         Each({"useCreateNodePortReservation", "useDeleteNodePortReservation"}))
\* The editor of a node's environment, above that page.
NodeConfigModal ==
    Page("node", {"nodeConfig", "nodePortReservations", "projects"} \cup cluster, "nodeConfig",
         {Leaving(<<"useSaveNodeConfig">>, "NodeConfigPage")})
NsmLogsPage == Page("none", LogViewer \cup cluster, "none", {})
UserManagementPage ==
    Page("none", {"teams", "admins"}, "none", Only("super", Each({"useAddAdmin", "useRemoveAdmin"})))

TeamDetailPage ==
    Page("none", {"team"}, "team",
         Only("manage", Each({"useSetTeamDefaults", "useSetTeamOverride", "useDeleteTeamOverride"})))
TeamRegistrarSettings == Only("manage", Each({"useSaveTeamRegistrar", "useRemoveTeamRegistrar"}))
TeamDomains ==
    Page("none", {"teamRegistrar", "teamDomains", "teamDomainRequests", "teamDomainBilling"}, "teamRegistrar",
         Each({"useTeamDomainSearch"})
         \cup Only("create_project", Each({"useRequestTeamDomain"}))
         \cup Only("manage", Each({"useBuyTeamDomain", "useDecideTeamDomainRequest", "useTeamCloudflareSync"}))
         \cup TeamRegistrarSettings)
saveAll == Handler(<<"useDeleteDnsRecord", "useUpdateDnsRecord", "useCreateDnsRecord", "refetchRecords", "refetchDomains">>)
DomainDetailPage ==
    Page("none",
         {"teamDomains", "publicIp", "teamDnsRecords", "teamRegistrar", "teamDnsAnalytics", "teamPortReservations"},
         "teamDnsRecords",
         Only("manage", {saveAll, Leaving(<<"useDeleteDomain", "refetchDomains">>, "TeamDetailPage")}))

Pages ==
    [TeamHomePage |-> TeamHomePage, EmptyTeamPage |-> EmptyTeamPage, SettingsPage |-> SettingsPage,
     ProjectPage |-> ProjectPage, ProjectDeployPage |-> ProjectDeployPage,
     ConfigProjectPage |-> ConfigProjectPage, ConfigRoutingPage |-> ConfigRoutingPage,
     ConfigSystemPage |-> ConfigSystemPage, ConfigResourcesPage |-> ConfigResourcesPage,
     ConfigKeysPage |-> ConfigKeysPage, ConfigWebhooksPage |-> WebhooksSection,
     ConfigContinuousDeploymentPage |-> ConfigContinuousDeploymentPage,
     MonitoringLogsPage |-> MonitoringLogsPage, MonitoringMetricsPage |-> MonitoringMetricsPage,
     MonitoringStatusPage |-> MonitoringStatusPage, MonitoringIncidentsPage |-> IncidentSection,
     MonitoringFilesPage |-> FileExplorer, NodesPage |-> NodesPage, NodeOverviewPage |-> NodeOverviewPage,
     NodeStoragePage |-> NodeStoragePage, NodeConfigPage |-> NodeConfigPage, NodeConfigModal |-> NodeConfigModal,
     NsmLogsPage |-> NsmLogsPage, UserManagementPage |-> UserManagementPage, TeamDetailPage |-> TeamDetailPage,
     TeamDomainsPage |-> TeamDomains, DomainDetailPage |-> DomainDetailPage]

\* What a page keeps mounted; the permissions of the user are asked for on every page.
Mounted(p) == Pages[p].mounts \cup Frames[Pages[p].frame] \cup {"me"}
\* What is mounted anew on the way from one page to another.
Newly(p, q) == Pages[q].mounts \cup (IF Pages[p].frame = Pages[q].frame THEN {} ELSE Frames[Pages[q].frame])

-----------------------------------------------------------------------------
(* The sidebar (sidebarModel.ts): the way to a page *)

\* mutant: a project's configuration is in the sidebar of everybody who sees the project
projectLevel_Open ==
    [ProjectPage |-> "view", ConfigProjectPage |-> "view", ProjectDeployPage |-> "deploy",
     MonitoringStatusPage |-> "view"]
projectLevel ==
    [ProjectPage |-> "view", ConfigProjectPage |-> "configure", ProjectDeployPage |-> "deploy",
     MonitoringStatusPage |-> "view"]
\* The rest of the configuration, from its first page.
configLevel ==
    [p \in {"ConfigProjectPage", "ConfigRoutingPage", "ConfigSystemPage", "ConfigResourcesPage", "ConfigKeysPage",
            "ConfigWebhooksPage", "ConfigContinuousDeploymentPage"} |-> projectLevel.ConfigProjectPage]
monitoringLevel ==
    [MonitoringLogsPage |-> "deploy", MonitoringMetricsPage |-> "deploy", MonitoringFilesPage |-> "configure",
     MonitoringStatusPage |-> "view", MonitoringIncidentsPage |-> "view"]
teamRootLevel ==
    [TeamHomePage |-> "view", EmptyTeamPage |-> "view", SettingsPage |-> "view"]
teamSettingsLevel ==
    [p \in {"TeamDetailPage", "TeamDomainsPage", "DomainDetailPage"} |-> "manage"]
nsmRootLevel ==
    [p \in {"NodesPage", "NodeOverviewPage", "NodeStoragePage", "NodeConfigPage", "NodeConfigModal", "NsmLogsPage",
            "UserManagementPage"} |-> "admin"]

deriveSidebarStack ==
    Joined({projectLevel, configLevel, monitoringLevel, teamRootLevel, teamSettingsLevel, nsmRootLevel})

=============================================================================
