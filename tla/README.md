# NSM: a verification project

NSM deploys projects (docker compose stacks) on a small cluster of hosts. One
host is the *leader*: it stores the desired state, serves the API and the
dashboard, renders the nginx configuration for the whole cluster and plans
deployments one at a time. Every host, the leader included, runs the same daemon
with a *reconcile loop* that compares the desired state with what it has
deployed and acts on the difference. Around this the leader runs the jobs of a
hosting panel: DNS, domain purchases, health checks, incidents, quotas,
notifications, users and their rights. This directory holds TLA+ models of these
parts, the TLC configurations that check them on small instances, and TLAPS
proofs of what holds for every instance. `B/` stands for `src/backend/src/`,
`C/` for `src/common/src/`, `F/` for `src/frontend/src/`.

- [Inventory](#inventory)
- [Modules](#modules) and how they correspond to the code
- [Runs](#runs): what each one checks, with which bounds
- [What does not hold](#what-does-not-hold)
- [Fairness](#fairness), [Proofs](#proofs), [Abstractions](#abstractions)
- [Hazards without a run](#hazards-without-a-run), [Not modelled](#not-modelled), [Plan](#plan)

To repeat a check: `tlc -config BlueGreenCore.cfg MCBlueGreen.tla`; to repeat a
proof: `tlapm BlueGreenProofs.tla`. A configuration with `Bad` in its name is
expected to end with a counterexample.

## Inventory

| Component | State it keeps | Operations | What makes it correct |
|---|---|---|---|
| Deploy queue, `B/controllers/deployQueue.ts` | `queue`, `active`, `draining`, `canceledInstances`, in memory; the `QUEUED` rows are their persistent shadow | `enqueueDeploy`, `drainQueue`, `cancelQueuedDeploy`, `recoverDeployQueue` | every queued deployment is deployed once, in order, across restarts; nobody waits for ever; a project is in it once |
| Completion waiter, `deployCompletion.ts` | one promise for the active deployment, with a timer | `waitForDeployCompletion`, `notifyDeployTerminal` | a settled deployment frees the queue; a silent node does not block it |
| Planning and promotion, `deployController.ts` | the `desired` row and the `ProjectInstance` rows | `deployProject`, `promoteDeployment`, `cancelDeploy`, `updateDeploymentLog`, `teardownProject` | nginx points at the confs of the generations it serves; only an announced generation is served |
| Node reconciler, `B/reconcile/reconciler.ts`, `deploy.ts`, `teardown.ts`, `B/host/exec.ts` | containers; in memory the tick in progress, drain timers, cancel flags | the 5 s tick: apply drift, schedule drains, sweep; cancel and purge requests | a generation that serves is never taken down, a superseded one is; nothing runs untracked |
| Generation marker, `B/reconcile/state.ts` | one file per project and node | read, set, mark live, mark ready, remove | the marker covers every container that runs |
| Reports, `B/reconcile/report.ts` | none: a post, made once, errors swallowed | log lines with a state, deploy-ready | the leader eventually knows what nodes did |
| Port ledger, `B/reconcile/ports.ts` | an in-memory set of reserved host ports | plan (scan, probe, reserve), release | no two deployments share a port; reservations end |
| Ingress, `B/reconcile/nginxRender.ts`, `certs.ts` | the nginx confs, the certificates, the table about them | render, test, reload; obtain, renew, remove | the files on disk are loadable; nginx comes to run what is desired |
| Registry and gossip, `B/cluster/registry.ts`, `statusGossip.ts`, `B/reconcile/internalDns.ts`, `promTargets.ts` | `NodeModel`; the reports in memory; hosts file, targets | register, report, deregister, refresh | routes and scrape targets follow the nodes |
| Self-update, `B/cluster/selfUpdate.ts` | desired version, the rollout in progress; checkout and modules of a node | wish, instruct, check out, install, restart | every node reaches the version, the leader last, one at a time |
| Node configuration, `nodeConfigController.ts` | the env file; the watch for a restart | apply, restart, ping | who edits it is told whether the node restarted |
| DNS mirror, `B/reconcile/cloudflareSync.ts`, `publicIpWatcher.ts`, `dnsController.ts` | mirrored zones and records, the last public address, purchase prices | refresh, push, edit, create, delete, strip | the mirror comes to show the registrar, dynamic records the address; nothing entered is lost |
| Domain purchases, `domainsController.ts`, `registrarController.ts` | requests, accounts, links | request, decide, buy, poll; save and remove an account | an outcome is final and says whether the domain is ours |
| Health, `healthController.ts` | samples, hourly rollups | sample, detect, roll up, prune | what is announced is what was measured; no sample is lost |
| Incidents, `incidentController.ts` | rows and timelines | create, update, edit, delete | the last request wins; what is deleted is gone; a resolution is told |
| Quotas, `quotaController.ts` | breach state | the sweep | a breach is told, and told again only after the cooldown |
| GitHub messages, `githubNotifications.ts`, `webhookController.ts` | the messages posted about a subject | post, edit, delete, retry | one message per subject, which shows its last event |
| Projects, `projectController.ts`, `secretController.ts`, `cicdController.ts`, `cdScheduler.ts`, `githubWebhookProvisioning.ts` | the project row, secrets, the cron task, the hook at GitHub | every write of a project; setting up and removing managed deployment | what was asked for is kept; triggers match the configuration |
| Rights, `authz.ts`, `teamController.ts`, `adminController.ts`, `B/routes.ts` | admins, team defaults and overrides, caches of GitHub lists | the checks of every route; grants | nobody acts without the right, who has it is served |
| Port reservations, `portReservationController.ts` | reserved host ports | reserve, release, plan with them | a port is reserved once and not given to others |
| Sessions and API keys, `userController.ts`, `apiKeyController.ts` | one token per user; keys per project | sign in and out, create, use, revoke | what was ended stays ended, and nothing else ends |
| Dashboard, `F/` | a cache of queries per tab, drafts, the user's rights as last read | 39 queries, the mutations, the pages, the sidebar | a page comes to show what was written; what is offered is allowed |
| Cluster facade and stores, `B/cluster/node.ts`, `stateMachine.ts`, `B/persistence/*` | SQLite tables | `proposeOp` / `applyOp` | each op is one write; no lock spans a read and a later write |

They interact by calls inside the leader process, by HTTP posts between leader
and nodes (`/node/plan`, `/node/cancel`, `/node/teardown-project` one way;
`/cluster/log`, `/cluster/deploy-ready`, `/cluster/status-report` the other), by
the desired rows every node polls, by cron jobs and timers, and with GitHub, the
registrar, Discord, certbot and nginx, which may refuse, be slow, or do what they
were asked while their answer is lost. JavaScript runs each handler up to its
next `await`, so every `await` is a place where another handler can get in;
nothing in this code takes a lock.

Hard behaviours, in all of it:

- handlers that read, wait, and then write what they had read (`enqueueDeploy`,
  `deployProject`, `getNextFreePorts`, `addIncidentUpdate`, `updateProject`,
  `decideRequest`, `signOutUser`, `performAccountSync`);
- jobs that overlap their own previous run, and passes of `renderAllNginx` and
  `leaderEnsureCerts` beside the tick;
- reports that are lost, late, or about an attempt whose generation number has
  been given to another one;
- a restart of the leader (queue, flags, waiters, reports, cooldowns gone) or of a
  node (timers, flags, ledger gone; containers and markers stay) between two steps;
- timeouts that race the answer: deployments, upgrades, registrations, deliveries;
- rights, caches and drafts that are used after they have become old.

## Modules

| Module | What it is |
|---|---|
| `GenMarkers` | the marker file and its operations, as a pure module |
| `BlueGreen` | one project from request to cutover: leader, nodes, messages, timers, restarts |
| `TrafficCutover` | the abstract promise: the attempt that should receive traffic is a running one and only ever gives way to a newer running one; it is never taken down; traffic follows it |
| `MCBlueGreen` | budgets and the refinement mapping |
| `BlueGreenProofs` | the types, `ConfMatchesGeneration`; `OnlyAnnouncedIsServed`, `RunningIsTracked`, `ServedIsUp` and the refinement of `TrafficCutover`, proved |
| `DeployQueue`, `MCDeployQueue`, `DeployQueueProofs` | the leader's queue for several projects; budgets; its four safety properties, proved |
| `PortLedger` | the host ports of one node |
| `Ingress` | the leader's nginx files, reloads and certificates, for several projects |
| `MCHosts`, `HostsProofs` | `PortLedger` and `Ingress` together: what deployments share on a host; their safety properties, proved |
| `ClusterNodes`, `MCClusterNodes`, `ClusterNodesProofs` | registry, gossip, rendered routes, self-update and node configuration; `RestartsAreTold` and `LeaderLast`, proved |
| `DnsMirror`, `MCDnsMirror` | one registrar account, its mirror, the public address, records bound to ports |
| `Health`, `Incidents`, `Quotas`, `DiscordMessages` | what the leader measures and tells about a project |
| `MCStatusPage`, `StatusPageProofs` | these four together; what each of them promises, proved |
| `ProjectConfig` | one project's row, secrets, hook and schedule |
| `Routes` | every route of the HTTP interface: its checks in order, and what it does |
| `Access` | the rights those checks ask for, with the caches behind them; EXTENDS `Routes` |
| `Reservations` | reserved ports and what planning makes of them |
| `MCManagement`, `ManagementProofs`, `AccessProofs` | `ProjectConfig`, `Access` and `Reservations` together; `ProjectIsKept`, `TriggersMatchConfig` and `ReservationsHold`, and `AccessIsRight`, proved |
| `Hooks`, `Pages` | every query and mutation of the frontend; every page with what it mounts, seeds, offers and asks |
| `Dashboard` | a tab: its cache, its drafts, its mutations; EXTENDS `Pages` |
| `Navigation` | the way through the pages while rights change; EXTENDS `Pages` |
| `Credentials`, `Purchases` | sessions and API keys; domain requests, purchases and accounts |
| `MCDashboard`, `DashboardProofs` | `Dashboard`, `Navigation`, `Credentials` and `Purchases` together; `CacheFollowsWrites`, `PagesMatchRights`, `CredentialsEnd` and `PurchasesAreTrue`, proved |

An MC module that checks several components gives each its own variables,
INSTANCEs it, and lets one of them move in each behaviour (`part`). The components
of such a module share no state that is modelled; where they do in the code, the
shared part is inside one module (a project's deletion is an action of `Health`,
`Incidents`, `ProjectConfig`, `Reservations` and `Credentials`, each with the
steps of `deleteProject` that touch its tables).

The pattern of the newer modules: a handler that awaits is a *flow* (a record of
where it stands and what it has read), one action per step between two awaits;
what the environment may do is a set of *kinds* of events, counted in `used`; the
constant `Budgets` is a set of bounds on these counts. A property that holds only
while some kind of event does not happen says so in its antecedent
(`Never({"overlap"}) => ...`), and beside it stands the same statement without
the antecedent, which TLC refutes (see [below](#what-does-not-hold)).

### BlueGreen

An attempt is a number that stands for a `ProjectInstance`, its log, its compose
file, the ports allocated to it and the nginx conf rendered for it; that is how
the model can say that a conf belongs to the wrong generation.

| Variable | Code |
|---|---|
| `desired` | the project's `DesiredDeployment` row; `gen`, `act` are `generation`, `activeGeneration`; `conf`, `actConf` are `nginxConf`, `activeNginxConf`; `log` is `logId`; `zd` is `zeroDowntime` |
| `row` | `ProjectInstance.state` and `active` |
| `assign` | `project.workerNodeId` |
| `conf` | what `renderAllNginx` installed last |
| `slot` | `active` of the queue, the step of `deployProject` it is in, and whether its waiter is resolved |
| `flagged` | `canceledInstances` |
| `canceler`, `tearer` | the step of a `cancelDeploy` or `teardownProjectWithCleanup` call |
| `marker`, `stacks` | marker file; the attempt whose containers run under each compose project (0 is the bare one of the in-place path) |
| `left` | auxiliary: the compose projects that a failing `docker compose down` has left behind |
| `job` | the tick's turn for the project: build, live, gate, ready, announce, or undo and report |
| `timers`, `cflag` | `drainScheduled`; `canceledDeployProjects` |
| `readyMsgs`, `purges` | deploy-ready posts and asynchronous teardowns under way |
| `where`, `genOf`, `askedUpTo` | history: node and generation of an attempt, the attempts a cancel can have meant |
| `used` | how often an event of each kind has happened |

| Action | Code |
|---|---|
| `StartDeploy`, `Plan`, `PlanFails`, `Propose` | `deployProject`: read of the row and write of the row are two steps |
| `QueueTimeout` | the timer of `waitForDeployCompletion` |
| `PromoteDeployment`, `LoseReady` | the deploy-ready post handled, or lost |
| `Render` | one pass of `renderAllNginx` |
| `CancelRequest`, `CancelDesired`, `CancelNode`, `CancelRows` | `cancelDeploy`, cut at its awaits |
| `TeardownNode`, `TeardownClear`, `TeardownRender`, `Purge` | `teardownProjectWithCleanup`; a follower answers first and works later |
| `setProjectAssignment` | the assignment endpoint |
| `StartApply`, `ScheduleDrain`, `Sweep` | what the tick decides: drift, drain of older generations, project not assigned here |
| `Build`, `BuildFails`, `MarkLive`, `InPlaceDone`, `GatePasses`, `GateFails`, `ReportDeployed`, `Announce`, `Undo`, `ReportFailure` | `applyDeployment`, cut at its awaits |
| `Progress` | a log line with the state `DEPLOYING`, posted without waiting |
| `DrainFires` | the drain timer |
| `LeaderRestart`, `NodeRestart` | the process ends; memory is forgotten, disk and containers stay |

`DrainFires` waits for its grace period and for nothing else, as the timer does. The
leader's nginx pass comes at the end of a tick that may have builds to wait for, so
the drain can be first; that is the event `early`, and what it breaks is the counterexample
of `BlueGreenBadEarlyDrain`. Every action that takes containers down does it by
`Down`: `docker compose down` may fail or be killed, which the code only logs, and
the action goes on to clear its marker all the same (event `stuck`). A build that is
killed, by a cancel or at its timeout, ends like a successful one, with as many
containers as compose had started (event `killed`).

`BlueGreen` and `DeployQueue` look at the same handlers from two sides:
`BlueGreen` follows one project in depth and reduces the queue to its active
slot; `DeployQueue` follows the queue across projects and reduces a node to the
attempt it builds and the one it announced. `Ingress` takes from them that a
conf is proposed, promoted and cleared, and follows what becomes of it.

### DeployQueue

`queue`, `active`, `flagged` and `waiter` are the variables of the same name in
the two files; `pc` is where `drainQueue` and `deployProject` are between two
awaits (`delay` is the settle delay); `fresh` are the instances `enqueueDeploy`
has created and not pushed yet. `Kick` is `void drainQueue()`, which runs up to
its first await inside its caller, and `Take` is one turn of the loop.
`Crash` empties the memory, `Recover` is `recoverDeployQueue`, `Sweep` is
`sweepStuckDestroyingInstances`, after which the API listens. The event kind
`overlap` is a request made while another is between its row and its push, or
while a cancel has taken the entry out of the queue and not yet marked its row.

### PortLedger and Ingress

In `PortLedger` a scan walks the pool; `CheckPort` is the synchronous part for one
port, `ProbePort` the answer of the probe, which also reserves everything when the
last port is found. `Fails`, `GatePasses` release, as `applyDeployment` does;
`Abandon` is every way a planned deployment never gets there.

In `Ingress` a vhost file is the set of domains it names (`disk`; `nginx.files` is
what nginx has loaded), a lineage is how often it was issued (`live`; `nginx.certs`
is what nginx has loaded of it), and `rows` is `CertModel`. A pass (`flow`) is the
tick (render, then obtain), an `ensure` started by a deployment or promotion, or a
retirement (render, then remove); `ReadDeployments` to `Reload` are
`renderAllNginx`, `ListDomains` to `RecordCert` are `leaderEnsureCerts` with
`obtainCert`, `DeleteLineage` to `RemoveDone` are `removeCertsForDomains`. A certbot
that is killed (`CertbotKilled`) has no exit code, which `execStream` takes for 0; the
expiry recorded after it is that of an older lineage, or invented.

### ClusterNodes

`members` is `NodeModel`, `reports` the map of `statusGossip.ts`, `rolling` is
`rolloutInProgress` with its timer, `host` what a node's disk and process hold
(checkout, `node_modules`, env file), `jobs` the runs of `applyVersionLocally` on
it (several can run), `hosts`, `loaded` and `targets` what is rendered from the
registry, `watch` is `watchFollowerRestart`. `InstructFollower`, `UpgradeLeader`
and `PauseEnds` are the cron job `runSelfUpdateRolloutIfLeader`, which looks for the
first row that is `Stale`; a wish of CI (`SetDesiredNsmVersion`) that is not newer
than all before it counts as the event `back`; `Checkout`,
`Installed`, `InstallFails` the awaits of `applyVersionLocally`, the second also for a
`systemctl restart` whose failure nobody looks at; `Report`,
`SendLate` and `DeliverLate` a status report that arrives at once or late. Edits of a
node's configuration overlap, and each starts a watch; the model follows any one of
them (`wants` is the edit it waits for).

### DnsMirror

`remote` and `rzones` are the registrar, `rows` and `cached` the mirror, `known` the
meta table. Each request or cron job is a `job`: `StartSync` ... `PruneRecords` are
`performAccountSync` with its per-zone erase and insert, `StartCheck`, `PushIp`,
`StoreIp` are `checkPublicIp`, `StartEdit`, `StartCreate`, `StartDelete`,
`WriteRecord` the record editor with its read-back, `StartDrop` ... the deletion of a
domain, `StartPrice` and `WritePrice` what a purchase records, `StartRelease` and
`Strip` the records that follow a port reservation. A comment of which nothing is
left is not sent, and the registrar changes only what is sent (`Updated`): the tag of a
record whose comment is nothing else stays (event `kept`).

### Health, Incidents, Quotas, DiscordMessages

`Health`: time counts sampling intervals, of which there are `Hour` in an hour;
`RawKept` and `RollupKept` are the retentions; `SampleProject`, `Probe`, `Detect`,
`Insert` are the steps of a tick, `RollupReads` and `RollupWrites` the hourly job.
While the leader is down (`Down`) time goes on. `BriefOutages` says that this was
for less than `RawKept`: what the leader compares a measurement with is its last
samples, and a start of the leader prunes what is older.
`Incidents`: `StartUpdate`, `AddEntry`, `WriteRow`, `Tell` are
`addIncidentUpdate`; `updateIncident` has no entry; a deletion removes the row and
then the timeline. A field that is undefined is not written (`Written`), so an incident
that is reopened keeps its `resolvedAt`. `Quotas`: time counts sweeps; `ReadUsage`,
`Notify` or `NotifyFails`, which goes on all the same, `Store`.
`DiscordMessages`: `Receive` decides by `GITHUB_SCENARIO_SUBEVENTS` whether a
delivery concerns the webhook, `Lookup` finds the subject's message, `Post`,
`Edit`, `DeleteMessage` with one retry, `Track` and `Untrack` the reference.

### ProjectConfig, Routes, Access, Reservations

`ProjectConfig`: a request is the list of the steps it still has to take
(`ReadProject`, `WriteProject`, `PutSecret`, `ClearSecrets`, `SetSecrets`,
`EnsureGithubWebhook`, `CreateRepoWebhook`, ...); `asked` remembers the value last
asked for of every field and secret. `CreateProject` does not look whether the id is
taken: over an existing project it is the event `over`. `Routes` is the table of the
routes, each with what its effect is; what an effect demands (`Demands`) is read off
the comments on the capabilities, not off the handlers, and `Unchecked` names the five
effects whose handlers ask for less: logs, metrics, nodes, the join information, and
the creation over a project. `Access`
runs the programs of that table: `Check` one check after the other, each of which
reads one table or one cached GitHub list (`ReadCache`, `Resolve`, `FetchFails`),
then `Act`. `Reservations`: `CreateReservation` looks, `UpsertReservation` writes;
`PlanOwn`, `PlanPool`, `Allocate`, `Start` are what `deployProject` and the node
make of them.

### Hooks, Pages, Dashboard, Navigation, Credentials, Purchases

`Hooks` and `Pages` are data read off the source: for each hook its route, what it
reads or writes and what it does to the cache; for each page what it mounts and
offers. `Dashboard` follows one query, any of the 39, of one tab: `Fetch`,
`Read`, `Arrive` are React Query's fetch, `Submit`, `Serve`, `Settle`, `FollowUp`
a handler and its mutations, `Reseeded` what an editor does when the query
changes. `Polls` is the `refetchInterval` of the query: always, while the window of time
ends now (`Sliding`), or while the deployment is queued or being built by what the
data says; `final` is the write with which it has been built. `Navigation`: `me` is the answer of `useMe`, the server checks `rights`.
`Credentials`: `SignIn`, `SignOut` and `Revoke` are the awaits of
`userController.ts`, `Authenticate` and `Touch` those of `authenticateApiKey`.
`Purchases`: `Check`, `Register`, `Poll`, `Adopt`, `SavePurchased` are
`performPurchase`; the registrar decides in `Registered`.

### Mutated forms

Operators with a suffix (`Drains_Eager`, `Recovered_One`, ...) are wrong variants
of the operator beside them, each the result of a plausible slip. No action uses
them. Putting one in the place of its original makes the run of the property
fail, which shows that the property depends on that line; `PROJECT.json` lists
the pairs.

## Runs

`Budgets` bounds how often each *kind* of event may happen; a run takes several
budgets, and a behaviour stays within one of them. Every kind occurs in some
budget, together with those it can meet; the failing statements, which have a
budget of one or two events and find their counterexample, are the measure for
how many are enough. Other bounds: `MaxAttempts` (deployments ever started),
`MaxInst` (instances ever created), `MaxPort`, `MaxTime`, `MaxMessages`, `MaxJobs`,
`Tokens`, and the sets of flows, which bound how many handlers run at once: two
everywhere, since each of the races found is one of two handlers (three in
`Purchases`, where two decisions can meet a purchase; one beside the tick in
`Ingress`).

| Run | Instance | What it shows |
|---|---|---|
| `BlueGreenCore` | 1 follower, 3 zero-downtime attempts; 2 failures, crash of the node, restart of the leader, a lost report, a timeout, a late line, a build or a teardown cut short, drains before the nginx pass | `ServedIsUp`: what the next nginx pass points at always runs, and what nginx points at runs until a drain comes before that pass. `OnlyAnnouncedIsServed`: the conf to serve changes only through an announcement of that generation. `ImplementsCutover`: the protocol implements `TrafficCutover` with `active` the served conf of the row, `serving <- conf` and `up` the running attempts; in particular traffic never goes back |
| `BlueGreenLive` | same, 2 failures, a crash, a loss, a timeout, fair | `EveryGenerationCutsOver`, unless an announcement can have been lost; `OldGenerationsDrained` in any case, although the drain timers are in memory |
| `BlueGreenMove` | a follower and a leader that owns projects; 2 attempts in both modes with a cancel, a timeout and a handler that gets in between read and write of `deployProject`, or a reassignment, a teardown, a failure and a timeout; a `docker compose down` that fails; fair | `ConfMatchesGeneration`; `RunningIsTracked`: until a deployment in place, a crash or a restart, no container runs that the node's marker or tick does not know of; `ClearedProjectGoesAway`; both except what a failed `docker compose down` has left behind |
| `BlueGreenBadStaleReady` | 1 node, 3 attempts, one cancel | the violation described [below](#what-does-not-hold) |
| `DeployQueue` | 2 projects, 3 instances; 2 crashes and 2 timeouts, or an overlap, a cancel, a crash and a timeout | `QueueMatchesRows` (`QueuedRowIsOwned`, `WaitingEntryIsQueued`, `OneEntryPerProject`): the queue is rebuilt from the rows without loss or duplicate; `FirstComeFirstDeployed`; `BacklogIsDrained`; `SettledRowFreesSlot` |
| `DeployQueueLive` | 2 instances, crash, a teardown or deletion, as many timeouts as activations, fair | `QueuedEventuallyLeaves` although nodes owe nothing |
| `Hosts` | ports: 5 of which one is reserved, 3 deployments of 2. Ingress: 2 projects, one served with or without a domain that the other and the dashboard have; retirements, shared domains, failing and killed certbot calls, expiry, a failing reload, a restart; fair | `NoSharedPort`, `LedgerIsOwned`; `ConfsStayValid`: what is on disk passes `nginx -t`, until a retirement overlaps another pass, takes a shared domain or may be cut short by a restart, or a first certbot is killed; `IngressConverges`: nginx comes to run what is desired |
| `ClusterNodes` | a leader, 2 followers, 3 versions, 2 upgrades at once per node, fair | `LeaderLast`, as long as every wish is for a newer version; `RolloutConverges`; `RoutesFollowNodes`: nginx and Prometheus come to follow the addresses; `RestartsAreTold`: a node whose restart is confirmed runs with what was written |
| `DnsMirror` | a zone, an address and a service record, 2 addresses, 2 jobs at once, comments that stay, fair | `NothingIsLost` (`PriceIsKept`, `EditKeepsTheRest`); `DynamicRecordsFollow`; `MirrorConverges` |
| `StatusPage` | 2 targets over four and a half hours of two ticks each, of which three hours are kept; an incident, 2 requests, reopening; 2 resources over a day and a half, a notification that reaches nobody; a pull request and an issue | `HealthIsTold` (`EventsAreChanges`, `AnnouncedIsCurrent`, `HealthDiesWithProject`); `UptimeIsKept` (`UptimeMatchesSamples`, `HistoryIsKept`); `IncidentsAreTold` (`ResolutionIsStamped`, `LastRequestWins`, `DeletedIsGone`, `ResolutionIsTold`); `BreachesAreTold` (with `StillOverIsRepeated`, `NoRepeatWhileSteady`); `MessagesFollowSubjects` (`OneMessagePerSubject`, `ClosedSubjectHasNoMessage`, `LastEventIsShown`, `RefsBelongToTheWebhook`) |
| `Management` | a project under 2 requests at once, one of which may create it over itself; a user, a super admin and a machine on every route; 2 projects, 2 nodes and 3 ports | `ProjectIsKept` (`WritesAreKept`, `UserValuesSurvive`, `DotenvIsComplete`); `TriggersMatchConfig` (`HookIsOurs`, `ConsumersAreServed`, `ScheduleMatchesConfig`); `AccessIsRight` (`ActsWithRights`, `RightsAreHonoured`, `WritesRunOnTheLeader`, `GrantsAreKept`); `ReservationsHold` (`ReservationsAreDistinct`, `ReservedPortsAreFree`, `ReservationsDieWithProject`) |
| `Dashboard` | each query on each page, with the writes of others; a user with every combination of rights; 2 browsers, 3 tokens, 2 keys, 2 callers; 2 requests for one domain, 2 teams, an account; fair | `CacheFollowsWrites` (`WritesAreShown`, `RefusedIsNotShown`, `DraftSurvives`, `ListIsComplete`); `PagesMatchRights` (`OfferedIsAllowed`, `AdminPagesGo`); `CredentialsEnd` (`SignedOutIsOut`, `NewestSignInWins`, `OnlyAskedAreOut`, `KeysDieWithProject`, `RevokedStaysRevoked`); `PurchasesAreTrue` (`PurchasedIsOurs`, `FailedIsNotOurs`, `LinkedAccountExists`, `OutcomeIsFinal`); `PendingSettles` (`StatusCatchesUp`, `PurchasesSettle`) |

A name in parentheses is a property of the component's module, stated and
explained there; the run checks their conjunction, together with the type
invariant.

Three attempts are the least with which there is an active generation, a
superseded one and a pending one; no property relates more than three. Two nodes
are what a move needs; there, and with fairness, two attempts keep the run small
and still make one supersede the other. In the queue, two projects and three
instances give an active entry, one that waits and one that is requested
meanwhile. Five ports, of which one is reserved, let three deployments of two
ports compete for four: the pool runs out. Two followers are what an order among
followers needs. Two domains, one of which both projects and the dashboard name,
let a vhost wait for one certificate while it has the other, and let a
retirement take a certificate that is needed elsewhere.

Deadlock is not an error in any run: nobody has to request another deployment,
and when the budgets are used up the system is at rest.

## What does not hold

The passing runs keep a kind of event out of a property's antecedent only where
that kind breaks it. The statement without the antecedent, and statements that
comments make or that one would expect, are kept beside it and refuted by TLC.

`BlueGreenBadStaleReady` is the run listed in `PROJECT.json`: a comment of
`promoteDeployment` calls it safe against stale reports, but a cancel gives a
generation number back, the next deployment gets it again, and the ready report
of the cancelled attempt promotes its successor before it is built. The other
files whose name has `Bad` in it check the first of several statements; their
heading comments say what to change to see each of the others. To try one:
`tlc -config DeployQueueBad.cfg MCDeployQueue.tla`. Some of the first ones are
statements of the source itself:

| File | Statement | The source says | What happens |
|---|---|---|---|
| `BlueGreenBadEarlyDrain` | `ServedIsAlwaysUp` | "activeGeneration advanced -> nginx flipped" (`reconciler.ts:103`) | the drain timer looks at the row and the clock, not at nginx; when the next pass is late, serving containers are taken down |
| `DeployQueueBad` | `EntriesAreUnique` | "Deduplicates" (`deployQueue.ts:43`) | two overlapping requests pass the duplicate check |
| `HostsBad` | `PortsAreDisjoint` | "without this ledger a subsequent deploy ... could be handed the same port" (`ports.ts:42`) | a plan call the leader gave up on still scans, and passes in its probe the port that the next one reserves |
| `ClusterNodesBad` | `OneAtATime` | "One node at a time" (`selfUpdate.ts:50`) | an upgrade outlasts the pause |
| `DnsMirrorBad` | `PriceIsAlwaysKept` | "we preserve any pricing NSM cached at purchase time" (`cloudflareSync.ts:13`) | a refresh that read before the purchase writes after it |
| `StatusPageBad` | `ClosedHourNeverShrinks` | "re-running recomputes and overwrites the same rows" (`healthController.ts:201`) | an hour is recomputed at the edge of the window, where only part of its samples is read |
| `ManagementBad` | `LogsAreForDeployers` | "DEPLOY: see logs + ..." (`types.ts:876`) | the log routes ask for a session only |
| `DashboardBad` | `LiveCatchesUp` | "while the deployment is queued or building it re-polls every 2s" (`useLiveProjectInstance.ts:11`) | one lost answer ends the polling |

`BlueGreenBadStaleReady.cfg` (`MCBlueGreen`)

| Statement | What happens |
|---|---|
| `ActiveIsUp` | as above; also when a promotion between the read and the write of `deployProject` is overwritten and its drain goes on, and when the old node of a moved project tears down what nginx still serves |
| `BuildMatchesConf` | the rolled-back row names compose, ports and log of the cancelled attempt, and a node with drift builds it |
| `CancelKeepsServing` | a cancel just after the promotion tears down the serving deployment |
| `CancelledBuildIsNotDeployed` | a killed build ends with exit code null, read as 0 |
| `ClearedAfterTeardown` | a follower answers a teardown before doing it, and the leader settles the instances |
| `FlagHitsItsBuild` | a cancel flag raised while nothing is built waits for the next attempt |
| `LostReportIsRepeated` | a lost deploy-ready post is never repeated |
| `RunningIsAlwaysTracked` | the daemon ends between `docker compose up` and the marker that lists the generation; or a `docker compose down` fails, and the marker forgets the generation all the same |
| `ClearedProjectStops` | the same after a teardown: nothing tries again |
| `SupersededContainersStop` | after a switch from in-place to zero-downtime the bare compose project is never stopped |

`DeployQueueBad.cfg` (`MCDeployQueue`)

| Statement | What happens |
|---|---|
| `QueuedRowIsAlwaysOwned` | two overlapping requests pass the duplicate check; after a crash, one of the two rows is not queued again |
| `WaitingEntryStaysQueued` | the last step of a cancel marks whatever instance is active by then |
| `CancelledIsNotBuilt` | a cancel during the build is taken for one during planning, the desired row stays |
| `ShiftFindsEntry` | the queue is emptied during the settle delay, `shift()!` yields undefined |
| `OneInFlight` | a failed deployment is retried by its node while the next one is deployed |
| `AwaitedRowExists` | the row of the active deployment is deleted; nobody tells the queue |
| `SettledRowAlwaysFreesSlot` | a teardown settles the active instance without telling the queue |
| `DestroyedIsTerminal` | a late report moves a destroyed instance on |

`HostsBad.cfg` (`MCHosts`)

| Statement | What happens |
|---|---|
| `PortsAreDisjoint` | also when a retry uses ports its failed attempt has released, and when a restart forgets the ledger |
| `LedgerIsAlwaysOwned` | the ports of an abandoned plan stay reserved until the daemon restarts |
| `IngressAlwaysConverges` | a reload that fails, or that a restart prevents, is not repeated: the files have not changed since |
| `ConfsAreAlwaysValid` | a certificate is recorded after it has been removed; its row outlives the lineage, and `nginx -t` fails |
| `ActiveIsServed` | certificates are obtained for pending domains; the active conf waits for one that is missing |
| `RenewedIsLoaded` | nothing reloads nginx when only the PEM files change |
| `ServedStaysServed` | a conf with one more domain takes the vhost away until its certificate is issued |
| `ValidDespiteSharing` | retiring a project removes the certificate of a domain that another one names |
| `ValidDespiteCrash` | the leader restarts between certbot's delete and that of the row: the next vhost with the domain names a lineage that is gone |
| `ValidDespiteKilledCertbot`, `ConvergesDespiteKilledCertbot` | a first certbot that is killed at its timeout is recorded as a success: the vhost names files that do not exist, and no reload succeeds as long as it does |

`ClusterNodesBad.cfg` (`MCClusterNodes`)

| Statement | What happens |
|---|---|
| `RoutesConverge` | a failed reload is not repeated |
| `GoneStaysGone` | a late report registers a removed node again |
| `LeaderIsAlwaysLast` | an older version is asked for and taken back: a follower's last report says the version wanted now, although it has meanwhile gone to the other |
| `NodesComeBack` | a node restarts while `npm ci` runs for a second instruction |
| `OneAtATime` | also when the leader restarts and every follower looks stale |
| `ToldIsTrue`, `WarnedIsTrue` | lost pings are taken for a restart; the warning is given although the node restarted |

`DnsMirrorBad.cfg` (`MCDnsMirror`)

| Statement | What happens |
|---|---|
| `StrippedWhenReleased` | a comment of which only the tag is left would become empty; it is sent as no comment at all, and the registrar keeps the old one |
| `DynamicRecordsAlwaysFollow`, `DynamicRecordsFollowBeside` | an update that failed, or that an overlapping job undid, is not repeated: the new address is remembered |
| `MirrorAlwaysConverges` | a restart between the steps of the deletion of a domain leaves records without their zone |
| `DynamicRecordsFollowEdits`, `DynamicIsTurnedOff` | an edit that turns dynamic off, or gives an address, leaves a comment without a word, which is not sent: the tag stays, and the next change of the public address overwrites the record (`dnsController.ts:160`, `cloudflare.ts:142`, `porkbun.ts:102`) |

`StatusPageBad.cfg` (`MCStatusPage`)

| Statement | What happens |
|---|---|
| `AnnouncedIsAlwaysCurrent` | two ticks overlap, and the older measurement is announced last |
| `EventsAreChangesAfterOutage`, `AnnouncedIsCurrentAfterOutage` | the leader is down for as long as samples are kept: there is nothing to compare the next measurement with, and a change is announced a second time or not at all |
| `RollupsAreNeverMissed` | the same for the hours before such an outage: their samples are pruned before the job at five past has run (the comment at `healthController.ts:38-40` says that a rollup can never be missed) |
| `RemovedTargetsAreSilent` | a failing target that is removed is announced as up, also a second time |
| `ClosedHourIsShown` | a closed hour shows nothing until the job at five past |
| `HealthAlwaysDiesWithProject` | a tick beside the deletion writes samples of a project that is gone |
| `ReopenedIsNotResolved`, `LastRequestAlwaysWins`, `DeletedStaysDeleted`, `ResolutionIsAlwaysTold` | the stamp stays when an incident is reopened, by an update or by an edit, which means to remove it (`incidentController.ts:85`); two requests interleave at their awaits; an update beside a deletion writes the whole row back; an edit resolves without telling |
| `ToldDespiteFailedPush` | a notification that fails, or finds no members, is stored as sent, and not sent again before the cooldown |
| `ToldDespiteCrash` | the leader stops between the notification and the row: what was left out of it is no news when it is over again |
| `NoRepeatAfterGap`, `NoRepeatAfterCrash` | missing metrics read as zero usage end the breach; a restart before the row is stored repeats it |
| `OneMessageInAnyOrder`, `OneMessageDespiteRefusals`, `ClosedSubjectNeverHasAMessage` | two deliveries find no message and both post; an edit refused twice leads to a second message beside the first; a deletion refused twice is forgotten, the message stays |

`ManagementBad.cfg` (`MCManagement`)

| Statement | What happens |
|---|---|
| `WritesSurviveOverlap`, `DeletedProjectStaysDeleted` | every update reads the row, waits, and writes all of it: it undoes another one, and brings a deleted project back (`projectPersistence.ts:84`) |
| `QuotaIsTheAdmins`, `HookIsOursAfterCreate`, `ConsumersAreServedAfterCreate`, `ScheduleMatchesAfterCreate` | creating a project with the id of another writes over its row, without its quota, hook and schedule: the hook and the cron task live on (`projectController.ts:80-95`) |
| `UserValuesSurviveUnread`, `UserValuesSurviveCrash`, `DotenvIsCompleteAlways` | a sync that cannot read `.env`, or stops between erasing and inserting, loses what users have entered; one beside another leaves a part |
| `HookIsOursAfterCrash`, `HookDiesWithProject`, `TaskDiesWithProject`, `NewProjectIsNew` | the hook exists at GitHub before its id is stored; a deletion leaves hook, task and secrets to the next project of the name |
| `ConsumersAreServedInAnyOrder`, `ConsumersAreServedAfterAll` | overlapping changes, or a hook GitHub refused, leave a consumer without one |
| `OutageNeverBlocks`, `AccessAlwaysEnds` | a list that was never fetched is empty during an outage, one that was is kept as long as it lasts (`authz.ts:13`) |
| `AccessEndsWithTheApp` | the App is removed while a request is handled, and the organization's old lists serve it (`authz.ts:35-40`) |
| `MetricsAreForViewers`, `NodesAreForAdmins`, `SecretIsForAdmins`, `ProjectsAreOverwrittenWithRights` | like the logs: metrics, the nodes' own metrics, storage and logs, and the join information ask for a session only; creating over a project asks for the right to create one for the owner named in the request |
| `AnyNodeServes` | a follower looks the session up in its own, empty, table before it forwards (`README.md:77`) |
| `GrantsAreKeptInAnyOrder` | the row an override creates overwrites defaults set after it was looked for |
| `ReservationsAreAlwaysDistinct`, `ReservationsAlwaysDieWithProject`, `LatePortsAreFree`, `ReleasedPortsAreFree` | look and write are two steps; a port is reserved for another project while a plan or containers have it, or released while they do; a request is written after the project is deleted |

`DashboardBad.cfg` (`MCDashboard`)

| Statement | What happens |
|---|---|
| `WritesAreAlwaysShown`, `EverythingIsRefreshed`, `ListIsAlwaysComplete` | a fetch under way overwrites what a mutation has shown; rights and bills are not refreshed; a project created early is the whole list for 15 s |
| `RefusedIsNeverShown`, `FlipsAreUndone`, `BlankIsNeverShown` | hooks do not look at the answer: refused changes are shown as saved, a switch stays flipped, an unanswered query empties the page |
| `NothingIsUndone`, `DraftSurvivesButtons` | saving sends every field of a draft that was seeded before others saved; another button reseeds it |
| `DeploymentIsShownAsItIs` | a deployment that has been built is not polled any more: torn down or replaced, it is shown as it was (`DeploymentInstanceDetail.tsx:25-29`) |
| `LinkedIsAllowed`, `UninstalledIsAllowed`, `PageIsStillAllowed` | links and settings lead to what the server refuses; a page stays when its right has gone |
| `SessionSurvivesOutage`, `EveryBrowserStaysIn`, `NewestSignInAlwaysWins`, `KeysAlwaysDieWithProject` | a page loaded during an outage, or a sign-in elsewhere, ends the session; a sign-out writes an old row back; a key is created between the steps of a deletion |
| `FailedIsNeverOurs`, `PurchasesAlwaysSettle`, `OutcomeIsAlwaysFinal`, `LinkedAccountAlwaysExists` | a slow registration is given up and then succeeds; a restart leaves a request `purchasing`; two decisions at once (`domainsController.ts:191`); an account is removed while it is being linked |

## Fairness

Fairness is on steps the code takes by itself and nowhere else; it is weak unless
said otherwise:

- a handler that has begun goes on after its await: the promises it awaits settle
  or reject, and the rejection is a step of its own (the steps of `BlueGreen` and
  `DeployQueue`; `Step(f)` of `Ingress`, `DnsMirror` and `Purchases`; the
  mutations of `Dashboard`);
- intervals and cron jobs recur: `NodeStep(n)` (5 s, a new tick when the last one
  has ended), `Render`, `StartTick` and `CooldownEnds` of `Ingress`, the rollout,
  the pause, reports and refreshes of `ClusterNodes`, the poll of `Dashboard`.
  `Report` is strongly fair because a node reports again and again between its
  restarts; `StartSync` and `StartCheck` of `DnsMirror` are, because the jobs of
  the model share `Jobs` slots, which in the code they do not;
- timers fire: `Drain(n)`, `QueueTimeout` in `DeployQueue`;
- a post under way is handled: `PromoteDeployment`, `Purge`. Losing it is a
  separate step with a budget, so that liveness is claimed only for behaviours in
  which losses end;
- a registrar that has been asked decides: `Registered(d)`;
- a daemon that stopped is started again by systemd: `Recover`, `Sweep`, `Boot`,
  `Restart`.

Nothing is assumed of users, of failures, of the queue timeout in `BlueGreen`, and
in `DeployQueue` nothing of the nodes. `NodeStep(n)` is one weakly fair action
rather than one per step since a tick is sequential: at each moment at most one
kind of step is the node's next one, failing is its only alternative, and the
failures are budgeted. `StatusPage` and `Management` check safety only; they need
no fairness.

## Proofs

Checked by `tlapm` for every value of the constants that satisfies their
assumptions: any number of deployments (at least one), nodes, projects, instances,
ports, domains, passes, incidents, subjects, deliveries, resources, sweeps, keys,
tokens, followers, versions and upgrades at once, and any budget of natural
numbers. The assumptions stand with the constants and TLC evaluates them in every
run: nodes and followers are finitely many, and so are the names of secrets (`NamesAssumption`), a deployment
needs at least one port (`NeedAssumption`), 0 is not a port and `none` not a name, a cooldown lasts at
least one sweep, an hour has at least two sampling intervals (in the code it has 120), the log of a subject is finite, rights change to rights that somebody can have (`LossesAssumption`), the query that
is followed is one that some page uses (`KeysAssumption`),
and the leader is no follower. A
property that is proved is stated by the theorem as the run checks it, with the
same antecedent. The temporal part of each proof is the same few lines at its end;
the rest is that the inductive invariant holds initially, is kept by every
action, and implies what is claimed (for an action property: together with the
step).

| Module | Theorems | Properties |
|---|---|---|
| `BlueGreenProofs` | `TypeCorrect`, `ConfsBelongToGenerations` | `TypeOK`, `ConfMatchesGeneration` |
| | `TrafficGoesToAnnounced`, `NothingLeaks`, `ZeroDowntime`, `DeploymentsKeepThePromise` | `OnlyAnnouncedIsServed`, `RunningIsTracked`, `ServedIsUp`, `ImplementsCutover` |
| `DeployQueueProofs` | `BacklogAlwaysDrained`, `QueueAndRowsAgree`, `SettledDeploymentsRelease`, `DeploysInOrder` | `BacklogIsDrained`, `QueueMatchesRows`, `SettledRowFreesSlot`, `FirstComeFirstDeployed` |
| `HostsProofs` | `LedgerTypeCorrect`, `PortsNeverShared`, `ReservationsAreOwned`, `VhostsNameCertificates` | `TypeOK`, `NoSharedPort`, `LedgerIsOwned`, `ConfsStayValid` |
| `ClusterNodesProofs` | `ToldRestartsAreTrue`, `LeaderGoesLast` | `RestartsAreTold`, `LeaderLast` |
| `StatusPageProofs` | `FollowersAreTold`, `SubjectsHaveOneMessage`, `OwnersAreTold` | `IncidentsAreTold`, `MessagesFollowSubjects`, `BreachesAreTold` |
| | `StatusIsTold`, `HoursAreMeasured` | `HealthIsTold`, `UptimeIsKept` |
| `ManagementProofs` | `ProjectsAreKept`, `TriggersAreRight`, `ReservedPortsAreTheirs` | `ProjectIsKept`, `TriggersMatchConfig`, `ReservationsHold` |
| `AccessProofs` | `ProgramsAreSound`, `AccessIsKept` | `AccessIsRight` |
| `DashboardProofs` | `CredentialsDoEnd`, `PurchasesStayTrue`, `PagesAreAllowed`, `CacheIsTrue` | `CredentialsEnd`, `PurchasesAreTrue`, `PagesMatchRights`, `CacheFollowsWrites` |

**`BlueGreenProofs`**. `TypeOK` needs that a generation number stays within the
number of attempts although it is computed from the row by adding one
(`GenerationsBounded`), which depends on the queue having a single active slot:
between planning and proposing no one else bumps the number.
`ConfMatchesGeneration` needs that the proposal held between the read and the
write of `deployProject` is consistent too, although cancel and promotion change
the row meanwhile (`ProposalConsistent`), and that the attempt in the slot has no
generation yet (`OnlyProposedHaveGenerations`), so that writing its generation
does not disturb the attempts the row already names. The second theorem is
interesting for what it does not assume: it holds with lost and stale reports,
races, cancels and restarts. What these break is whether the containers of the
right conf run, not which conf is beside which number.

The promises to traffic need three invariants more, each under the events that
spare it. `ServedInv` (no deployment in place: everything in the slot, the row and
the ticks is zero-downtime; and without races the proposal about to be written was
made from the row as it is) gives `OnlyAnnouncedIsServed`. `AllTracked` says of
every node that a compose project that runs is in the marker, or the tick in
progress is before the step that lists it, or about to undo it. `Cutover` is the
invariant of the zero-downtime promise, in three parts: what the leader knows
(`LeaderPart`: later attempts have later generations, the row is that of an
attempt proposed for this host), what a host has (`HostPart`: what is ready is up,
what is active has been ready, the conf in force is of an attempt that is or was
active, timers are for older generations, announcements for ready ones)
and what a tick is doing (`JobPart`). It gives the first half of `ServedIsUp`, that
what the next pass points at is up, with drains at any time; that the conf in force is
up is kept by every step but a drain that is early (`ConfIsRunning`). The refinement shows,
action by action, that a step of the protocol is a step of `TrafficCutover` under the
mapping or leaves its variables alone, for behaviours in which there are only
deployments (`OnlyDeployments`); only a promotion moves `active`, only `Render` moves
traffic, and only a drain takes something down that nginx still points at.

**`DeployQueueProofs`**. `BacklogIsDrained` is inductive; the lemmas `TakeDrains`
and `KickDrains` say what a turn of the loop and a call of `drainQueue` leave
behind. The rest shares one invariant: types; `SlotIsHeld` (where the loop is and
what it holds); `Core`, which says where an instance can be (`EachOnce`), what its
row then says (`RowsFollow`, `QueuedRowIsOwned`), and, without overlaps, that a
project occupies one place and entries wait in the order of creation (`InOrder`);
`Stopped` for a leader that is down; `Spent`, that a call under way has been
counted; and `Calm`, what can be said of rows while there are no teardowns.
Recovery is the hard step: that sorting the `QUEUED` rows rebuilds a queue in which
each is once and in order is a lemma about finite sets of numbers, proved by
well-founded induction over a subset.

**`HostsProofs`**. Ports: the invariant is `TypeOK`, the probes being in the pool,
and `Unspoiled => Clean`: one scan runs at a time, ports given and not yet bound
are in the ledger, and what the scan has picked up or is probing is neither given
nor reserved. `LedgerIsOwned` adds `ReservedIsPending`. Ingress: every pass does
what its task is (`Task`); a retirement is alone (`RetiresAlone`); and as long as
nothing disturbs them, a domain on record has its lineage or its removal is under
way (`RecordedIsIssued`), each pass carries only domains fit for what it is about
to do with them (`Fit`), and the files are valid.

**`ClusterNodesProofs`**. `RestartsAreTold`: a watch that has seen the follower
down, or has no baseline, has been preceded by a restart after the edit
(`WatchIsRight`). `LeaderLast`: nothing of a node is newer than what was asked for
(`NoneNewer`), a node that runs the version asked for stays on it in spite of the
upgrades that still run on it (`StaysAt`), and neither a stored report nor one that
is late is ahead of the node (`ReportHolds`, `MailHolds`).

**`StatusPageProofs`**. The modules it composes are proved one after the other;
of the others only that they leave these variables alone is used. Incidents: what
a request under way is going to write is what was asked for last. Messages: the
messages of a subject are those that references or a delivery under way know of,
by the step the delivery is at (`Found`, `Referred`), and the newest event is in the
hands of a delivery or on the message (`Current`, `LastIsShown`). Quotas: one sweep
at a time knows the state as it is (`OneSweep`, `KnownAsItIs`), and the cooldown
cannot have elapsed between two sweeps (`InTime`). Health: a target is sampled once
in an interval (`OnceEach`), one tick runs at a time and what it has got is of now
(`TicksTakeTurns`), so the last event is the state of the newest samples or of those
about to be inserted (`Reported`), and these are still there as long as outages are
brief. A rollup counts a set of samples; which set is known by where the edges of the
hour and of the window lie. An hour that is shown and whose samples are all kept counts
exactly these, in the row as in the rows a job has read and not yet written
(`Measured`): what is inserted later is of a later hour, and what is pruned is of an
hour nobody asks for. A sample whose hour is not rolled up yet is younger than the
next run of the job plus what outages can add (`Awaits`), which is where the retention
has to be longer than that. The counts need no sum: that two totals are equal or one is
at most `Hour` is shown by an injection into the ticks of the hour.

**`ManagementProofs`**. Projects: a request is a list of steps that only gets
shorter, so the invariant is about the lists. `InOrder` says how they are formed: a
write of the row directly follows the read it is made from, secrets are cleared
before any is put back, and the dotenv file comes last. While requests take turns
(`OneAtATime`), what is about to be written back was read from the row as it is
(`ReadsAreFresh`), and what is not about to be written is stored (`Stored`). So a
name somebody gave a value to has it or is about to get it back (`ValuesHeld`), and
the files are those of the rows or about to be. Each part is conditional on the
absence of the risks that break it, as in the property: with a second request
between the read and the write, a secret is lost. Triggers: a request that changes
them still has to do one of a few lists, or leaves them alone (`Inert`), and
`Stage` says for each list what is known meanwhile: whether the old task has been
stopped (`Untimed`) or the new one is due (`Timed`), which hook GitHub holds
(`Registered`), that whoever needs one has one (`Served`), and that the hook about
to be deleted is needed by nobody. Reservations: two that rival are
neither stored nor about to be (`Apart`), their projects exist (`Alive`), and what a
deployment uses is its own or nobody's (`Keeps`).

**`AccessProofs`**. The routes are data, and their part of the proof is by cases
over them: `ProgramsAreSound` says of every route of `routes.ts`, by name, that its
checks establish what its effect demands of a user, or let in machines only, unless the
effect is one of `Unchecked`, and that of those no route's checks do: the list is exact. The
invariant carries that along a request: what its effect demands is proven or among
the checks left (`Owed`), and proven means that it held while the request was
handled, or at GitHub less than TTL before it (`Proven`). Between the reads of a
check it says what each of them has established (`Judged`), and that the request has
noticed whatever its caller may do now (`Witnesses`). The caches connect the two
clocks: an entry names who was a member when it was stored or later, a fetch under
way who was so since it began (`ListsAreOld`), which is why an answer that is read
within TTL speaks of what held lately. Who is entitled is served because lists that
are younger than the last change are true (`ListsAreTrue`) and what such a request has
read agrees with what is so (`Honoured`). Time stands still during a request as long
as none is slow, so a list that is being fetched has somebody who waits for it
(`Awaited`). No assumption is made on who is asked for what: callers, grants,
programs, budgets and TTL are parameters, with `RightsAssumption` saying that programs
are routes and that owners are members.

**`DashboardProofs`**. Sessions and keys: an ended token
is not accepted (`EndedIsOut`); while requests take turns the row is the last
sign-in (`RowIsNewest`) and GitHub accepts its token (`SignedInIsValid`); what has
ended was asked to end (`AskedIsEnded`); a key is created once. Purchases: a
registration finds its domain free and takes it for good, so no domain is paid for
twice and a flow that waits has started what it waits for (`PaidOnce`), with any
number of flows at once; while flows take turns the request of a flow is as the flow
has left it (`Turns`), and an account about to be deleted has no link (`LinksHold`).
Pages: the routes that the frontend calls, its queries, its mutations and its
handlers are filed under the one right each asks for (`MayAsk`, `MayQuery`, `MayRun`).
That every route's checks are passed by whoever has that right is proved from the
route table (`AskedIsAllowed`), that every page under its sidebar entry is made of
what its users may do (`Fine`) from the tables of the frontend, page by page. So the
two tables, which are kept apart in the code, are compared entry by entry for every
combination of rights, and only three lines are left about the states: who came by the
sidebar was shown the way with the rights known then (`NavigationInv`).
The cache of a tab, for every query on every page: the tables are read twice. Of each
of the hooks it is proved that it tells the queries that its route writes
(`HooksTell`), and of each page that its handlers, step by step, bring what the page
shows up to date and patch no list before it is there (`PagesAreGood`). From these the
invariant `CacheInv` is kept by every step: a write that was served has arrived, is
being fetched, or some handler still owes the refetch, as long as handlers take turns
and answers arrive (`WritesArrive`, with `OneHandler` and `HandlerAlone`); a write that
was refused is in no answer, cache or patch, as long as no handler shows its effect
before it asks (`RefusedIsNowhere`); what patches find there is the whole list
(`ListIsThere`); and a page with an editor fetches nothing while its user only edits
(`DraftIsKept`). A handler is followed from its first step that matters to the query
(`Ahead`), which is how a query's behaviour on a page stays small.

Attempts that failed changed the project. `ConfsStayValid` and `BreachesAreTold` held
in the runs only because no budget had a restart at the right step: a restart
between certbot's delete and that of the row, or between notification and state,
breaks them. `LeaderLast` held only because two wishes are not enough to go back
and forth; `RunningIsTracked` only where there was no crash between `docker compose
up` and the marker; the order of the queue only because no request came while a
cancel had its project's entry in hand; `ResolutionIsStamped` only without a
reopened incident; `ServedIsUp` only because the drain waited for nginx; `RunningIsTracked`
and `ClearedProjectGoesAway` only because no teardown failed; `TriggersMatchConfig` only
because nobody created a project twice; `ActsWithRights` only because no budget had both the App removed
and somebody leave during one request: an organization that has no installation lists
nobody, and the lists it had serve however old they are; `HealthIsTold` and
`HistoryIsKept` only because the bound on time ended a behaviour before an outage could
outlast the samples. The antecedents now say so, and the statements without them
are [refuted](#what-does-not-hold).

Only model-checked:

- liveness (`EveryGenerationCutsOver`, `OldGenerationsDrained`,
  `ClearedProjectGoesAway`, `QueuedEventuallyLeaves`, `IngressConverges`,
  `RolloutConverges`, `RoutesFollowNodes`, `MirrorConverges`, `PendingSettles`):
  fairness and `ENABLED` are out of the prover's reach;
- `DynamicRecordsFollow`, which says what eventually holds, for the same reason;
- `NothingIsLost`: not yet proved (see the [plan](#plan)).

## Abstractions

- A step is what a process does between two awaits at which something can
  change. Awaits of pure reads with nothing in between that matters are merged.
  In `BlueGreen`, `promoteDeployment` and the desired-row part of `cancelDeploy`
  read and write in one step; the read and the write of `deployProject`, which
  is the long one, are separate, and what happens between them is the event
  kind `race`.
- `BlueGreen` is one project. A tick decides on the row as it is at that moment;
  in the code it is a snapshot taken at the start of the tick, which with one
  project is the same unless the row changes between the poll and the decision.
  Each update of the marker file is one step.
- `TeardownClear` of `BlueGreen` joins the writes `DESTROYING`, clear,
  `DESTROYED`; they are separate in `DeployQueue`, which has properties about
  them. The row state `QUEUED` and the settle delay exist in `DeployQueue` only.
  The state `HEALTHY` of the type is never written by the code and is left out.
- The promotion that the leader does for its own node is a message like the
  others, only never lost.
- `POST_UPDATE_PROJECT` writes the whole body; the model writes the fields the form edits.
  A page that was loaded before another request and saves all it has loaded is followed
  in `Dashboard` (`NothingIsUndone`), not in `ProjectConfig`.
- Of an AAAA record no edit fills in the address (`dnsController.ts:142`); the records of
  `DnsMirror` are A records.
- Watches of overlapping edits of a node are followed one at a time; they do not influence
  each other.
- A purchase that ends as `action_required` is `FAILED`, as in the code; that the registration
  may complete later is the case of `FailedIsNeverOurs`.
- Log lines other than their state, estimates, wording, and compose, dotenv and
  directory contents are left out. Texts, names, values and what validation tells
  apart are members of small sets.
- In `PortLedger` netstat may fail (it lists nothing) and a probe may say "in
  use" wrongly; it does not say "free" of a bound port.
- In `Ingress` the vhost of a project is the set of domains it names, and table
  operations do not fail. `certbot --nginx` needs a conf that passes `nginx -t`
  and a server for the domain. The domains a retirement removes are those of the
  pending conf.
- Time is counted in the intervals of the job that looks at it. One project, zone,
  incident or query at a time stands for all, where the code keeps no state that
  relates two of them.

## Hazards without a run

Every hazard in `PROJECT.json` has a property. Known ones beyond it:

- `state.ts:71`: two updates of one marker file, each a read and a write;
- `reconciler.ts:89`: several projects per tick decide on one snapshot of the rows;
- `teardown.ts:70`, `:88`: `docker compose ls` fails, and only the bare compose
  project is taken down before the marker is cleared;
- `deploy.ts:209`, `deployController.ts:288`: a late progress line undoes a
  terminal state (`DestroyedIsTerminal` shows the case of a destroyed instance);
- `deployQueue.ts:160`: only `QUEUED` rows are recovered, one that was being
  planned stays `DEPLOYING` until its node or a timeout settles it;
- `TeamDetailPage.tsx:54`: defaults on screen before the team has arrived;
- `NginxEditor.tsx:35`: text and form are copied into each other.

## Not modelled

- File access, disk usage, directory sizes: they read the file system and keep no
  state; the interesting part, who may, is in `Access`.
- Web push and GitHub commit statuses: posted once, never read again.
- The observability stack and its backup, metrics and log queries: other programs,
  started and asked.
- Migrations and installation scripts: they run once, before the daemon does.
- What pages look like, `DashboardPage.tsx` (no route leads to it), validation of
  form values, and the second copy of its text that `NginxEditor` keeps.

## Plan

The plan was: the deployment protocol with its abstract specification and proofs;
the queue; the ports; then ingress, nodes, DNS and purchases; then health,
incidents, quotas and messages; then projects, rights, sessions and the dashboard.
All of these exist. What is left:

1. `BlueGreen` with several projects per tick, the split marker update, a failing
   `docker compose ls` in the sweep.
2. A composition of `DeployQueue` and `BlueGreen`: the slot of the one refined
   by the queue of the other.
3. Proofs: `NothingIsLost` of `DnsMirror`.
