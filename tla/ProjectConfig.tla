--------------------------- MODULE ProjectConfig ---------------------------
(* The configuration of one project in the leader: its row, its secrets,   *)
(* the webhook GitHub holds for it and the cron task of its schedule       *)
(* (controllers/projectController.ts, secretController.ts,                 *)
(* cicdController.ts, cdScheduler.ts, githubWebhookProvisioning.ts,        *)
(* githubWebhookController.ts, webhookController.ts).                      *)
(*                                                                         *)
(* A request is a list of steps. Other requests run between two of them:   *)
(* what a step has read may be old when a later one writes it back.        *)
EXTENDS Integers, Sequences, FiniteSets, SequencesExt

CONSTANTS
    Names,    \* names of environment variables
    Setups,   \* bound: the CD configurations that are asked for
    Flows,    \* bound: requests at once
    Budgets   \* bound: each is how often events of the kinds it names may happen

Kinds == {"config", "quota", "key", "assign", "env", "sync", "deploy", "setup", "remove",
          "subscribe",  \* the Discord webhook is created or edited to want GitHub events
          "quit",       \* it is edited not to, or deleted
          "create", "delete",
          "over",       \* a project is created over one of its name
          "overlap",    \* a request starts while another is handled
          "refused",    \* GitHub refuses to create a hook
          "kept",       \* GitHub refuses to delete one
          "unread",     \* the .env of the checkout cannot be read
          "moved",      \* the repository names other variables
          "lost",       \* a hook is deleted at GitHub
          "crash"}

VARIABLES
    row,       \* ProjectModel
    secrets,   \* SecretModel: the value of each name
    wants,     \* a Discord webhook with GitHub scenarios exists
    task,      \* cdScheduler.tasks: the project has one
    hooks,     \* the hooks GitHub holds for the project
    created,   \* how many there ever were
    repo,      \* the names the repository uses
    flow,      \* per request: the steps left, and what it has read
    asked,     \* the value last asked for of every field and secret
    missing,   \* names of the repository that the last deployment did not get
    used       \* how often an event of each kind has happened

vars == <<row, secrets, wants, task, hooks, created, repo, flow, asked, missing, used>>
github == <<hooks, created>>
store == <<row, secrets, wants>>

May(kinds) ==
    \E b \in Budgets : \A k \in Kinds :
        used[k] + (IF k \in kinds THEN 1 ELSE 0) <= IF k \in DOMAIN b THEN b[k] ELSE 0
Uses(kinds) ==
    /\ May(kinds)
    /\ used' = [k \in Kinds |-> used[k] + (IF k \in kinds THEN 1 ELSE 0)]
Never(kinds) == \A k \in kinds : used[k] = 0

NoHook == 0
Absent == -1
NoCd == [triggers |-> {}, cron |-> "none"]
Fields == {"config", "quota", "key", "node"}
NewRow == [exists |-> TRUE, config |-> 0, quota |-> 0, key |-> 0, node |-> 0,
           names |-> {}, cicd |-> NoCd, hook |-> NoHook]
NoRow == [NewRow EXCEPT !.exists = FALSE]
Nothing == [f \in {} |-> 0]

Managed(cd) == cd.triggers # {}
\* initCdSchedules and registerScheduledDeploy: a schedule without a valid
\* expression is not registered.
Scheduled(cd) == "schedule" \in cd.triggers /\ cd.cron = "valid"

-----------------------------------------------------------------------------
(* Steps *)

Do(step) == [do |-> step, with |-> Nothing]
Write(updates) == [do |-> "write", with |-> updates]
Put(n, v) == [do |-> "put", with |-> [name |-> n, value |-> v]]
\* updateProject, updateProjectNoDirty and setProjectQuota.
Update(updates) == <<Do("read"), Write(updates)>>

Idle(f) == flow[f].todo = <<>>
Quiet == \A f \in Flows : Idle(f)
NoFlow == [todo |-> <<>>, row |-> NoRow, names |-> {}]
At(f, step) == ~Idle(f) /\ Head(flow[f].todo).do = step
With(f) == Head(flow[f].todo).with
Rest(f) == Tail(flow[f].todo)
Goes(f, steps) == flow' = [flow EXCEPT ![f] = IF steps = <<>> THEN NoFlow ELSE [@ EXCEPT !.todo = steps]]
Reads(f) == flow' = [flow EXCEPT ![f] = IF Rest(f) = <<>> THEN NoFlow ELSE [@ EXCEPT !.todo = Rest(f), !.row = row]]
Ends(f) == Goes(f, <<>>)

\* Requests are alike: the first that is free is taken.
Spare(f) == Idle(f) /\ f = CHOOSE g \in Flows : Idle(g)
Begins(f, kind, steps) ==
    /\ Spare(f)
    /\ Uses(IF Quiet THEN {kind} ELSE {kind, "overlap"})
    /\ Goes(f, steps)

\* getProject. Every request ends when the project does not exist.
ReadProject(f) ==
    /\ At(f, "read")
    /\ IF row.exists THEN Reads(f) ELSE Ends(f)
    /\ UNCHANGED <<store, task, github, repo, asked, missing, used>>

\* { ...current, ...updates }
Merged(old, updates) == [x \in DOMAIN old |-> IF x \in DOMAIN updates THEN updates[x] ELSE old[x]]

\* proposeProjectUpsert: projectToRow and upsertProjectModel write every column.
WriteProject(f) ==
    /\ At(f, "write")
    /\ row' = [Merged(flow[f].row, With(f)) EXCEPT !.exists = TRUE]
    /\ asked' = [x \in DOMAIN asked |-> IF x \in Fields \intersect DOMAIN With(f) THEN With(f)[x] ELSE asked[x]]
    /\ Goes(f, Rest(f))
    /\ UNCHANGED <<secrets, wants, task, github, repo, missing, used>>

-----------------------------------------------------------------------------
(* The fields of the row *)

Values == 0..1
\* The body is written as it is sent, except for the quota (routes.ts:689). The
\* pages send their copy of the project, which is taken to be the row that is
\* read: what a stale page reverts is not modelled.
UpdateProject(f, v) == Begins(f, "config", Update([config |-> v])) /\ asked.config # v
SetProjectQuota(f, v) == Begins(f, "quota", Update([quota |-> v])) /\ asked.quota # v
\* resetDeploymentKey reads the project once more before it updates it.
ResetDeploymentKey(f, v) == Begins(f, "key", <<Do("read")>> \o Update([key |-> v])) /\ asked.key # v

RowRequests(f) ==
    /\ \E v \in Values : UpdateProject(f, v) \/ SetProjectQuota(f, v) \/ ResetDeploymentKey(f, v)
    /\ row.exists
    /\ UNCHANGED <<store, task, github, repo, asked, missing>>

\* SET_PROJECT_ASSIGNMENT writes one column.
SetProjectAssignment(v) ==
    /\ row.exists /\ v # row.node
    /\ Uses(IF Quiet THEN {"assign"} ELSE {"assign", "overlap"})
    /\ row' = [row EXCEPT !.node = v]
    /\ asked' = [asked EXCEPT !.node = v]
    /\ UNCHANGED <<secrets, wants, task, github, repo, flow, missing>>

-----------------------------------------------------------------------------
(* Secrets *)

\* updateEnvironmentVariable: UPSERT_SECRET, and the row is marked dirty.
UpdateEnvironmentVariable(f, n, v) ==
    /\ row.exists /\ secrets[n] # v
    /\ Begins(f, "env", <<Put(n, v)>> \o Update(Nothing))
    /\ UNCHANGED <<store, task, github, repo, asked, missing>>

\* upsertSecretModel, for the user (with more steps to come than other secrets)
\* or for a list of secrets.
PutSecret(f) ==
    /\ At(f, "put")
    /\ secrets' = [secrets EXCEPT ![With(f).name] = With(f).value]
    /\ asked' = IF Rest(f) = Update(Nothing)
                THEN [asked EXCEPT !.secrets[With(f).name] = With(f).value] ELSE asked
    /\ Goes(f, Rest(f))
    /\ UNCHANGED <<row, wants, task, github, repo, missing, used>>

\* SET_PROJECT_SECRETS: all are deleted, then each is inserted.
SetSecrets(new) ==
    LET names == SetToSeq(DOMAIN new)
    IN <<Do("clear")>> \o [i \in DOMAIN names |-> Put(names[i], new[names[i]])]
ClearSecrets(f) ==
    /\ At(f, "clear")
    /\ secrets' = [n \in Names |-> Absent]
    /\ Goes(f, Rest(f))
    /\ UNCHANGED <<row, wants, task, github, repo, asked, missing, used>>

\* applyRepoData reads the project; the secrets are read after it.
SyncProjectToRepoData == <<Do("read"), Do("repo")>>

StartSync(f) ==
    /\ row.exists
    /\ Begins(f, "sync", SyncProjectToRepoData)
    /\ UNCHANGED <<store, task, github, repo, asked, missing>>

\* mutant: secrets the project already has are taken from the repository as well
ValueOf_New(n) == 0
\* applyRepoData: a secret the project has keeps its value.
ValueOf(n) == IF secrets[n] # Absent THEN secrets[n] ELSE 0

\* What the repository names becomes the secrets of the project.
ApplyRepoData(f, names) ==
    /\ At(f, "repo")
    /\ names = repo \/ (names = {} /\ repo # {})
    /\ Uses(IF names = repo THEN {} ELSE {"unread"})
    /\ Goes(f, SetSecrets([n \in names |-> ValueOf(n)]) \o Update([names |-> names]) \o Rest(f))
    /\ UNCHANGED <<store, task, github, repo, asked, missing>>

\* deployProject up to the dotenv file: it syncs, and goes on when the sync has
\* not changed the project.
StartDeploy(f) ==
    /\ row.exists
    /\ Spare(f)
    /\ Uses(IF Quiet THEN {"deploy"} ELSE {"deploy", "overlap"})
    /\ flow' = [flow EXCEPT ![f] = [todo |-> SyncProjectToRepoData \o <<Do("dotenv")>>, row |-> row,
                                    names |-> {n \in Names : secrets[n] # Absent}]]
    /\ UNCHANGED <<store, task, github, repo, asked, missing>>

CompareProjects(f) == row.exists /\ flow[f].names = {n \in Names : secrets[n] # Absent}

GetDotenv(f) ==
    /\ At(f, "dotenv")
    /\ missing' = IF CompareProjects(f) THEN {n \in repo : secrets[n] = Absent} ELSE missing
    /\ Ends(f)
    /\ UNCHANGED <<store, task, github, repo, asked, used>>

-----------------------------------------------------------------------------
(* Continuous deployment *)

\* setupManagedCd.
SetupManagedCd(f, cd) ==
    /\ row.exists
    /\ Begins(f, "setup", <<Do("read"), Do("replace")>> \o Update([cicd |-> cd])
                          \o (IF cd.triggers # {"schedule"} THEN <<Do("ensure")>> ELSE <<>>)
                          \o (IF Scheduled(cd) THEN <<Do("schedule")>> ELSE <<>>))
    /\ UNCHANGED <<store, task, github, repo, asked, missing>>

Unscheduled == FALSE

\* removeManagedCd.
RemoveManagedCd(f) ==
    /\ row.exists
    /\ Begins(f, "remove", <<Do("read"), Do("unschedule")>> \o Update([cicd |-> NoCd]) \o <<Do("unused")>>)
    /\ UNCHANGED <<store, task, github, repo, asked, missing>>

\* A setup stops the task of the configuration it replaces.
Unschedule(f) ==
    /\ At(f, "replace") \/ At(f, "unschedule")
    /\ task' = IF At(f, "unschedule") \/ Managed(flow[f].row.cicd) THEN Unscheduled ELSE task
    /\ Goes(f, Rest(f))
    /\ UNCHANGED <<store, github, repo, asked, missing, used>>

RegisterScheduledDeploy(f) ==
    /\ At(f, "schedule")
    /\ task' = TRUE
    /\ Goes(f, Rest(f))
    /\ UNCHANGED <<store, github, repo, asked, missing, used>>

-----------------------------------------------------------------------------
(* The hook at GitHub *)

Provisioned == row.hook # NoHook

EnsureGithubWebhook(f) ==
    /\ At(f, "ensure")
    /\ Goes(f, IF ~row.exists \/ Provisioned THEN Rest(f) ELSE <<Do("hook")>> \o Rest(f))
    /\ UNCHANGED <<store, task, github, repo, asked, missing, used>>

CreateRepoWebhook(f) ==
    /\ At(f, "hook")
    /\ created' = created + 1
    /\ hooks' = hooks \union {created + 1}
    /\ Goes(f, Update([hook |-> created + 1]) \o Rest(f))
    /\ UNCHANGED <<store, task, repo, asked, missing, used>>

\* The request fails; a webhook was stored before, a setup goes no further.
HookRefused(f) ==
    /\ At(f, "hook")
    /\ Uses({"refused"})
    /\ Ends(f)
    /\ UNCHANGED <<store, task, github, repo, asked, missing>>

\* removeGithubWebhookIfUnused reads the project, and then the webhooks.
Unused(f) ==
    /\ At(f, "unused")
    /\ IF row.exists /\ row.hook # NoHook
       THEN flow' = [flow EXCEPT ![f].todo = <<Do("consumers")>> \o Rest(f), ![f].row = row]
       ELSE Goes(f, Rest(f))
    /\ UNCHANGED <<store, task, github, repo, asked, missing, used>>

\* mutant: only CD counts
WebhookConsumersExist_Cd(f) == Managed(flow[f].row.cicd)
WebhookConsumersExist(f) == Managed(flow[f].row.cicd) \/ wants

Consumers(f) ==
    /\ At(f, "consumers")
    /\ Goes(f, IF WebhookConsumersExist(f) THEN Rest(f) ELSE <<Do("unhook")>> \o Rest(f))
    /\ UNCHANGED <<store, task, github, repo, asked, missing, used>>

\* deleteRepoWebhook, whose failure is only logged.
DeleteRepoWebhook(f, refused) ==
    /\ At(f, "unhook")
    /\ Uses(IF refused THEN {"kept"} ELSE {})
    /\ hooks' = IF refused THEN hooks ELSE hooks \ {flow[f].row.hook}
    /\ Goes(f, Update([hook |-> NoHook]) \o Rest(f))
    /\ UNCHANGED <<store, task, created, repo, asked, missing>>

\* createWebhook and updateWebhook with scenarios; updateWebhook without, and
\* deleteWebhook.
Subscribe(f) ==
    /\ row.exists /\ ~wants
    /\ Begins(f, "subscribe", <<Do("ensure")>>)
    /\ wants' = TRUE
    /\ UNCHANGED <<row, secrets, task, github, repo, asked, missing>>

Quit(f) ==
    /\ row.exists /\ wants
    /\ Begins(f, "quit", <<Do("unused")>>)
    /\ wants' = FALSE
    /\ UNCHANGED <<row, secrets, task, github, repo, asked, missing>>

-----------------------------------------------------------------------------
(* The project itself *)

AskedOfNew == [config |-> 0, quota |-> 0, key |-> 0, node |-> 0, secrets |-> [n \in Names |-> 0]]

\* createProject: the row is written, then it is synchronised; an imported
\* project is overlaid with the configuration it had. Nobody looks whether there
\* is a project of that name: its row is overwritten, except for what is
\* undefined in the new one, like its node (projectPersistence.ts:84-91).
CreateProject(f, legacy) ==
    /\ Spare(f)
    /\ Uses({"create"} \union (IF row.exists THEN {"over"} ELSE {}) \union (IF Quiet THEN {} ELSE {"overlap"}))
    /\ Goes(f, SyncProjectToRepoData \o (IF legacy THEN <<Do("read"), Write([config |-> 1]), Do("legacy")>> ELSE <<>>))
    /\ IF row.exists
       THEN row' = [NewRow EXCEPT !.node = row.node] /\ asked' = [asked EXCEPT !.config = 0, !.key = 0]
       ELSE row' = NewRow /\ asked' = AskedOfNew
    /\ UNCHANGED <<secrets, wants, task, github, repo, missing>>

\* applyLegacyOverlay: the secrets the sync has found get their old values.
ApplyLegacyOverlay(f) ==
    /\ At(f, "legacy")
    /\ LET known == {n \in Names : secrets[n] # Absent} IN
       /\ Goes(f, SetSecrets([n \in known |-> 1]) \o Rest(f))
       /\ asked' = [asked EXCEPT !.secrets = [n \in Names |-> IF n \in known THEN 1 ELSE @[n]]]
    /\ UNCHANGED <<store, task, github, repo, missing, used>>

\* deleteProject: the webhooks go before the row.
StartDelete(f) ==
    /\ row.exists
    /\ Begins(f, "delete", <<Do("webhooks"), Do("project")>>)
    /\ UNCHANGED <<store, task, github, repo, asked, missing>>

ClearProjectWebhooks(f) ==
    /\ At(f, "webhooks")
    /\ wants' = FALSE
    /\ Goes(f, Rest(f))
    /\ UNCHANGED <<row, secrets, task, github, repo, asked, missing, used>>

DeleteProject(f) ==
    /\ At(f, "project")
    /\ row' = NoRow
    /\ Goes(f, Rest(f))
    /\ UNCHANGED <<secrets, wants, task, github, repo, asked, missing, used>>

-----------------------------------------------------------------------------
(* The environment *)

\* initCdSchedules.
Restored == row.exists /\ Scheduled(row.cicd)

Crash ==
    /\ Uses({"crash"})
    /\ flow' = [f \in Flows |-> NoFlow]
    /\ task' = Restored
    /\ UNCHANGED <<store, github, repo, asked, missing>>

RepositoryMoves(names) ==
    /\ names # repo
    /\ Uses({"moved"})
    /\ repo' = names
    /\ UNCHANGED <<store, task, github, flow, asked, missing>>

HookLost(h) ==
    /\ h \in hooks
    /\ Uses({"lost"})
    /\ hooks' = hooks \ {h}
    /\ UNCHANGED <<store, task, created, repo, flow, asked, missing>>

\* eventTriggersDeploy; a tag or branch is one the configuration names, or not.
EventTriggersDeploy(cd, event) ==
    \/ event.type = "push" /\ event.ref = "branch" /\ event.named /\ "push" \in cd.triggers
    \/ event.type = "push" /\ event.ref = "tag" /\ event.named /\ "tag" \in cd.triggers
    \/ event.type = "pull_request" /\ event.ref = "merged" /\ event.named /\ "pr_merge" \in cd.triggers
    \/ event.type = "release" /\ event.ref = "published" /\ "release" \in cd.triggers

\* handleGithubWebhook: what the leader answers to a delivery of hook h.
HandleGithubWebhook(h, event) ==
    CASE ~row.exists \/ row.hook = NoHook -> "404"
      [] row.hook # h -> "401"
      [] event.type = "ping" -> "pong"
      [] Managed(row.cicd) /\ EventTriggersDeploy(row.cicd, event) -> "deploy"
      [] OTHER -> "accepted"

-----------------------------------------------------------------------------

Init ==
    /\ row = NewRow /\ secrets = [n \in Names |-> Absent] /\ wants = FALSE /\ task = FALSE
    /\ hooks = {} /\ created = 0 /\ repo = Names
    /\ flow = [f \in Flows |-> NoFlow]
    /\ asked = AskedOfNew /\ missing = {}
    /\ used = [k \in Kinds |-> 0]

Next ==
    \/ \E f \in Flows :
         \/ ReadProject(f) \/ WriteProject(f) \/ RowRequests(f)
         \/ PutSecret(f) \/ ClearSecrets(f) \/ StartSync(f) \/ StartDeploy(f) \/ GetDotenv(f)
         \/ \E n \in Names, v \in Values \ {0} : UpdateEnvironmentVariable(f, n, v)
         \/ \E names \in {{}, repo} : ApplyRepoData(f, names)
         \/ \E cd \in Setups : SetupManagedCd(f, cd)
         \/ RemoveManagedCd(f) \/ Unschedule(f) \/ RegisterScheduledDeploy(f)
         \/ EnsureGithubWebhook(f) \/ CreateRepoWebhook(f) \/ HookRefused(f)
         \/ Unused(f) \/ Consumers(f) \/ Subscribe(f) \/ Quit(f)
         \/ \E refused \in BOOLEAN : DeleteRepoWebhook(f, refused)
         \/ \E legacy \in BOOLEAN : CreateProject(f, legacy)
         \/ ApplyLegacyOverlay(f)
         \/ StartDelete(f) \/ ClearProjectWebhooks(f) \/ DeleteProject(f)
    \/ \E v \in Values : SetProjectAssignment(v)
    \/ \E names \in SUBSET Names : RepositoryMoves(names)
    \/ \E h \in hooks : HookLost(h)
    \/ Crash

Spec == Init /\ [][Next]_vars

-----------------------------------------------------------------------------
(* Properties *)

TypeOK ==
    /\ row \in [exists : BOOLEAN, config : Values, quota : Values, key : Values, node : Values,
                names : SUBSET Names, cicd : Setups \union {NoCd}, hook : 0..created]
    /\ secrets \in [Names -> {Absent} \union Values]
    /\ wants \in BOOLEAN /\ task \in BOOLEAN /\ hooks \subseteq 1..created /\ repo \subseteq Names
    /\ missing \subseteq Names

\* What was asked for last is what is stored: a request that writes the whole
\* row back (stateMachine.ts:92, projectPersistence.ts:84) does not undo another
\* one, while requests take turns; a stop in the middle of one does no harm. Of
\* a project that is created over another the quota is lost.
WritesAreKept ==
    Never({"overlap"}) /\ row.exists
    => \A x \in Fields : row[x] = asked[x] \/ (x = "quota" /\ ~Never({"over"}))

\* Only who sets the quota changes it (projectController.ts:112-114).
QuotaIsTheAdmins == Never({"overlap"}) /\ row.exists => row.quota = asked.quota

\* The same when requests overlap.
WritesSurviveOverlap == row.exists /\ Quiet => \A x \in Fields : row[x] = asked[x]

\* The values a user has given to variables the repository names survive every
\* synchronisation (secretController.ts:51-63), unless requests overlap, the
\* leader stops, or the .env of the checkout could not be read.
UserValuesSurvive ==
    Never({"overlap", "crash", "unread", "moved"}) /\ Quiet /\ row.exists
    => \A n \in repo : asked.secrets[n] # 0 => secrets[n] = asked.secrets[n]

\* The same when the checkout cannot be read, and when the leader stops.
UserValuesSurviveUnread ==
    Never({"overlap", "crash", "moved"}) /\ Quiet /\ row.exists
    => \A n \in repo : asked.secrets[n] # 0 => secrets[n] = asked.secrets[n]
UserValuesSurviveCrash ==
    Never({"overlap", "unread", "moved"}) /\ Quiet /\ row.exists
    => \A n \in repo : asked.secrets[n] # 0 => secrets[n] = asked.secrets[n]

\* A deployment gets every variable the repository names (deployController.ts:
\* 134-140); it syncs first and gives up when that changed anything.
DotenvIsComplete == Never({"overlap", "unread", "moved"}) => missing = {}

\* The same when another request synchronises at the same time.
DotenvIsCompleteAlways == Never({"unread", "moved"}) => missing = {}

\* A hook that is stored is one GitHub has: deliveries are not waited for that
\* nobody sends. A hook GitHub has is the one that is stored: no event is
\* delivered twice, and none with a token nobody knows; unless the project was
\* created over another, whose hook is forgotten.
HookIsOurs ==
    Never({"overlap", "crash", "lost", "kept", "delete"}) /\ Quiet
    => /\ row.hook # NoHook => row.hook \in hooks
       /\ Never({"over"}) => hooks \subseteq {row.hook} \ {NoHook}

\* The same when the project is created over another, when the leader stops, and
\* when the project is deleted.
HookIsOursAfterCreate ==
    Never({"overlap", "crash", "lost", "kept", "delete"}) /\ Quiet => hooks \subseteq {row.hook}
HookIsOursAfterCrash == Never({"overlap", "lost", "kept", "delete"}) /\ Quiet /\ row.hook # NoHook => row.hook \in hooks
HookDiesWithProject == Never({"overlap", "crash", "lost", "kept"}) /\ Quiet /\ ~row.exists => hooks = {}

Event(type, ref) == [type |-> type, ref |-> ref, named |-> TRUE]
Events == {Event("push", "branch"), Event("push", "tag"), Event("pull_request", "merged"),
           Event("release", "published"), Event("issues", "opened")}
Answers(event) == {HandleGithubWebhook(h, event) : h \in hooks}

\* Whoever subscribes to GitHub gets its events: an event that triggers a
\* deployment is answered with one, and one that a Discord webhook wants is
\* accepted (githubWebhookProvisioning.ts:16-22, :41-50) until the project is
\* created over another.
ConsumersAreServed ==
    Never({"overlap", "crash", "lost", "refused", "delete"}) /\ Quiet /\ row.exists
    => \A event \in Events :
         /\ EventTriggersDeploy(row.cicd, event) => "deploy" \in Answers(event)
         /\ wants /\ Never({"over"}) => Answers(event) \intersect {"accepted", "deploy"} # {}

\* The same when the project is created over another, when requests overlap, and
\* when GitHub refuses the hook.
ConsumersAreServedAfterCreate ==
    Never({"overlap", "crash", "lost", "refused", "delete", "kept"}) /\ Quiet /\ row.exists /\ wants => row.hook # NoHook
ConsumersAreServedInAnyOrder ==
    Never({"crash", "lost", "refused", "delete", "kept"}) /\ Quiet /\ row.exists /\ wants => hooks # {}
ConsumersAreServedAfterAll ==
    Never({"overlap", "crash", "lost", "delete", "kept"}) /\ Quiet /\ row.exists /\ Managed(row.cicd)
      /\ row.cicd.triggers # {"schedule"} => hooks # {}

\* The cron task follows the configuration, also when the leader was restarted
\* in the middle of a request (cdScheduler.ts:42-53); that of a project another
\* was created over goes on.
ScheduleMatchesConfig ==
    Never({"overlap", "refused", "delete"}) /\ Quiet
    => /\ Scheduled(row.cicd) => task
       /\ task /\ Never({"over"}) => Scheduled(row.cicd)

\* The same when a project is created over another.
ScheduleMatchesAfterCreate == Never({"overlap", "refused", "delete"}) /\ Quiet /\ task => Scheduled(row.cicd)

\* The task of a project that is deleted is stopped.
TaskDiesWithProject == Never({"overlap", "refused"}) /\ Quiet /\ ~row.exists => ~task

\* Nothing but createProject brings a deleted project back, not even a request
\* that has read it before (projectPersistence.ts:84).
DeletedProjectStaysDeleted ==
    [][~row.exists /\ row'.exists => used'["create"] > used["create"]]_vars

\* Nothing of a deleted project is left to the next one of its name.
NewProjectIsNew ==
    Never({"overlap", "crash"}) /\ Quiet /\ row.exists
    => \A n \in Names : asked.secrets[n] = 0 => secrets[n] \in {0, Absent}

=============================================================================
