------------------------------- MODULE Access -------------------------------
(* Who may do what (controllers/authz.ts, teamController.ts,               *)
(* adminController.ts): a request is checked one table row and one GitHub  *)
(* list at a time, and what it has read may be old when it is used. Lists  *)
(* of GitHub come from caches that keep an answer for TTL.                 *)
EXTENDS Routes, Integers, FiniteSets

CONSTANTS
    Users,    \* GitHub users
    Supers,   \* VITE_GITHUB_OAUTH_DEFAULT_USER
    Login,    \* the user whose own account is the team, when it is a user's
    Machine,  \* callers that hold a key or the cluster's secret
    Grants,   \* bound: sets of capabilities that are granted
    Asked,    \* bound: the programs of Routes that each caller runs often, rarely and to write
    Starts,   \* bound: the states to begin with
    TTL,      \* CACHE_TTL_MS
    MaxTime,  \* bound
    Flows,    \* bound: requests at once
    Budgets   \* bound: each is how often events of the kinds it names may happen

All == {"view", "deploy", "configure", "delete", "create_project", "manage_incidents"}
Keys == {"apps", "members", "owners"}
Requests == {"often", "rare", "write"}
Kinds == Requests \cup
         {"overlap",
          "membership",   \* somebody joins or leaves the organization, or becomes an owner of it
          "installation", \* the App is installed or uninstalled
          "session",      \* somebody signs in or out
          "outage",       \* GitHub does not answer
         "unlisted",     \* a list of the organization is asked for after the App is gone
          "slow",         \* time passes while a request is handled
          "follower"}     \* a request arrives at a follower

\* Checked where the module is instantiated (MCManagement.tla).
AccessAssumption ==
    /\ TTL \in Nat \ {0} /\ MaxTime \in Nat /\ TTL <= MaxTime
    /\ Users \cap Machine = {} /\ Supers \subseteq Users
    /\ Grants \subseteq SUBSET All
    /\ \A u \in Users \cup Machine, how \in Requests : Asked[u][how] \subseteq Programs
    /\ Starts \subseteq [kind : {"org", "user"}, caps : SUBSET All, admins : SUBSET Users, warm : BOOLEAN,
                       github : [installed : BOOLEAN, members : SUBSET Users, owners : SUBSET Users]]
    /\ \A start \in Starts : start.github.owners \subseteq start.github.members
    /\ \A b \in Budgets : DOMAIN b \subseteq Kinds /\ \A k \in DOMAIN b : b[k] \in Nat

VARIABLES
    now,
    kind,      \* TeamType of the owner
    github,    \* what GitHub would answer
    until,     \* when each of it last held
    changed,   \* when it last changed
    cache,     \* per list: the last answer, and when it came
    inflight,  \* per list: whether it is being fetched
    config,    \* TeamConfigModel
    override,  \* TeamMemberOverrideModel: {} for no row
    admins,    \* AdminModel
    sessions,  \* users that are signed in
    flow,      \* per request: the checks left, and what it has read
    asked,     \* the defaults and overrides last asked for
    used       \* how often an event of each kind has happened

vars == <<now, kind, github, until, changed, cache, inflight, config, override, admins, sessions, flow, asked, used>>
outside == <<kind, github, until, changed, sessions>>
caches == <<cache, inflight>>
store == <<config, override, admins, asked>>

May(kinds) ==
    \E b \in Budgets : \A k \in Kinds :
        used[k] + (IF k \in kinds THEN 1 ELSE 0) <= IF k \in DOMAIN b THEN b[k] ELSE 0
Uses(kinds) ==
    /\ May(kinds)
    /\ used' = [k \in Kinds |-> used[k] + (IF k \in kinds THEN 1 ELSE 0)]
Never(kinds) == \A k \in kinds : used[k] = 0

IsAdmin(u) == u \in admins \cup Supers
\* What the tables grant, VIEW with any of it.
Granted(u, defaults) ==
    LET caps == defaults \cup override[u] IN IF caps = {} THEN {} ELSE caps \cup {"view"}
Owns(u) == IF kind = "user" THEN u = Login ELSE u \in github.owners

\* What a user is promised (common/types.ts).
TrueCaps(u) ==
    IF ~github.installed THEN {}
    ELSE IF IsAdmin(u) \/ Owns(u) THEN All
    ELSE IF kind = "org" /\ u \in github.members THEN Granted(u, config.caps) ELSE {}

-----------------------------------------------------------------------------
(* Requests *)

NoFlow == [caller |-> "nobody", node |-> "leader", todo |-> <<>>, at |-> "idle", wait |-> "none",
           installed |-> FALSE, defaults |-> {}, does |-> "none", with |-> {}, start |-> 0,
           could |-> {}, wasAdmin |-> FALSE, wasIn |-> FALSE, entitled |-> FALSE]
Idle(f) == flow[f].at = "idle"
Quiet == \A f \in Flows : Idle(f)
At(f, step) == flow[f].at = step /\ flow[f].wait = "none"
Goes(f, record) == flow' = [flow EXCEPT ![f] = record]

Refused(fl) == [fl EXCEPT !.todo = <<>>, !.at = "refused"]
Passed(fl) ==
    IF Len(fl.todo) = 1 THEN [fl EXCEPT !.todo = <<>>, !.at = "act"]
    ELSE [fl EXCEPT !.todo = Tail(@), !.at = "check", !.installed = FALSE, !.defaults = {}]
PassedIf(fl, holds) == IF holds THEN Passed(fl) ELSE Refused(fl)
CheckOf(fl) == Head(fl.todo).check
\* With these capabilities.
Decided(fl, caps) ==
    LET cap == Head(fl.todo).cap IN
    IF CheckOf(fl) = "reveal" THEN Passed([fl EXCEPT !.does = IF cap \in caps THEN "secrets" ELSE "see"])
    ELSE PassedIf(fl, IF cap = "any" THEN caps # {} ELSE cap \in caps)
\* getTeamDetail for who cannot manage the team: the route asks for any capability.
AsMember(fl) == [fl EXCEPT !.todo = <<Team("any")>> \o Tail(fl.todo), !.at = "check", !.installed = FALSE]

Entitled(u, checks) ==
    \A i \in DOMAIN checks : LET c == checks[i].check IN
        /\ c = "session" => u \in sessions
        /\ c = "caps" => checks[i].cap \in TrueCaps(u)
        /\ c = "manage" => github.installed /\ (IsAdmin(u) \/ Owns(u))
        /\ c = "member" => TrueCaps(u) # {}
        /\ c = "installed" => github.installed
        /\ c = "admin" => IsAdmin(u)
        /\ c = "super" => u \in Supers
        /\ c \in {"key", "hook", "apikey", "secret"} => u \in Machine

Writes == {"defaults", "override", "clear", "promote", "demote"}

Begin(f, u, how, node) ==
    /\ Idle(f) /\ f = CHOOSE g \in Flows : Idle(g)
    /\ Uses({how} \cup (IF Quiet THEN {} ELSE {"overlap"}) \cup (IF node = "leader" THEN {} ELSE {"follower"}))
    /\ \E program \in Asked[u][how] : \E caps \in IF program.does \in {"defaults", "override"} THEN Grants ELSE {{}} :
        Goes(f, [NoFlow EXCEPT !.caller = u, !.node = node, !.todo = program.checks, !.does = program.does,
                               !.at = IF program.checks = <<>> THEN "act" ELSE "check",
                               !.with = caps, !.start = now,
                               !.could = IF u \in Users THEN Granted(u, config.caps) ELSE {},
                               !.wasAdmin = IsAdmin(u), !.wasIn = u \in sessions,
                               !.entitled = Entitled(u, program.checks) /\ now - changed >= TTL])
    /\ UNCHANGED <<now, outside, caches, store>>

\* Checks that read nothing but the request, the tables or a constant. The tables of
\* a follower are empty.
CheckHere(f) ==
    /\ At(f, "check")
    /\ LET fl == flow[f] IN
       \/ CheckOf(fl) = "session" /\ Goes(f, PassedIf(fl, fl.node = "leader" /\ fl.caller \in sessions))
       \/ CheckOf(fl) = "leader" /\ Goes(f, Passed([fl EXCEPT !.node = "leader"]))
       \/ CheckOf(fl) = "admin" /\ Goes(f, PassedIf(fl, IsAdmin(fl.caller)))
       \/ CheckOf(fl) = "super" /\ Goes(f, PassedIf(fl, fl.caller \in Supers))
       \/ CheckOf(fl) \in {"key", "hook", "apikey"} /\ Goes(f, PassedIf(fl, fl.node = "leader" /\ fl.caller \in Machine))
       \/ CheckOf(fl) = "secret" /\ Goes(f, PassedIf(fl, fl.caller \in Machine))
    /\ UNCHANGED <<now, outside, caches, store, used>>

\* The list a request needs next.
Needs(fl) ==
    IF fl.wait # "none" THEN "none"
    ELSE IF fl.at = "resolve" THEN "apps"
    ELSE IF fl.at = "check" /\ CheckOf(fl) \in {"caps", "reveal", "manage", "member", "installed"} THEN "apps"
    ELSE IF fl.at \in {"members", "owners"} THEN fl.at ELSE "none"

\* What it goes on with when it has it.
After(fl, key, value) ==
    LET u == fl.caller
        gl == [fl EXCEPT !.wait = "none"]
    IN  IF key = "apps" THEN
            IF fl.at = "resolve" THEN [gl EXCEPT !.at = "resolved", !.installed = value # {}]
            ELSE IF CheckOf(fl) = "installed" THEN PassedIf(gl, value # {})
            ELSE [gl EXCEPT !.at = "team", !.installed = value # {}]
        ELSE IF key = "members" THEN IF u \in value THEN [gl EXCEPT !.at = "owners"] ELSE Decided(gl, {})
        ELSE IF CheckOf(fl) = "manage" THEN PassedIf(gl, u \in value)
        ELSE IF CheckOf(fl) = "member" THEN IF u \in value THEN Passed(gl) ELSE AsMember(gl)
        ELSE IF u \in value THEN Decided(gl, All) ELSE [gl EXCEPT !.at = "override"]

-----------------------------------------------------------------------------
(* The caches: makeCache *)

NoEntry == [known |-> FALSE, value |-> {}, at |-> 0]
NoFetch == [busy |-> FALSE, value |-> {}, entry |-> NoEntry]
Fresh_Forever(entry) == entry.known  \* mutant: an answer is kept for good
Fresh(entry) == entry.known /\ now - entry.at < TTL
Truth(key) ==
    IF key = "apps" THEN {o \in {"owner"} : github.installed} ELSE IF key = "members" THEN github.members ELSE github.owners
\* An organization without an installation has no token to list its members with.
Answers(key) == key = "apps" \/ github.installed

\* An answer that is young enough, the fetch another request has started, or a fetch.
ReadCache(f) ==
    LET key == Needs(flow[f]) IN
    /\ key # "none"
    /\ IF Fresh(cache[key])
       THEN Goes(f, After(flow[f], key, cache[key].value)) /\ UNCHANGED inflight
       ELSE /\ Goes(f, [flow[f] EXCEPT !.wait = key])
            /\ inflight' = IF inflight[key].busy THEN inflight
                           ELSE [inflight EXCEPT ![key] = [busy |-> TRUE, value |-> Truth(key), entry |-> cache[key]]]
    /\ UNCHANGED <<now, outside, cache, store, used>>

Resolve(key, value) ==
    /\ inflight[key].busy
    /\ inflight' = [inflight EXCEPT ![key] = NoFetch]
    /\ flow' = [f \in Flows |-> IF flow[f].wait = key THEN After(flow[f], key, value) ELSE flow[f]]
    /\ UNCHANGED <<now, outside, store>>

\* GitHub has looked when the request came, or just now.
Fetched(key) ==
    \E value \in {inflight[key].value, Truth(key)} :
        /\ Answers(key)
        /\ Resolve(key, value)
        /\ cache' = [cache EXCEPT ![key] = [known |-> TRUE, value |-> value, at |-> now]]
        /\ UNCHANGED used

\* The last answer, however old, serves when there is one.
FetchFails(key) ==
    /\ Resolve(key, IF inflight[key].entry.known THEN inflight[key].entry.value ELSE {})
    /\ Uses({IF Answers(key) THEN "outage" ELSE "unlisted"})
    /\ UNCHANGED cache

-----------------------------------------------------------------------------
(* Capabilities: getEffectiveCapabilitiesForTeam, requireTeamManage *)

\* resolveTeamByLogin, resolveTeamById: the stored row, when there is no installation.
TeamStep(fl) ==
    IF ~fl.installed /\ (~config.exists \/ CheckOf(fl) = "manage") THEN Decided([fl EXCEPT !.installed = FALSE], {})
    ELSE IF ~fl.installed /\ CheckOf(fl) \in {"caps", "reveal"} THEN Decided(fl, {})
    ELSE [fl EXCEPT !.at = "admin", !.defaults = config.caps]

AdminStep(fl) ==
    LET caps == CheckOf(fl) \in {"caps", "reveal"}
        owner == fl.caller = Login
    IN  IF IsAdmin(fl.caller) THEN IF caps THEN Decided(fl, All) ELSE Passed(fl)
        ELSE IF kind = "user" THEN
            IF caps THEN Decided(fl, IF owner THEN All ELSE {}) ELSE PassedIf(fl, owner /\ fl.installed)
        ELSE IF caps THEN [fl EXCEPT !.at = "members"]
        ELSE IF fl.installed THEN [fl EXCEPT !.at = "owners"] ELSE Refused(fl)

Check(f) ==
    /\ \/ At(f, "team") /\ Goes(f, TeamStep(flow[f]))
       \/ At(f, "admin") /\ Goes(f, AdminStep(flow[f]))
       \/ At(f, "override") /\ Goes(f, Decided(flow[f], Granted(flow[f].caller, flow[f].defaults)))
    /\ UNCHANGED <<now, outside, caches, store, used>>

-----------------------------------------------------------------------------
(* What requests do: setTeamDefaults, setTeamOverride, clearTeamOverride,  *)
(* addAdmin, removeAdmin. The other handlers are in other modules.         *)

\* Rights change: every request that is being handled notices what it could.
Witnessed(record, f) ==
    [g \in Flows |->
        IF g = f THEN record
        ELSE IF Idle(g) THEN flow[g]
        ELSE [flow[g] EXCEPT !.entitled = FALSE,
                             !.could = IF flow[g].caller \in Users
                                       THEN @ \cup config'.caps \cup override'[flow[g].caller] \cup
                                            (IF config'.caps \cup override'[flow[g].caller] = {} THEN {} ELSE {"view"})
                                       ELSE @,
                             !.wasAdmin = @ \/ flow[g].caller \in admins']]

Ends(f) == Goes(f, NoFlow)
Respond(f) ==
    /\ At(f, "refused") \/ (At(f, "act") /\ flow[f].does \notin Writes)
    /\ Ends(f)
    /\ UNCHANGED <<now, outside, caches, store, used>>

\* The team is resolved once more.
Act(f) ==
    /\ At(f, "act") /\ flow[f].does \in {"defaults", "override", "clear"}
    /\ Goes(f, [flow[f] EXCEPT !.at = "resolve"])
    /\ UNCHANGED <<now, outside, caches, store, used>>

Resolved(f) ==
    LET fl == flow[f]
        throws == IF fl.does = "clear" THEN ~fl.installed /\ ~config.exists ELSE ~fl.installed \/ kind = "user"
    IN  /\ At(f, "resolved")
        /\ Goes(f, IF throws THEN NoFlow
                   ELSE [fl EXCEPT !.at = IF fl.does = "override" THEN "exists" ELSE "write", !.defaults = config.caps])
        /\ UNCHANGED <<now, outside, caches, store, used>>

\* setTeamOverride looks for the team's row, and writes one with the defaults it knows.
RowExists(f) ==
    /\ At(f, "exists")
    /\ Goes(f, [flow[f] EXCEPT !.at = IF config.exists THEN "write" ELSE "row"])
    /\ UNCHANGED <<now, outside, caches, store, used>>

WriteRow(f) ==
    /\ At(f, "row")
    /\ config' = [exists |-> TRUE, caps |-> flow[f].defaults]
    /\ UNCHANGED <<override, admins, asked>>
    /\ flow' = Witnessed([flow[f] EXCEPT !.at = "write"], f)
    /\ UNCHANGED <<now, outside, caches, used>>

SetTeamDefaults(f) ==
    /\ At(f, "write") /\ flow[f].does = "defaults"
    /\ config' = [exists |-> TRUE, caps |-> flow[f].with]
    /\ asked' = [asked EXCEPT !.defaults = flow[f].with]
    /\ UNCHANGED <<override, admins>>

SetTeamOverride(f, u) ==
    /\ At(f, "write") /\ flow[f].does = "override"
    /\ override' = [override EXCEPT ![u] = flow[f].with]
    /\ asked' = [asked EXCEPT !.override[u] = flow[f].with]
    /\ UNCHANGED <<config, admins>>

ClearTeamOverride(f, u) ==
    /\ At(f, "write") /\ flow[f].does = "clear"
    /\ override' = [override EXCEPT ![u] = {}]
    /\ asked' = [asked EXCEPT !.override[u] = {}]
    /\ UNCHANGED <<config, admins>>

AddAdmin(f, u) ==
    /\ At(f, "act") /\ flow[f].does = "promote"
    /\ admins' = admins \cup {u}
    /\ UNCHANGED <<config, override, asked>>

RemoveAdmin(f, u) ==
    /\ At(f, "act") /\ flow[f].does = "demote"
    /\ admins' = admins \ {u}
    /\ UNCHANGED <<config, override, asked>>

WriteTables(f) ==
    /\ \/ SetTeamDefaults(f)
       \/ \E u \in Users \ Supers :
            SetTeamOverride(f, u) \/ ClearTeamOverride(f, u) \/ AddAdmin(f, u) \/ RemoveAdmin(f, u)
    /\ flow' = Witnessed(NoFlow, f)
    /\ UNCHANGED <<now, outside, caches, used>>

-----------------------------------------------------------------------------
(* GitHub and time *)

GithubChanges(to, kinds) ==
    /\ Uses(kinds)
    /\ github' = to
    /\ changed' = now
    /\ until' = [installed |-> IF github.installed THEN now ELSE until.installed,
                 members |-> [u \in Users |-> IF u \in github.members THEN now ELSE until.members[u]],
                 owners |-> [u \in Users |-> IF u \in github.owners THEN now ELSE until.owners[u]]]
    /\ flow' = [f \in Flows |-> [flow[f] EXCEPT !.entitled = FALSE]]
    /\ UNCHANGED <<now, kind, sessions, caches, store>>

InstallationChanges == GithubChanges([github EXCEPT !.installed = ~@], {"installation"})
MembershipChanges(u) ==
    /\ kind = "org"
    /\ \/ u \notin github.members /\ GithubChanges([github EXCEPT !.members = @ \cup {u}], {"membership"})
       \/ u \in github.members /\ GithubChanges([github EXCEPT !.members = @ \ {u}, !.owners = @ \ {u}], {"membership"})
       \/ u \in github.members \ github.owners /\ GithubChanges([github EXCEPT !.owners = @ \cup {u}], {"membership"})
       \/ u \in github.owners /\ GithubChanges([github EXCEPT !.owners = @ \ {u}], {"membership"})

SessionChanges(u) ==
    /\ Uses({"session"})
    /\ sessions' = IF u \in sessions THEN sessions \ {u} ELSE sessions \cup {u}
    /\ flow' = [f \in Flows |-> [flow[f] EXCEPT !.entitled = FALSE, !.wasIn = @ \/ flow[f].caller \in sessions']]
    /\ UNCHANGED <<now, kind, github, until, changed, caches, store>>

Tick ==
    /\ now < MaxTime
    /\ now' = now + 1
    /\ IF Quiet THEN UNCHANGED used ELSE Uses({"slow"})
    /\ UNCHANGED <<outside, caches, store, flow>>

-----------------------------------------------------------------------------
Init ==
    /\ now = TTL
    /\ \E start \in Starts :
        /\ kind = start.kind /\ github = start.github /\ admins = start.admins
        /\ config = [exists |-> start.caps # {}, caps |-> start.caps]
        /\ cache = [k \in Keys |-> IF start.warm THEN [known |-> TRUE, value |-> Truth(k), at |-> now] ELSE NoEntry]
    /\ until = [installed |-> -1, members |-> [u \in Users |-> -1], owners |-> [u \in Users |-> -1]]
    /\ changed = 0
    /\ inflight = [k \in Keys |-> NoFetch]
    /\ override = [u \in Users |-> {}]
    /\ sessions = Users
    /\ flow = [f \in Flows |-> NoFlow]
    /\ asked = [defaults |-> config.caps, override |-> override]
    /\ used = [k \in Kinds |-> 0]

Next ==
    \/ \E f \in Flows :
        \/ \E u \in Users \cup Machine, how \in Requests, node \in {"leader", "follower"} : Begin(f, u, how, node)
        \/ CheckHere(f) \/ ReadCache(f) \/ Check(f)
        \/ Respond(f) \/ Act(f) \/ Resolved(f) \/ RowExists(f) \/ WriteRow(f) \/ WriteTables(f)
    \/ \E k \in Keys : Fetched(k) \/ FetchFails(k)
    \/ InstallationChanges
    \/ \E u \in Users : MembershipChanges(u) \/ SessionChanges(u)
    \/ Tick

Spec == Init /\ [][Next]_vars

-----------------------------------------------------------------------------
(* Properties *)

TypeOK ==
    /\ now \in 0..MaxTime /\ changed \in 0..MaxTime /\ kind \in {"org", "user"}
    /\ github.installed \in BOOLEAN /\ github.owners \subseteq github.members /\ github.members \subseteq Users
    /\ \A k \in Keys : cache[k].at \in 0..MaxTime /\ inflight[k].busy \in BOOLEAN
    /\ config.exists \in BOOLEAN /\ config.caps \subseteq All
    /\ override \in [Users -> SUBSET All] /\ admins \subseteq Users /\ sessions \subseteq Users
    /\ \A f \in Flows : flow[f].wait \in Keys \cup {"none"} /\ flow[f].could \subseteq All
    /\ used \in [Kinds -> Nat]

\* What every effect demands: the comments on Capability (types.ts:874-881) and on the
\* sections of routes.ts; overwriting a project demands what an update of it does, its
\* metrics what its usage does, nodes what their pages do (router.tsx:101-109).
Demands == [see |-> "view", secrets |-> "configure", configure |-> "configure", deploy |-> "deploy", delete |-> "delete",
            create |-> "create_project", request |-> "create_project", incidents |-> "manage_incidents",
            logs |-> "deploy", metrics |-> "view", over |-> "configure"]
OfAdmins == {"administer", "host", "join"}
\* Effects whose handlers ask for a session and nothing else.
Unchecked == {"logs", "metrics", "over", "host", "join"}
\* What a node answers itself, for any caller or for one with a session.
OnAnyNode == {"node", "join"}

InstalledLately(f) == github.installed \/ until.installed > flow[f].start - TTL
MemberLately(f) == flow[f].caller \in github.members \/ until.members[flow[f].caller] > flow[f].start - TTL
OwnerLately(f) ==
    IF kind = "user" THEN flow[f].caller = Login
    ELSE flow[f].caller \in github.owners \/ until.owners[flow[f].caller] > flow[f].start - TTL
Managed(f) == flow[f].wasAdmin \/ OwnerLately(f)
HadRight(f) ==
    LET does == flow[f].does IN
    /\ does \in {"login", "node"} \/ flow[f].wasIn
    /\ does \in DOMAIN Demands =>
        InstalledLately(f) /\ (Managed(f) \/ (MemberLately(f) /\ Demands[does] \in flow[f].could))
    /\ does \in {"manage", "defaults", "override", "clear"} => InstalledLately(f) /\ Managed(f)
    /\ does = "list" => Managed(f) \/ (MemberLately(f) /\ flow[f].could # {})
    /\ does \in OfAdmins => flow[f].wasAdmin
    /\ does \in {"promote", "demote"} => flow[f].caller \in Supers

ActsWith(f) == IF flow[f].does \in Unchecked THEN flow[f].wasIn ELSE HadRight(f)

\* What a user's request does needs a right whose every part (the installation, the
\* membership, the grant, the session) held while the request was handled, or at GitHub
\* within TTL before it (authz.ts:14-47, :139-157). A request that was checked keeps going
\* when the right ends meanwhile. An organization that does not list its members any more,
\* since the App was removed while the request was handled, is as it last was. Of the
\* effects that no handler checks, the session is all that is certain: RightsFor below.
ActsWithRights ==
    Never({"outage", "slow", "unlisted"}) =>
        \A f \in Flows : flow[f].at = "act" /\ flow[f].caller \in Users => ActsWith(f)

\* Who has had the right for TTL and keeps it is not refused.
RightsAreHonoured ==
    Never({"outage", "slow", "follower"}) => \A f \in Flows : flow[f].at = "refused" => ~flow[f].entitled

\* Replicated state is written on the leader (node.ts:26-32 throws elsewhere).
WritesRunOnTheLeader ==
    \A f \in Flows : flow[f].at = "act" /\ flow[f].does \notin OnAnyNode => flow[f].node = "leader"

\* Defaults and overrides are those last asked for.
GrantsAreKept ==
    Quiet /\ Never({"overlap"}) => config.caps = asked.defaults /\ override = asked.override

-----------------------------------------------------------------------------
(* Claims that fail *)

\* Every effect needs the right it demands. With a session anybody reads the logs of any
\* project ("deploy: see logs + ...", types.ts:876), its metrics, the nodes' metrics, storage
\* and logs, and the cluster's secret (routes.ts:309-324, :390-490, :577-610), and overwrites
\* the project of another team by creating one with its id (routes.ts:669-675).
RightsFor(effects) ==
    Never({"outage", "slow", "unlisted"}) =>
        \A f \in Flows : flow[f].at = "act" /\ flow[f].caller \in Users /\ flow[f].does \in effects => HadRight(f)
LogsAreForDeployers == RightsFor({"logs"})
MetricsAreForViewers == RightsFor({"metrics"})
NodesAreForAdmins == RightsFor({"host"})
SecretIsForAdmins == RightsFor({"join"})
ProjectsAreOverwrittenWithRights == RightsFor({"over"})
\* "a transient GitHub outage or rate-limit never blocks a permission check" (authz.ts:13): a
\* list that was never fetched is empty.
OutageNeverBlocks ==
    Never({"slow", "follower"}) => \A f \in Flows : flow[f].at = "refused" => ~flow[f].entitled
\* The same when the App is removed while the request is handled: the lists an organization
\* had, however old, serve then too (authz.ts:35-40).
AccessEndsWithTheApp ==
    Never({"outage", "slow"}) => \A f \in Flows : flow[f].at = "act" /\ flow[f].caller \in Users => ActsWith(f)
\* Access ends TTL after the right: not while GitHub does not answer.
AccessAlwaysEnds ==
    Never({"slow", "unlisted"}) => \A f \in Flows : flow[f].at = "act" /\ flow[f].caller \in Users => ActsWith(f)
\* "Any node accepts private API calls" (README.md:77): a follower looks the session up in
\* its own, empty, table before it forwards.
AnyNodeServes ==
    Never({"outage", "slow"}) => \A f \in Flows : flow[f].at = "refused" => ~flow[f].entitled
\* The row an override creates overwrites defaults that were set after it was looked for.
GrantsAreKeptInAnyOrder ==
    Quiet => config.caps = asked.defaults

=============================================================================
